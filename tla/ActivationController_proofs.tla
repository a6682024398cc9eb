--------------------- MODULE ActivationController_proofs ---------------------
(***************************************************************************)
(* Proofs about the activation controller: what every handler leaves       *)
(* behind it, that a screen which waits has something to wait for, and     *)
(* that what the server says of one activation changes nothing about       *)
(* another.  They hold for any number of activations, workers, jobs and    *)
(* issued copies, and whatever the host, the siblings and time do.         *)
(***************************************************************************)
EXTENDS ActivationController, SequenceTheorems, FiniteSetTheorems, TLAPS

\* A check, a deactivation and a discard are about a license.
Wanted == {m \in Messages : m.kind \in {"refresh", "deactivate", "discard"} => m.from \in Copies}

CheckAnswers ==
    {"granted", "notCovered", "expired", "revoked", "invalid", "failed", "unverified"}

\* What the continuation of a job may find: a license that is granted or found ended
\* comes with the answer, and a check answers with a copy of what it was asked about.
Answered ==
    {m \in Wanted : m.fresh =>
        /\ m.kind = "start" /\ m.answer \in {"granted", "notCovered", "expired"}
             => m.copy \in Copies
        /\ m.kind = "refresh"
             => /\ m.answer \in CheckAnswers
                /\ m.answer \in {"granted", "notCovered"}
                     => m.copy \in Copies /\ m.copy.act = m.from.act
        /\ m.kind = "poll" /\ m.answer = "granted" => m.copy \in Copies}

QueuesOK == jobs \in Seq(Wanted) /\ posted \in Seq(Answered)

\* What is asked and not answered yet: of every message under way, the kind and
\* the license it is about.
Pairs(seq) == {<<seq[i].kind, seq[i].from>> : i \in {j \in DOMAIN seq : seq[j].fresh}}
Asks == Pairs(jobs) \cup Pairs(posted)

RefreshesIn(seq) == Cardinality({i \in DOMAIN seq : seq[i].kind = "refresh"})
Checks == RefreshesIn(jobs) + RefreshesIn(posted)

FileOK ==
    /\ disk \in Copies \cup {NoLicense}
    /\ changed \in BOOLEAN /\ existed \in BOOLEAN /\ watching \in BOOLEAN
    /\ elsewhere \in Copies \cup {NoLicense}
    /\ issued \in Nat /\ stale \in Nat /\ ended \in [Activations -> Nat]

Matches(c) ==
    /\ c.license # NoLicense => c.notCovered = NoLicense /\ c.lockReason = "None"
    /\ c.screen = "NotCovered" => c.notCovered # NoLicense \/ c.pending
    /\ c.screen = "Expired" => c.expiredTrial # NoLicense /\ c.license = NoLicense
    /\ c.polling = c.pending

\* Each of these moves the generation on when it begins, and only one of them is
\* not out of date at a time; polls and discards come and go beside it.
Leads == {"start", "request", "refresh", "deactivate"}
OneLead == \A p, q \in Asks : p[1] \in Leads /\ q[1] \in Leads => p = q

\* A check or a deactivation that is not out of date is about what is held.
AboutTheHeld ==
    \A p \in Asks : p[1] \in {"refresh", "deactivate"} /\ Held(self) # NoLicense
                      => Held(self).act = p[2].act

AsksFor(kind) == \E p \in Asks : p[1] = kind

BrowserWaits ==
    self.screen = "BrowserWait" => self.pending \/ AsksFor("request") \/ AsksFor("deactivate")

IInv ==
    /\ QueuesOK /\ FileOK
    /\ self \in Members /\ Matches(self)
    /\ self.refreshes = Checks
    /\ OneLead /\ AboutTheHeld /\ BrowserWaits

\* For a host that starts the controller once: the load comes before everything else.
LoadIsFirst ==
    /\ ~watching => self.screen = "Loading" /\ Asks = {}
    /\ self.screen = "Loading" =>
         /\ Held(self) = NoLicense /\ ~self.pending
         /\ \A p \in Asks : p[1] = "start"
         /\ watching => AsksFor("start")

-----------------------------------------------------------------------------
(* Sequences of messages.                                                  *)

LEMMA WantedAreMessages == Wanted \subseteq Messages /\ Answered \subseteq Wanted
BY DEF Wanted, Answered

LEMMA CountIsNat ==
    ASSUME NEW seq \in Seq(Messages)
    PROVE  /\ RefreshesIn(seq) \in Nat
           /\ IsFiniteSet({i \in DOMAIN seq : seq[i].kind = "refresh"})
<1> DEFINE S == {i \in DOMAIN seq : seq[i].kind = "refresh"}
<1>1. Len(seq) \in Nat /\ DOMAIN seq = 1 .. Len(seq)
  BY LenProperties
<1>2. IsFiniteSet(1 .. Len(seq)) /\ S \in SUBSET (1 .. Len(seq))
  BY <1>1, FS_Interval
<1>3. IsFiniteSet(S)
  BY <1>2, FS_Subset
<1>4. Cardinality(S) \in Nat
  BY <1>3, FS_CardinalityType
<1> QED
  BY <1>3, <1>4 DEF RefreshesIn

LEMMA NothingCounts == RefreshesIn(<< >>) = 0 /\ Pairs(<< >>) = {}
<1>1. DOMAIN << >> = {}
  OBVIOUS
<1>2. {i \in DOMAIN << >> : << >>[i].kind = "refresh"} = {}
  BY <1>1
<1> QED
  BY <1>1, <1>2, FS_EmptySet DEF RefreshesIn, Pairs

One(m) == IF m.kind = "refresh" THEN 1 ELSE 0
PairOf(m) == IF m.fresh THEN {<<m.kind, m.from>>} ELSE {}

LEMMA AppendCounts ==
    ASSUME NEW seq \in Seq(Messages), NEW m \in Messages
    PROVE  /\ RefreshesIn(Append(seq, m)) = RefreshesIn(seq) + One(m)
           /\ Pairs(Append(seq, m)) = Pairs(seq) \cup PairOf(m)
<1> DEFINE n == Len(seq)
           more == Append(seq, m)
           S == {i \in DOMAIN seq : seq[i].kind = "refresh"}
           T == {i \in DOMAIN more : more[i].kind = "refresh"}
<1>1. /\ n \in Nat /\ DOMAIN seq = 1 .. n
      /\ more \in Seq(Messages) /\ Len(more) = n + 1
      /\ \A i \in 1 .. n : more[i] = seq[i]
      /\ more[n + 1] = m
  BY LenProperties, AppendProperties
<1>2. DOMAIN more = 1 .. n + 1
  BY <1>1, LenProperties
<1>3. IsFiniteSet(S) /\ Cardinality(S) \in Nat
  BY CountIsNat, FS_CardinalityType
<1>4. RefreshesIn(more) = RefreshesIn(seq) + One(m)
  <2> HIDE DEF S, T
  <2>0. RefreshesIn(seq) = Cardinality(S) /\ RefreshesIn(more) = Cardinality(T)
    BY DEF RefreshesIn, S, T
  <2>1. CASE m.kind = "refresh"
    <3>1. T = S \cup {n + 1} /\ n + 1 \notin S
      BY <1>1, <1>2, <2>1 DEF S, T
    <3>2. Cardinality(T) = Cardinality(S) + 1
      BY <1>3, <3>1, FS_AddElement
    <3> QED
      BY <2>0, <2>1, <3>2 DEF One
  <2>2. CASE m.kind # "refresh"
    <3>1. T = S
      BY <1>1, <1>2, <2>2 DEF S, T
    <3> QED
      BY <1>3, <2>0, <2>2, <3>1 DEF One
  <2> QED
    BY <2>1, <2>2
<1>5. Pairs(more) = Pairs(seq) \cup PairOf(m)
  <2>1. ASSUME NEW p \in Pairs(more) PROVE p \in Pairs(seq) \cup PairOf(m)
    <3>1. PICK i \in 1 .. n + 1 : more[i].fresh /\ p = <<more[i].kind, more[i].from>>
      BY <1>2, <2>1 DEF Pairs
    <3>2. CASE i \in 1 .. n
      BY <1>1, <3>1, <3>2 DEF Pairs
    <3>3. CASE i = n + 1
      BY <1>1, <3>1, <3>3 DEF PairOf
    <3> QED
      BY <1>1, <3>2, <3>3
  <2>2. ASSUME NEW p \in Pairs(seq) PROVE p \in Pairs(more)
    <3>1. PICK i \in 1 .. n : seq[i].fresh /\ p = <<seq[i].kind, seq[i].from>>
      BY <1>1, <2>2 DEF Pairs
    <3>2. i \in DOMAIN more /\ more[i] = seq[i]
      BY <1>1, <1>2
    <3> QED
      BY <3>1, <3>2 DEF Pairs
  <2>3. ASSUME NEW p \in PairOf(m) PROVE p \in Pairs(more)
    <3>1. m.fresh /\ p = <<m.kind, m.from>>
      BY <2>3 DEF PairOf
    <3>2. n + 1 \in DOMAIN more /\ more[n + 1] = m
      BY <1>1, <1>2
    <3> QED
      BY <3>1, <3>2 DEF Pairs
  <2> QED
    BY <2>1, <2>2, <2>3
<1> QED
  BY <1>4, <1>5

LEMMA SupersededCounts ==
    ASSUME NEW S, S \in {Wanted, Answered}, NEW seq \in Seq(S)
    PROVE  /\ Superseded(seq) \in Seq(S)
           /\ Len(Superseded(seq)) = Len(seq)
           /\ RefreshesIn(Superseded(seq)) = RefreshesIn(seq)
           /\ Pairs(Superseded(seq)) = {}
<1> DEFINE n == Len(seq)
           T == Superseded(seq)
<1>1. n \in Nat /\ DOMAIN seq = 1 .. n /\ \A i \in 1 .. n : seq[i] \in S
  BY LenProperties, ElementOfSeq
<1>2. ASSUME NEW m \in S
      PROVE  /\ Outdated(m) \in S /\ Outdated(m).kind = m.kind
             /\ Outdated(m).fresh = FALSE
  <2>1. CASE S = Wanted
    BY <1>2, <2>1 DEF Outdated, Wanted, Messages, Answers
  <2>2. CASE S = Answered
    BY <1>2, <2>2 DEF Outdated, Wanted, Answered, Messages, Answers
  <2> QED
    BY <2>1, <2>2
<1>3. T = [i \in 1 .. n |-> Outdated(seq[i])]
  BY <1>1 DEF Superseded
<1>4. T \in [1 .. n -> S]
  BY <1>1, <1>2, <1>3
<1>5. T \in Seq(S) /\ Len(T) = n
  BY <1>1, <1>4, SeqDef
<1>6. {i \in DOMAIN T : T[i].kind = "refresh"} = {i \in DOMAIN seq : seq[i].kind = "refresh"}
  BY <1>1, <1>2, <1>3
<1>7. \A i \in DOMAIN T : ~T[i].fresh
  BY <1>1, <1>2, <1>3
<1> QED
  BY <1>5, <1>6, <1>7 DEF RefreshesIn, Pairs

\* What is left when the element at i is taken out.
LEMMA RemovalCounts ==
    ASSUME NEW s \in Seq(Messages), NEW t \in Seq(Messages), NEW i \in 1 .. Len(s),
           Len(t) = Len(s) - 1,
           \A j \in 1 .. Len(t) : t[j] = IF j < i THEN s[j] ELSE s[j + 1]
    PROVE  /\ RefreshesIn(s) = RefreshesIn(t) + One(s[i])
           /\ Pairs(s) = Pairs(t) \cup PairOf(s[i])
<1> DEFINE n == Len(t)
           S == {j \in DOMAIN s : s[j].kind = "refresh"}
           T == {j \in DOMAIN t : t[j].kind = "refresh"}
           f == [j \in T |-> IF j < i THEN j ELSE j + 1]
<1>1. n \in Nat /\ DOMAIN t = 1 .. n /\ DOMAIN s = 1 .. n + 1 /\ i \in 1 .. n + 1
  BY LenProperties
<1>2. /\ IsFiniteSet(S) /\ IsFiniteSet(T)
      /\ Cardinality(S) \in Nat /\ Cardinality(T) \in Nat
  BY CountIsNat, FS_CardinalityType
<1>0. RefreshesIn(s) = Cardinality(S) /\ RefreshesIn(t) = Cardinality(T)
  BY DEF RefreshesIn
<1>3. f \in Bijection(T, S \ {i})
  <2>1. ASSUME NEW j \in T PROVE f[j] \in S \ {i}
    BY <1>1, <2>1
  <2>2. f \in [T -> S \ {i}]
    BY <2>1
  <2>3. ASSUME NEW j \in T, NEW k \in T, f[j] = f[k] PROVE j = k
    <3>1. j \in Int /\ k \in Int /\ i \in Int
      BY <1>1
    <3> QED
      BY <2>3, <3>1
  <2>4. ASSUME NEW k \in S \ {i} PROVE \E j \in T : f[j] = k
    <3>1. k \in 1 .. n + 1 /\ k # i /\ s[k].kind = "refresh"
      BY <1>1
    <3>2. CASE k < i
      <4>1. k \in 1 .. n /\ t[k] = s[k]
        BY <1>1, <3>1, <3>2
      <4>2. k \in T
        BY <1>1, <3>1, <4>1
      <4> QED
        BY <3>2, <4>2
    <3>3. CASE k > i
      <4>1. k - 1 \in 1 .. n /\ ~(k - 1 < i)
        BY <1>1, <3>1, <3>3
      <4>2. t[k - 1] = s[k]
        BY <1>1, <3>1, <4>1
      <4>3. k - 1 \in T /\ f[k - 1] = k
        BY <1>1, <3>1, <4>1, <4>2
      <4> QED
        BY <4>3
    <3>4. k < i \/ k > i
      BY <1>1, <3>1
    <3> QED
      BY <3>2, <3>3, <3>4
  <2>5. f \in Injection(T, S \ {i})
    BY <2>2, <2>3 DEF Injection, IsInjective
  <2>6. f \in Surjection(T, S \ {i})
    BY <2>2, <2>4 DEF Surjection
  <2> QED
    BY <2>5, <2>6 DEF Bijection
<1>4. Cardinality(S \ {i}) = Cardinality(T)
  BY <1>2, <1>3, FS_Bijection DEF ExistsBijection
<1>5. RefreshesIn(s) = RefreshesIn(t) + One(s[i])
  <2> HIDE DEF S, T
  <2>1. CASE s[i].kind = "refresh"
    <3>1. i \in S
      BY <1>1, <2>1 DEF S
    <3>2. Cardinality(S \ {i}) = Cardinality(S) - 1
      BY <1>2, <3>1, FS_RemoveElement
    <3> QED
      BY <1>0, <1>2, <1>4, <2>1, <3>2 DEF One
  <2>2. CASE s[i].kind # "refresh"
    <3>1. S \ {i} = S
      BY <2>2 DEF S
    <3>2. Cardinality(S) = Cardinality(T)
      BY <1>4, <3>1, Zenon
    <3>3. One(s[i]) = 0
      BY <2>2 DEF One
    <3> QED
      BY <1>0, <1>2, <3>2, <3>3
  <2> QED
    BY <2>1, <2>2
<1>6. Pairs(s) = Pairs(t) \cup PairOf(s[i])
  <2>1. ASSUME NEW p \in Pairs(s) PROVE p \in Pairs(t) \cup PairOf(s[i])
    <3>1. PICK k \in 1 .. n + 1 : s[k].fresh /\ p = <<s[k].kind, s[k].from>>
      BY <1>1, <2>1 DEF Pairs
    <3>2. CASE k = i
      BY <3>1, <3>2 DEF PairOf
    <3>3. CASE k < i
      <4>1. k \in 1 .. n /\ t[k] = s[k]
        BY <1>1, <3>3
      <4> QED
        BY <1>1, <3>1, <4>1 DEF Pairs
    <3>4. CASE k > i
      <4>1. k - 1 \in 1 .. n /\ ~(k - 1 < i) /\ k - 1 + 1 = k
        BY <1>1, <3>4
      <4>2. t[k - 1] = s[k]
        BY <4>1
      <4> QED
        BY <1>1, <3>1, <4>1, <4>2 DEF Pairs
    <3> QED
      BY <1>1, <3>2, <3>3, <3>4
  <2>2. ASSUME NEW p \in Pairs(t) PROVE p \in Pairs(s)
    <3>1. PICK j \in 1 .. n : t[j].fresh /\ p = <<t[j].kind, t[j].from>>
      BY <1>1, <2>2 DEF Pairs
    <3>2. CASE j < i
      <4>1. t[j] = s[j] /\ j \in DOMAIN s
        BY <1>1, <3>2
      <4> QED
        BY <3>1, <4>1 DEF Pairs
    <3>3. CASE ~(j < i)
      <4>1. t[j] = s[j + 1] /\ j + 1 \in DOMAIN s
        BY <1>1, <3>3
      <4> QED
        BY <3>1, <4>1 DEF Pairs
    <3> QED
      BY <3>2, <3>3
  <2>3. ASSUME NEW p \in PairOf(s[i]) PROVE p \in Pairs(s)
    BY <1>1, <2>3 DEF Pairs, PairOf
  <2> QED
    BY <2>1, <2>2, <2>3
<1> QED
  BY <1>5, <1>6

LEMMA TailCounts ==
    ASSUME NEW S, S \subseteq Messages, NEW s \in Seq(S), s # << >>
    PROVE  /\ Tail(s) \in Seq(S) /\ Len(Tail(s)) = Len(s) - 1 /\ s[1] \in S
           /\ RefreshesIn(s) = RefreshesIn(Tail(s)) + One(s[1])
           /\ Pairs(s) = Pairs(Tail(s)) \cup PairOf(s[1])
<1>1. /\ Tail(s) \in Seq(S) /\ Len(Tail(s)) = Len(s) - 1
      /\ \A j \in 1 .. Len(Tail(s)) : Tail(s)[j] = s[j + 1]
  BY HeadTailProperties
<1>2. Len(s) \in Nat /\ Len(s) # 0
  BY EmptySeq, LenProperties
<1>3. 1 \in 1 .. Len(s) /\ s[1] \in S
  BY <1>2, ElementOfSeq
<1>4. s \in Seq(Messages) /\ Tail(s) \in Seq(Messages)
  BY <1>1, SeqMonotonic
<1>5. \A j \in 1 .. Len(Tail(s)) : Tail(s)[j] = IF j < 1 THEN s[j] ELSE s[j + 1]
  BY <1>1
<1> QED
  BY <1>1, <1>3, <1>4, <1>5, RemovalCounts

LEMMA RemoveAtCounts ==
    ASSUME NEW S, S \subseteq Messages, NEW s \in Seq(S), NEW i \in 1 .. Len(s)
    PROVE  /\ RemoveAt(s, i) \in Seq(S)
           /\ RefreshesIn(s) = RefreshesIn(RemoveAt(s, i)) + One(s[i])
           /\ Pairs(s) = Pairs(RemoveAt(s, i)) \cup PairOf(s[i])
<1> DEFINE n == Len(s)
           front == SubSeq(s, 1, i - 1)
           back == SubSeq(s, i + 1, n)
<1>1. n \in Nat /\ i \in 1 .. n /\ \A j \in 1 .. n : s[j] \in S
  BY LenProperties, ElementOfSeq
<1>2. /\ front \in Seq(S) /\ Len(front) = i - 1
      /\ \A j \in 1 .. i - 1 : front[j] = s[j]
  <2>1. \A j \in 1 .. i - 1 : s[j] \in S
    BY <1>1
  <2>2. 1 \in Int /\ i - 1 \in Int
    BY <1>1
  <2>3. /\ front \in Seq(S) /\ Len(front) = IF 1 <= i - 1 THEN i - 1 - 1 + 1 ELSE 0
        /\ \A j \in 1 .. i - 1 - 1 + 1 : front[j] = s[1 + j - 1]
    BY <2>1, <2>2, SubSeqProperties
  <2> QED
    BY <1>1, <2>3
<1>3. /\ back \in Seq(S) /\ Len(back) = n - i
      /\ \A j \in 1 .. n - i : back[j] = s[i + j]
  <2>1. \A j \in i + 1 .. n : s[j] \in S
    BY <1>1
  <2>2. i + 1 \in Int /\ n \in Int
    BY <1>1
  <2>3. /\ back \in Seq(S) /\ Len(back) = IF i + 1 <= n THEN n - (i + 1) + 1 ELSE 0
        /\ \A j \in 1 .. n - (i + 1) + 1 : back[j] = s[(i + 1) + j - 1]
    BY <2>1, <2>2, SubSeqProperties
  <2> QED
    BY <1>1, <2>3
<1>4. RemoveAt(s, i) = front \o back
  BY DEF RemoveAt
<1> DEFINE t == RemoveAt(s, i)
<1>5. /\ t \in Seq(S) /\ Len(t) = n - 1
      /\ \A j \in 1 .. n - 1 : t[j] = IF j <= i - 1 THEN front[j] ELSE back[j - (i - 1)]
  <2>1. /\ front \o back \in Seq(S) /\ Len(front \o back) = Len(front) + Len(back)
        /\ \A j \in 1 .. Len(front) + Len(back) : (front \o back)[j] =
              IF j <= Len(front) THEN front[j] ELSE back[j - Len(front)]
    BY <1>2, <1>3, ConcatProperties
  <2>2. Len(front) + Len(back) = n - 1
    <3> HIDE DEF front, back
    <3> QED
      BY <1>1, <1>2, <1>3
  <2> QED
    BY <1>2, <1>4, <2>1, <2>2
<1> HIDE DEF t, front, back
<1>6. ASSUME NEW j \in 1 .. n - 1 PROVE t[j] = IF j < i THEN s[j] ELSE s[j + 1]
  <2>1. CASE j < i
    BY <1>1, <1>2, <1>5, <2>1
  <2>2. CASE ~(j < i)
    <3>1. j - (i - 1) \in 1 .. n - i /\ i + (j - (i - 1)) = j + 1 /\ ~(j <= i - 1)
      BY <1>1, <2>2
    <3>2. back[j - (i - 1)] = s[j + 1]
      BY <1>3, <3>1
    <3> QED
      BY <1>5, <2>2, <3>1, <3>2
  <2> QED
    BY <2>1, <2>2
<1>7. s \in Seq(Messages) /\ t \in Seq(Messages)
  BY <1>5, SeqMonotonic
<1>8. /\ RefreshesIn(s) = RefreshesIn(t) + One(s[i])
      /\ Pairs(s) = Pairs(t) \cup PairOf(s[i])
  BY <1>5, <1>6, <1>7, RemovalCounts
<1> QED
  BY <1>5, <1>8 DEF t


-----------------------------------------------------------------------------
(* What a handler does to the queues.                                      *)

QueueFacts == QueuesOK /\ Checks \in Nat

LEMMA QueuesCount ==
    ASSUME QueuesOK
    PROVE  /\ jobs \in Seq(Messages) /\ posted \in Seq(Messages)
           /\ RefreshesIn(jobs) \in Nat /\ RefreshesIn(posted) \in Nat
           /\ Checks \in Nat
<1>1. jobs \in Seq(Messages) /\ posted \in Seq(Messages)
  BY WantedAreMessages, SeqMonotonic DEF QueuesOK
<1>2. RefreshesIn(jobs) \in Nat /\ RefreshesIn(posted) \in Nat
  BY <1>1, CountIsNat
<1> QED
  BY <1>1, <1>2 DEF Checks

LEMMA QueuesCountAfter ==
    ASSUME QueuesOK'
    PROVE  /\ jobs' \in Seq(Messages) /\ posted' \in Seq(Messages)
           /\ RefreshesIn(jobs)' \in Nat /\ RefreshesIn(posted)' \in Nat
           /\ Checks' \in Nat
<1>1. jobs' \in Seq(Messages) /\ posted' \in Seq(Messages)
  BY WantedAreMessages, SeqMonotonic DEF QueuesOK
<1>2. RefreshesIn(jobs') \in Nat /\ RefreshesIn(posted') \in Nat
  BY <1>1, CountIsNat
<1>3. /\ RefreshesIn(jobs)' = RefreshesIn(jobs') /\ RefreshesIn(posted)' = RefreshesIn(posted')
      /\ Checks' = RefreshesIn(jobs') + RefreshesIn(posted')
  BY DEF Checks, RefreshesIn
<1> QED
  BY <1>1, <1>2, <1>3

LEMMA GivenCounts ==
    ASSUME NEW seq \in Seq(Wanted), NEW m \in Wanted
    PROVE  /\ seq \o << >> = seq
           /\ seq \o <<m>> \in Seq(Wanted)
           /\ RefreshesIn(seq \o <<m>>) = RefreshesIn(seq) + One(m)
           /\ Pairs(seq \o <<m>>) = Pairs(seq) \cup PairOf(m)
<1>1. seq \o <<m>> = Append(seq, m) /\ Append(seq, m) \in Seq(Wanted)
  BY AppendIsConcat, AppendProperties
<1>2. seq \in Seq(Messages) /\ m \in Messages
  BY WantedAreMessages, SeqMonotonic
<1> QED
  BY <1>1, <1>2, AppendCounts, ConcatEmptySeq

LEMMA JobIsWanted ==
    ASSUME NEW k \in JobKinds, NEW f \in Copies \cup {NoLicense}, NEW b \in BOOLEAN,
           k \in {"refresh", "deactivate", "discard"} => f \in Copies
    PROVE  /\ Job(k, f, b) \in Wanted
           /\ One(Job(k, f, b)) = (IF k = "refresh" THEN 1 ELSE 0)
           /\ PairOf(Job(k, f, b)) = {<<k, f>>}
BY DEF Job, Wanted, Messages, Answers, One, PairOf

LEMMA SameQueues ==
    ASSUME QueuesOK, UNCHANGED messages
    PROVE  QueuesOK' /\ Checks' = Checks /\ Asks' = Asks
BY DEF messages, QueuesOK, Checks, Asks, RefreshesIn, Pairs

LEMMA KeepsAll ==
    ASSUME QueuesOK, Keeping(<< >>, posted)
    PROVE  QueuesOK' /\ Checks' = Checks /\ Asks' = Asks
<1>1. jobs' = jobs /\ posted' = posted
  BY ConcatEmptySeq DEF Keeping, QueuesOK
<1> QED
  BY <1>1, SameQueues DEF messages

LEMMA KeepsMore ==
    ASSUME QueuesOK, NEW m \in Wanted, Keeping(<<m>>, posted)
    PROVE  QueuesOK' /\ Checks' = Checks + One(m) /\ Asks' = Asks \cup PairOf(m)
<1>1. /\ jobs' \in Seq(Wanted)
      /\ RefreshesIn(jobs') = RefreshesIn(jobs) + One(m)
      /\ Pairs(jobs') = Pairs(jobs) \cup PairOf(m)
      /\ posted' = posted
  BY GivenCounts DEF Keeping, QueuesOK
<1>2. RefreshesIn(jobs) \in Nat /\ RefreshesIn(posted) \in Nat
  BY QueuesCount
<1>3. One(m) \in Nat
  BY DEF One
<1>4. Checks' = RefreshesIn(jobs') + RefreshesIn(posted') /\ Asks' = Pairs(jobs') \cup Pairs(posted')
  BY DEF Checks, Asks, RefreshesIn, Pairs
<1> QED
  BY <1>1, <1>2, <1>3, <1>4 DEF QueuesOK, Checks, Asks

LEMMA KeepsRest ==
    ASSUME QueuesOK, posted # << >>, Keeping(<< >>, Tail(posted))
    PROVE  /\ QueuesOK' /\ Checks' = Checks - One(posted[1])
           /\ Asks = Asks' \cup PairOf(posted[1])
<1>1. jobs' = jobs /\ posted' = Tail(posted)
  BY ConcatEmptySeq DEF Keeping, QueuesOK
<1>2. /\ Tail(posted) \in Seq(Answered)
      /\ RefreshesIn(posted) = RefreshesIn(Tail(posted)) + One(posted[1])
      /\ Pairs(posted) = Pairs(Tail(posted)) \cup PairOf(posted[1])
  BY WantedAreMessages, TailCounts DEF QueuesOK
<1>3. QueuesOK'
  BY <1>1, <1>2 DEF QueuesOK
<1>4. /\ RefreshesIn(jobs) \in Nat /\ RefreshesIn(posted) \in Nat
      /\ RefreshesIn(posted') \in Nat
  BY <1>3, QueuesCount, QueuesCountAfter DEF RefreshesIn
<1>5. Checks' = RefreshesIn(jobs') + RefreshesIn(posted') /\ Asks' = Pairs(jobs') \cup Pairs(posted')
  BY DEF Checks, Asks, RefreshesIn, Pairs
<1>6. One(posted[1]) \in Nat
  BY DEF One
<1> QED
  BY <1>1, <1>2, <1>3, <1>4, <1>5, <1>6 DEF Checks, Asks

LEMMA KeepsRestAndMore ==
    ASSUME QueuesOK, posted # << >>, NEW m \in Wanted, Keeping(<<m>>, Tail(posted))
    PROVE  /\ QueuesOK' /\ Checks' = Checks - One(posted[1]) + One(m)
           /\ Asks \subseteq Asks' \cup PairOf(posted[1])
           /\ Asks' \subseteq Asks \cup PairOf(m)
<1>1. /\ jobs' \in Seq(Wanted)
      /\ RefreshesIn(jobs') = RefreshesIn(jobs) + One(m)
      /\ Pairs(jobs') = Pairs(jobs) \cup PairOf(m)
      /\ posted' = Tail(posted)
  BY GivenCounts DEF Keeping, QueuesOK
<1>2. /\ Tail(posted) \in Seq(Answered)
      /\ RefreshesIn(posted) = RefreshesIn(Tail(posted)) + One(posted[1])
      /\ Pairs(posted) = Pairs(Tail(posted)) \cup PairOf(posted[1])
  BY WantedAreMessages, TailCounts DEF QueuesOK
<1>3. QueuesOK'
  BY <1>1, <1>2 DEF QueuesOK
<1>4. /\ RefreshesIn(jobs) \in Nat /\ RefreshesIn(posted) \in Nat
      /\ RefreshesIn(posted') \in Nat
  BY <1>3, QueuesCount, QueuesCountAfter DEF RefreshesIn
<1>5. Checks' = RefreshesIn(jobs') + RefreshesIn(posted') /\ Asks' = Pairs(jobs') \cup Pairs(posted')
  BY DEF Checks, Asks, RefreshesIn, Pairs
<1>6. One(posted[1]) \in Nat /\ One(m) \in Nat
  BY DEF One
<1> QED
  BY <1>1, <1>2, <1>3, <1>4, <1>5, <1>6 DEF Checks, Asks

LEMMA MovesAll ==
    ASSUME QueuesOK, Moving(<< >>, posted)
    PROVE  /\ QueuesOK' /\ Checks' = Checks /\ Asks' = {}
           /\ Len(posted') = Len(posted)
<1>1. /\ Superseded(jobs) \in Seq(Wanted) /\ RefreshesIn(Superseded(jobs)) = RefreshesIn(jobs)
      /\ Pairs(Superseded(jobs)) = {}
  BY SupersededCounts DEF QueuesOK
<1>2. /\ Superseded(posted) \in Seq(Answered)
      /\ RefreshesIn(Superseded(posted)) = RefreshesIn(posted)
      /\ Pairs(Superseded(posted)) = {} /\ Len(Superseded(posted)) = Len(posted)
  BY SupersededCounts DEF QueuesOK
<1>3. jobs' = Superseded(jobs) /\ posted' = Superseded(posted)
  BY <1>1, ConcatEmptySeq DEF Moving
<1>4. Checks' = RefreshesIn(jobs') + RefreshesIn(posted') /\ Asks' = Pairs(jobs') \cup Pairs(posted')
  BY DEF Checks, Asks, RefreshesIn, Pairs
<1> QED
  BY <1>1, <1>2, <1>3, <1>4 DEF QueuesOK, Checks

LEMMA MovesMore ==
    ASSUME QueuesOK, NEW m \in Wanted, Moving(<<m>>, posted)
    PROVE  /\ QueuesOK' /\ Checks' = Checks + One(m) /\ Asks' = PairOf(m)
           /\ Len(posted') = Len(posted)
<1>1. /\ Superseded(jobs) \in Seq(Wanted) /\ RefreshesIn(Superseded(jobs)) = RefreshesIn(jobs)
      /\ Pairs(Superseded(jobs)) = {}
  BY SupersededCounts DEF QueuesOK
<1>2. /\ Superseded(posted) \in Seq(Answered)
      /\ RefreshesIn(Superseded(posted)) = RefreshesIn(posted)
      /\ Pairs(Superseded(posted)) = {} /\ Len(Superseded(posted)) = Len(posted)
  BY SupersededCounts DEF QueuesOK
<1>3. /\ jobs' \in Seq(Wanted)
      /\ RefreshesIn(jobs') = RefreshesIn(jobs) + One(m)
      /\ Pairs(jobs') = PairOf(m)
      /\ posted' = Superseded(posted)
  BY <1>1, GivenCounts DEF Moving
<1>4. Checks' = RefreshesIn(jobs') + RefreshesIn(posted') /\ Asks' = Pairs(jobs') \cup Pairs(posted')
  BY DEF Checks, Asks, RefreshesIn, Pairs
<1>5. RefreshesIn(jobs) \in Nat /\ RefreshesIn(posted) \in Nat /\ One(m) \in Nat
  BY QueuesCount DEF One
<1> QED
  BY <1>2, <1>3, <1>4, <1>5 DEF QueuesOK, Checks

LEMMA MovesRest ==
    ASSUME QueuesOK, posted # << >>, Moving(<< >>, Tail(posted))
    PROVE  QueuesOK' /\ Checks' = Checks - One(posted[1]) /\ Asks' = {}
<1>1. /\ Superseded(jobs) \in Seq(Wanted) /\ RefreshesIn(Superseded(jobs)) = RefreshesIn(jobs)
      /\ Pairs(Superseded(jobs)) = {}
  BY SupersededCounts DEF QueuesOK
<1>2. /\ Tail(posted) \in Seq(Answered)
      /\ RefreshesIn(posted) = RefreshesIn(Tail(posted)) + One(posted[1])
  BY WantedAreMessages, TailCounts DEF QueuesOK
<1>3. /\ Superseded(Tail(posted)) \in Seq(Answered)
      /\ RefreshesIn(Superseded(Tail(posted))) = RefreshesIn(Tail(posted))
      /\ Pairs(Superseded(Tail(posted))) = {}
  BY <1>2, SupersededCounts
<1>4. jobs' = Superseded(jobs) /\ posted' = Superseded(Tail(posted))
  BY <1>1, ConcatEmptySeq DEF Moving
<1>5. Checks' = RefreshesIn(jobs') + RefreshesIn(posted') /\ Asks' = Pairs(jobs') \cup Pairs(posted')
  BY DEF Checks, Asks, RefreshesIn, Pairs
<1>6. QueuesOK'
  BY <1>1, <1>3, <1>4 DEF QueuesOK
<1>7. /\ RefreshesIn(jobs) \in Nat /\ RefreshesIn(posted) \in Nat
      /\ RefreshesIn(posted') \in Nat /\ One(posted[1]) \in Nat
  BY <1>6, QueuesCount, QueuesCountAfter DEF RefreshesIn, One
<1> QED
  BY <1>1, <1>2, <1>3, <1>4, <1>5, <1>6, <1>7 DEF Checks

\* An answer that fits the job, as Answered has it.
FitsJob(m, answer, copy) ==
    /\ answer \in Answers /\ copy \in Copies \cup {NoLicense}
    /\ m.kind = "start" /\ answer \in {"granted", "notCovered", "expired"} => copy \in Copies
    /\ m.kind = "refresh" => /\ answer \in CheckAnswers
                             /\ answer \in {"granted", "notCovered"}
                                  => copy \in Copies /\ copy.act = m.from.act
    /\ m.kind = "poll" /\ answer = "granted" => copy \in Copies

LEMMA EndsKeeps ==
    ASSUME QueuesOK, NEW i \in 1 .. Len(jobs), NEW answer, NEW copy,
           FitsJob(jobs[i], answer, copy), Ends(i, answer, copy)
    PROVE  /\ QueuesOK' /\ Checks' = Checks /\ Asks' = Asks
           /\ Len(posted') = Len(posted) + 1
<1> DEFINE m == jobs[i]
           done == IF m.fresh THEN [m EXCEPT !.answer = answer, !.copy = copy]
                   ELSE Outdated(m)
<1>1. m \in Wanted
  BY ElementOfSeq DEF QueuesOK
<1>2. done \in Answered /\ One(done) = One(m) /\ PairOf(done) = PairOf(m)
  <2>1. CASE m.fresh
    BY <1>1, <2>1 DEF FitsJob, Answered, Wanted, Messages, One, PairOf
  <2>2. CASE ~m.fresh
    BY <1>1, <2>2 DEF Outdated, Answered, Wanted, Messages, Answers, One, PairOf
  <2> QED
    BY <2>1, <2>2
<1>3. /\ jobs' \in Seq(Wanted)
      /\ RefreshesIn(jobs) = RefreshesIn(jobs') + One(m)
      /\ Pairs(jobs) = Pairs(jobs') \cup PairOf(m)
  BY RemoveAtCounts, WantedAreMessages DEF Ends, QueuesOK
<1>4. posted' = Append(posted, done)
  BY DEF Ends
<1>5. posted' \in Seq(Answered) /\ Len(posted') = Len(posted) + 1
  BY <1>2, <1>4, AppendProperties DEF QueuesOK
<1>6. posted \in Seq(Messages) /\ done \in Messages
  BY <1>2, WantedAreMessages, QueuesCount
<1>7. /\ RefreshesIn(posted') = RefreshesIn(posted) + One(m)
      /\ Pairs(posted') = Pairs(posted) \cup PairOf(m)
  BY <1>2, <1>4, <1>6, AppendCounts
<1>8. QueuesOK'
  BY <1>3, <1>5 DEF QueuesOK
<1>9. Checks' = RefreshesIn(jobs') + RefreshesIn(posted') /\ Asks' = Pairs(jobs') \cup Pairs(posted')
  BY DEF Checks, Asks, RefreshesIn, Pairs
<1>10. /\ RefreshesIn(jobs) \in Nat /\ RefreshesIn(posted) \in Nat
       /\ RefreshesIn(jobs') \in Nat /\ One(m) \in Nat
  BY <1>8, QueuesCount, QueuesCountAfter DEF RefreshesIn, One
<1> QED
  BY <1>3, <1>5, <1>7, <1>8, <1>9, <1>10 DEF Checks, Asks

\* A continuation that is not out of date is one of the answers still asked for.
LEMMA FirstIsAsked ==
    ASSUME QueuesOK, posted # << >>
    PROVE  /\ posted[1] \in Answered
           /\ posted[1].fresh => <<posted[1].kind, posted[1].from>> \in Asks
<1>1. /\ posted[1] \in Answered
      /\ Pairs(posted) = Pairs(Tail(posted)) \cup PairOf(posted[1])
  BY WantedAreMessages, TailCounts DEF QueuesOK
<1> QED
  BY <1>1 DEF PairOf, Asks

-----------------------------------------------------------------------------
(* What the handlers are made of.                                          *)

\* A handler's part that leaves no one waiting: members that fit each other, on a
\* screen that waits for nothing, with the flags of before.
Calm(c, d) ==
    /\ d \in Members /\ Matches(d)
    /\ d.screen \notin {"Loading", "BrowserWait"}
    /\ d.refreshes = c.refreshes /\ d.pending = c.pending

LEMMA ScreenForIsCalm ==
    ASSUME NEW c
    PROVE  /\ ScreenFor(c) \in {"Trial", "Details", "NotCovered", "Welcome"}
           /\ ScreenFor(c) = "NotCovered" => c.notCovered # NoLicense
BY DEF ScreenFor

LEMMA ApplyLicenseIsCalm ==
    ASSUME NEW c \in Members, c.polling = c.pending, NEW copy \in Copies \cup {NoLicense}
    PROVE  /\ Calm(c, ApplyLicense(c, copy))
           /\ Held(ApplyLicense(c, copy)) = copy
           /\ ApplyLicense(c, copy).license = copy
<1> DEFINE e == SetLicense(c, copy)
           d == [e EXCEPT !.expiredTrial = NoLicense, !.notCovered = NoLicense]
           s == ScreenFor(d)
<1>1. /\ e \in Members /\ e.license = copy /\ e.screen = c.screen
      /\ e.refreshes = c.refreshes /\ e.pending = c.pending /\ e.polling = c.polling
      /\ copy # NoLicense => e.lockReason = "None"
  <2>1. CASE copy = NoLicense
    BY <2>1 DEF SetLicense, Members
  <2>2. CASE copy # NoLicense
    BY <2>2 DEF SetLicense, Members, Reasons
  <2> QED
    BY <2>1, <2>2
<1> HIDE DEF e
<1>2. /\ d \in Members /\ d.license = copy /\ d.screen = c.screen /\ d.notCovered = NoLicense
      /\ d.refreshes = c.refreshes /\ d.pending = c.pending /\ d.polling = c.polling
      /\ copy # NoLicense => d.lockReason = "None"
  BY <1>1 DEF Members
<1> HIDE DEF d
<1>3. s \in {"Trial", "Details", "Welcome"}
  BY <1>2, ScreenForIsCalm
<1> HIDE DEF s
<1>4. \/ c.screen = "AddOns" /\ ApplyLicense(c, copy) = d
      \/ ApplyLicense(c, copy) = [d EXCEPT !.screen = s]
  BY DEF ApplyLicense, Show, s, d, e
<1>5. CASE c.screen = "AddOns" /\ ApplyLicense(c, copy) = d
  BY <1>2, <1>5 DEF Calm, Matches, Held
<1>6. CASE ApplyLicense(c, copy) = [d EXCEPT !.screen = s]
  <2> DEFINE r == [d EXCEPT !.screen = s]
  <2>1. /\ r \in Members /\ r.license = copy /\ r.notCovered = NoLicense /\ r.screen = s
        /\ r.refreshes = c.refreshes /\ r.pending = c.pending /\ r.polling = c.polling
        /\ copy # NoLicense => r.lockReason = "None"
    BY <1>2, <1>3 DEF Members, Screens
  <2> HIDE DEF r
  <2>2. Calm(c, r) /\ Held(r) = copy
    BY <1>3, <2>1 DEF Calm, Matches, Held
  <2> QED
    BY <1>6, <2>1, <2>2 DEF r
<1> QED
  BY <1>4, <1>5, <1>6

LEMMA LockIsCalm ==
    ASSUME NEW c \in Members, c.polling = c.pending, NEW reason \in Reasons
    PROVE  /\ Calm(c, Lock(c, reason)) /\ Held(Lock(c, reason)) = NoLicense
<1> DEFINE d == [c EXCEPT !.lockReason = reason]
<1>1. /\ d \in Members /\ d.polling = d.pending
      /\ d.refreshes = c.refreshes /\ d.pending = c.pending
  BY DEF Members
<1> HIDE DEF d
<1>2. Lock(c, reason) = ApplyLicense(d, NoLicense)
  BY DEF Lock, d
<1>3. Calm(d, ApplyLicense(d, NoLicense)) /\ Held(ApplyLicense(d, NoLicense)) = NoLicense
  BY <1>1, ApplyLicenseIsCalm
<1> QED
  BY <1>1, <1>2, <1>3 DEF Calm

LEMMA ShowTrialExpiredIsCalm ==
    ASSUME NEW c \in Members, c.polling = c.pending, NEW copy \in Copies
    PROVE  /\ Calm(c, ShowTrialExpired(c, copy))
           /\ Held(ShowTrialExpired(c, copy)) = NoLicense
<1> DEFINE r == ShowTrialExpired(c, copy)
<1>1. /\ r \in Members /\ r.license = NoLicense /\ r.notCovered = NoLicense
      /\ r.screen = "Expired" /\ r.expiredTrial = copy
      /\ r.refreshes = c.refreshes /\ r.pending = c.pending /\ r.polling = c.polling
  BY DEF ShowTrialExpired, Members, Screens, Reasons
<1> HIDE DEF r
<1>2. Calm(c, r) /\ Held(r) = NoLicense
  BY <1>1, NoLicenseAssumption DEF Calm, Matches, Held
<1> QED
  BY <1>2 DEF r

LEMMA ShowNotCoveredIsCalm ==
    ASSUME NEW c \in Members, c.polling = c.pending, NEW copy \in Copies
    PROVE  /\ Calm(c, ShowNotCovered(c, copy))
           /\ Held(ShowNotCovered(c, copy)) = copy
<1> DEFINE r == ShowNotCovered(c, copy)
<1>1. /\ r \in Members /\ r.license = NoLicense /\ r.notCovered = copy
      /\ r.screen = "NotCovered"
      /\ r.refreshes = c.refreshes /\ r.pending = c.pending /\ r.polling = c.polling
  BY DEF ShowNotCovered, Members, Screens, Reasons
<1> HIDE DEF r
<1>2. Calm(c, r) /\ Held(r) = copy
  BY <1>1, NoLicenseAssumption DEF Calm, Matches, Held
<1> QED
  BY <1>2 DEF r

LEMMA ShowIsCalm ==
    ASSUME NEW c \in Members, Matches(c),
           NEW s \in Screens \ {"Loading", "BrowserWait", "Expired"},
           s = "NotCovered" => c.notCovered # NoLicense
    PROVE  Calm(c, Show(c, s)) /\ Held(Show(c, s)) = Held(c)
<1> DEFINE r == Show(c, s)
<1>1. /\ r \in Members /\ r.license = c.license /\ r.notCovered = c.notCovered
      /\ r.screen = s /\ r.lockReason = c.lockReason
      /\ r.refreshes = c.refreshes /\ r.pending = c.pending /\ r.polling = c.polling
  BY DEF Show, Members
<1> HIDE DEF r
<1>2. Calm(c, r) /\ Held(r) = Held(c)
  BY <1>1 DEF Calm, Matches, Held
<1> QED
  BY <1>2 DEF r

LEMMA EndingFlows ==
    ASSUME NEW c \in Members
    PROVE  /\ EndActivationFlows(c) \in Members
           /\ EndActivationFlows(c).pending = FALSE
           /\ EndActivationFlows(c).polling = FALSE
           /\ EndActivationFlows(c).refreshes = c.refreshes
BY DEF EndActivationFlows, Members, Screens

-----------------------------------------------------------------------------
(* The license watch: what its look at the file makes of the members.      *)

LEMMA FileRemovedGives ==
    ASSUME NEW c \in Members, Matches(c)
    PROVE  LET f == FileRemoved(c) IN
           /\ f.self \in Members /\ Matches(f.self) /\ f.self.refreshes = c.refreshes
           /\ f.moved => Calm(EndActivationFlows(c), f.self)
           /\ ~f.moved => /\ f.self.pending = c.pending /\ f.self.screen = c.screen
                          /\ Held(f.self) \in {NoLicense, Held(c)}
           /\ f.moved \in BOOLEAN
<1>1. CASE Held(c) = NoLicense
  BY <1>1 DEF FileRemoved, Stays
<1>2. CASE Held(c) # NoLicense /\ ActivationInFlight(c)
  <2> DEFINE n == IF c.license = NoLicense THEN NoLicense ELSE c.notCovered
             d == [c EXCEPT !.license = NoLicense, !.lockReason = "Deactivated",
                            !.notCovered = n]
  <2>1. n = NoLicense
    BY DEF Matches
  <2> HIDE DEF n
  <2>2. FileRemoved(c) = Stays(d)
    BY <1>2 DEF FileRemoved, n
  <2>3. /\ d \in Members /\ d.license = NoLicense /\ d.notCovered = NoLicense
        /\ d.screen = c.screen /\ d.expiredTrial = c.expiredTrial
        /\ d.refreshes = c.refreshes /\ d.pending = c.pending /\ d.polling = c.polling
    BY <2>1 DEF Members, Reasons
  <2> HIDE DEF d
  <2>4. c.screen # "NotCovered" \/ c.pending
    BY <1>2 DEF ActivationInFlight
  <2>5. Matches(d) /\ Held(d) = NoLicense
    BY <2>3, <2>4 DEF Matches, Held
  <2> QED
    BY <2>2, <2>3, <2>5 DEF Stays
<1>3. CASE Held(c) # NoLicense /\ ~ActivationInFlight(c)
  <2> DEFINE e == EndActivationFlows(c)
  <2>1. FileRemoved(c) = Moves(Lock(e, "Deactivated"))
    BY <1>3 DEF FileRemoved
  <2>2. e \in Members /\ e.pending = FALSE /\ e.polling = FALSE /\ e.refreshes = c.refreshes
    BY EndingFlows
  <2>3. Calm(e, Lock(e, "Deactivated"))
    BY <2>2, LockIsCalm DEF Reasons
  <2> QED
    BY <2>1, <2>2, <2>3 DEF Moves, Calm
<1> QED
  BY <1>1, <1>2, <1>3

LEMMA AdoptStoredGives ==
    ASSUME NEW c \in Members, Matches(c), NEW copy \in Copies
    PROVE  LET f == AdoptStored(c, copy) IN
           /\ f.self \in Members /\ Matches(f.self) /\ f.self.refreshes = c.refreshes
           /\ f.moved => Calm(EndActivationFlows(c), f.self)
           /\ ~f.moved => /\ f.self.pending = c.pending /\ f.self.screen = c.screen
                          /\ \/ Held(f.self) = Held(c)
                             \/ Held(c) # NoLicense /\ Held(f.self).act = Held(c).act
           /\ f.moved \in BOOLEAN
<1>1. CASE IsOlderThanHeld(c, copy)
  BY <1>1 DEF AdoptStored, Stays
<1>2. CASE ~IsOlderThanHeld(c, copy) /\ c.license # NoLicense /\ c.license.act = copy.act
  <2> DEFINE d == SetLicense(c, copy)
  <2>1. AdoptStored(c, copy) = Stays(d)
    BY <1>2 DEF AdoptStored
  <2>2. /\ d \in Members /\ d.license = copy /\ d.notCovered = NoLicense
        /\ d.lockReason = "None" /\ d.screen = c.screen /\ d.expiredTrial = c.expiredTrial
        /\ d.refreshes = c.refreshes /\ d.pending = c.pending /\ d.polling = c.polling
    BY NoLicenseAssumption DEF SetLicense, Members, Reasons
  <2> HIDE DEF d
  <2>3. Matches(d) /\ Held(d) = copy /\ Held(c) = c.license
    BY <1>2, <2>2, NoLicenseAssumption DEF Matches, Held
  <2> QED
    BY <1>2, <2>1, <2>2, <2>3 DEF Stays
<1>3. CASE /\ ~IsOlderThanHeld(c, copy)
           /\ ~(c.license # NoLicense /\ c.license.act = copy.act)
  <2> DEFINE e == EndActivationFlows(c)
  <2>1. AdoptStored(c, copy) = Moves(ApplyLicense(e, copy))
    BY <1>3 DEF AdoptStored
  <2>2. e \in Members /\ e.pending = FALSE /\ e.polling = FALSE /\ e.refreshes = c.refreshes
    BY EndingFlows
  <2>3. Calm(e, ApplyLicense(e, copy))
    BY <2>2, ApplyLicenseIsCalm
  <2> QED
    BY <2>1, <2>2, <2>3 DEF Moves, Calm
<1> QED
  BY <1>1, <1>2, <1>3

LEMMA AdoptNotCoveredGives ==
    ASSUME NEW c \in Members, Matches(c), NEW copy \in Copies
    PROVE  LET f == AdoptNotCovered(c, copy) IN
           /\ f.self \in Members /\ Matches(f.self) /\ f.self.refreshes = c.refreshes
           /\ f.moved => Calm(EndActivationFlows(c), f.self)
           /\ ~f.moved => /\ f.self.pending = c.pending
                          /\ f.self.screen \in {c.screen, "NotCovered"}
                          /\ \/ Held(f.self) = Held(c)
                             \/ Held(c) # NoLicense /\ Held(f.self).act = Held(c).act
           /\ f.moved \in BOOLEAN
<1>1. CASE IsOlderThanHeld(c, copy) \/ ActivationInFlight(c)
  BY <1>1 DEF AdoptNotCovered, Stays
<1>2. CASE /\ ~(IsOlderThanHeld(c, copy) \/ ActivationInFlight(c))
           /\ Held(c) # NoLicense /\ Held(c).act = copy.act
  <2>1. AdoptNotCovered(c, copy) = Stays(ShowNotCovered(c, copy))
    BY <1>2 DEF AdoptNotCovered
  <2>2. /\ Calm(c, ShowNotCovered(c, copy)) /\ Held(ShowNotCovered(c, copy)) = copy
        /\ ShowNotCovered(c, copy).screen = "NotCovered"
    BY ShowNotCoveredIsCalm DEF Matches, ShowNotCovered, Members
  <2> QED
    BY <1>2, <2>1, <2>2 DEF Stays, Calm
<1>3. CASE /\ ~(IsOlderThanHeld(c, copy) \/ ActivationInFlight(c))
           /\ ~(Held(c) # NoLicense /\ Held(c).act = copy.act)
  <2> DEFINE e == EndActivationFlows(c)
  <2>1. AdoptNotCovered(c, copy) = Moves(ShowNotCovered(e, copy))
    BY <1>3 DEF AdoptNotCovered
  <2>2. e \in Members /\ e.pending = FALSE /\ e.polling = FALSE /\ e.refreshes = c.refreshes
    BY EndingFlows
  <2>3. Calm(e, ShowNotCovered(e, copy))
    BY <2>2, ShowNotCoveredIsCalm
  <2> QED
    BY <2>1, <2>2, <2>3 DEF Moves, Calm
<1> QED
  BY <1>1, <1>2, <1>3

\* Either the generation moves and the activation's flows have ended, or the flows
\* go on and no other activation than the one held comes to be held.
LEMMA CheckFileGives ==
    ASSUME NEW c \in Members, Matches(c), disk \in Copies \cup {NoLicense}
    PROVE  LET f == CheckFile(c) IN
           /\ f.self \in Members /\ Matches(f.self) /\ f.self.refreshes = c.refreshes
           /\ f.moved => /\ ~f.self.pending
                         /\ f.self.screen \notin {"Loading", "BrowserWait"}
           /\ ~f.moved => /\ f.self.pending = c.pending
                          /\ f.self.screen \in {c.screen, "NotCovered"}
                          /\ \/ Held(f.self) \in {NoLicense, Held(c)}
                             \/ Held(c) # NoLicense /\ Held(f.self).act = Held(c).act
           /\ f.moved \in BOOLEAN
<1>1. EndActivationFlows(c).pending = FALSE
  BY EndingFlows
<1>2. CASE CheckFile(c) = Stays(c)
  BY <1>2 DEF Stays
<1>3. CASE CheckFile(c) = FileRemoved(c)
  BY <1>1, <1>3, FileRemovedGives DEF Calm
<1>4. CASE disk \in Copies /\ CheckFile(c) = AdoptStored(c, disk)
  BY <1>1, <1>4, AdoptStoredGives DEF Calm
<1>5. CASE disk \in Copies /\ CheckFile(c) = AdoptNotCovered(c, disk)
  BY <1>1, <1>5, AdoptNotCoveredGives DEF Calm
<1>6. \/ CheckFile(c) = Stays(c)
      \/ CheckFile(c) = FileRemoved(c)
      \/ disk # NoLicense /\ CheckFile(c) = AdoptStored(c, disk)
      \/ disk # NoLicense /\ CheckFile(c) = AdoptNotCovered(c, disk)
  BY DEF CheckFile
<1> QED
  BY <1>2, <1>3, <1>4, <1>5, <1>6

-----------------------------------------------------------------------------
(* The invariant, action by action.                                        *)

LEMMA ControllerInitially == Init => IInv
<1> SUFFICES ASSUME Init PROVE IInv
  OBVIOUS
<1>1. jobs \in Seq(Wanted) /\ posted \in Seq(Answered)
  BY EmptySeq DEF Init
<1>2. Asks = {} /\ Checks = 0
  BY NothingCounts DEF Init, Asks, Checks
<1>3. self \in Members /\ self.screen = "Loading" /\ self.license = NoLicense
      /\ self.refreshes = 0 /\ self.polling = self.pending
  BY DEF Init, Members, Screens, Reasons
<1>4. disk \in Copies \cup {NoLicense}
  BY DEF Init, Copies
<1>5. FileOK
  BY <1>4 DEF Init, FileOK
<1> QED
  BY <1>1, <1>2, <1>3, <1>5
     DEF IInv, QueuesOK, Matches, OneLead, AboutTheHeld, BrowserWaits

\* A generation that moves on leaves at most the new job to wait for.
LEMMA MovedOn ==
    ASSUME NEW k \in JobKinds, NEW f \in Copies \cup {NoLicense}, Asks' \subseteq {<<k, f>>},
           k \in {"refresh", "deactivate"} /\ Held(self)' # NoLicense
             => Held(self)'.act = f.act
    PROVE  OneLead' /\ AboutTheHeld'
<1>1. OneLead'
  BY DEF OneLead
<1>2. \A p \in Asks' : p[1] = k /\ p[2] = f
  OBVIOUS
<1>3. AboutTheHeld'
  BY <1>2 DEF AboutTheHeld
<1> QED
  BY <1>1, <1>3

LEMMA NothingAsked == Asks' = {} => OneLead' /\ AboutTheHeld'
BY DEF OneLead, AboutTheHeld

\* Fewer answers asked for, with the activation held or with none.
LEMMA FewerAsked ==
    ASSUME OneLead, AboutTheHeld,
           \A p \in Asks' : p \in Asks \/ p[1] \in {"poll", "discard"},
           \/ Held(self)' = NoLicense
           \/ Held(self)' = Held(self)
           \/ Held(self) # NoLicense /\ Held(self)'.act = Held(self).act
    PROVE  OneLead' /\ AboutTheHeld'
<1>1. OneLead'
  BY DEF OneLead, Leads
<1>2. AboutTheHeld'
  BY DEF AboutTheHeld
<1> QED
  BY <1>1, <1>2

\* The answer of the lead is taken: no other waits beside it.
LEMMA LeadAnswered ==
    ASSUME OneLead, NEW k \in Leads, NEW f, <<k, f>> \in Asks,
           \A p \in Asks' : p \in Asks \/ p[1] \in {"poll", "discard"},
           k \in {"refresh", "deactivate"} /\ Held(self)' # NoLicense
             => Held(self)'.act = f.act
    PROVE  OneLead' /\ AboutTheHeld'
<1>1. \A p \in Asks' : p[1] \in Leads => p = <<k, f>>
  <2>1. ASSUME NEW p \in Asks', p[1] \in Leads PROVE p = <<k, f>>
    <3>1. p \in Asks
      BY <2>1 DEF Leads
    <3>2. <<k, f>>[1] = k
      OBVIOUS
    <3> QED
      BY <2>1, <3>1, <3>2 DEF OneLead
  <2> QED
    BY <2>1
<1>2. OneLead'
  BY <1>1 DEF OneLead
<1>3. AboutTheHeld'
  BY <1>1 DEF AboutTheHeld, Leads
<1> QED
  BY <1>2, <1>3

\* What is left to show of a step: the queues and the file are what they should be,
\* the members fit each other and count the checks, and a browser is waited for
\* only while something is under way.
LEMMA StepKeepsFile ==
    ASSUME FileOK, UNCHANGED <<file, watch, elsewhere, issued, time>>
    PROVE  FileOK'
BY DEF FileOK, file, watch, time

LEMMA StoreKeepsFile ==
    ASSUME FileOK, NEW copy \in Copies \cup {NoLicense}, Stored(copy)
    PROVE  disk' \in Copies \cup {NoLicense} /\ changed' \in BOOLEAN
BY DEF Stored, FileOK

LEMMA HeldIsACopy ==
    ASSUME self \in Members, Held(self) # NoLicense
    PROVE  Held(self) \in Copies
BY DEF Held, Members

LEMMA NewIsACopy ==
    ASSUME FileOK, NEW a \in Activations, NEW covers \in BOOLEAN
    PROVE  New(a, covers) \in Copies /\ New(a, covers).act = a /\ issued + 1 \in Nat
BY DEF New, Copies, FileOK

LEMMA StartStep == IInv /\ Start => IInv'
<1> SUFFICES ASSUME IInv, Start PROVE IInv'
  OBVIOUS
<1> DEFINE m == Job("start", NoLicense, FALSE)
<1>1. m \in Wanted /\ One(m) = 0 /\ PairOf(m) = {<<"start", NoLicense>>}
  BY JobIsWanted DEF JobKinds
<1>2. QueuesOK' /\ Checks' = Checks + 0 /\ Asks' = {<<"start", NoLicense>>}
  BY <1>1, MovesMore DEF Start, IInv
<1>3. /\ self' \in Members /\ self'.screen = "Loading" /\ self'.lockReason = "None"
      /\ self'.license = self.license /\ self'.notCovered = self.notCovered
      /\ self'.polling = self.polling /\ self'.pending = self.pending
      /\ self'.refreshes = self.refreshes
  BY DEF Start, IInv, Members, Screens, Reasons
<1>4. Matches(self')
  BY <1>3 DEF IInv, Matches
<1>5. OneLead' /\ AboutTheHeld'
  BY <1>2, MovedOn DEF JobKinds
<1>6. FileOK'
  BY DEF Start, IInv, FileOK, time
<1>7. self'.refreshes = Checks'
  BY <1>2, <1>3, QueuesCount DEF IInv
<1> QED
  BY <1>2, <1>3, <1>4, <1>5, <1>6, <1>7 DEF IInv, BrowserWaits

LEMMA ActivateStep == IInv /\ Activate => IInv'
<1> SUFFICES ASSUME IInv, Activate PROVE IInv'
  OBVIOUS
<1> DEFINE m == Job("request", NoLicense, FALSE)
<1>1. m \in Wanted /\ One(m) = 0 /\ PairOf(m) = {<<"request", NoLicense>>}
  BY JobIsWanted DEF JobKinds
<1>2. QueuesOK' /\ Checks' = Checks + 0 /\ Asks' = {<<"request", NoLicense>>}
  BY <1>1, MovesMore DEF Activate, IInv
<1>3. /\ self' \in Members /\ self'.screen = "BrowserWait" /\ self'.lockReason = self.lockReason
      /\ self'.license = self.license /\ self'.notCovered = self.notCovered
      /\ self'.polling = self.polling /\ self'.pending = self.pending
      /\ self'.refreshes = self.refreshes
  BY DEF Activate, Show, IInv, Members, Screens
<1>4. Matches(self')
  BY <1>3 DEF IInv, Matches
<1>5. OneLead' /\ AboutTheHeld'
  BY <1>2, MovedOn DEF JobKinds
<1>6. FileOK'
  BY StepKeepsFile DEF Activate, IInv
<1>7. self'.refreshes = Checks'
  BY <1>2, <1>3, QueuesCount DEF IInv
<1>8. AsksFor("request")'
  BY <1>2 DEF AsksFor
<1> QED
  BY <1>2, <1>3, <1>4, <1>5, <1>6, <1>7, <1>8 DEF IInv, BrowserWaits

LEMMA CancelStep == IInv /\ Cancel => IInv'
<1> SUFFICES ASSUME IInv, Cancel PROVE IInv'
  OBVIOUS
<1> DEFINE c == [self EXCEPT !.polling = FALSE, !.pending = FALSE, !.pollInFlight = FALSE]
           s == IF c.notCovered # NoLicense /\ c.license = NoLicense
                  THEN "NotCovered" ELSE "Welcome"
<1>1. /\ c \in Members /\ c.polling = c.pending /\ c.license = self.license
      /\ c.notCovered = self.notCovered /\ c.lockReason = self.lockReason
      /\ c.refreshes = self.refreshes /\ c.screen = self.screen
      /\ self.screen = "BrowserWait"
  BY DEF IInv, Cancel, Members
<1>2. self' = Show(c, s)
  BY DEF Cancel
<1> HIDE DEF c
<1>3. Matches(c)
  BY <1>1 DEF IInv, Matches
<1>4. Calm(c, self')
  BY <1>1, <1>2, <1>3, ShowIsCalm DEF Screens
<1>5. QueuesOK' /\ Checks' = Checks /\ Asks' = {}
  BY MovesAll DEF IInv, Cancel
<1>6. FileOK'
  BY StepKeepsFile DEF IInv, Cancel
<1> QED
  BY <1>1, <1>4, <1>5, <1>6, NothingAsked DEF IInv, Calm, BrowserWaits

LEMMA RefreshStep == ASSUME NEW force \in BOOLEAN PROVE IInv /\ Refresh(force) => IInv'
<1> SUFFICES ASSUME IInv, Refresh(force) PROVE IInv'
  OBVIOUS
<1> DEFINE m == Job("refresh", Held(self), force)
<1>1. Held(self) \in Copies
  BY HeldIsACopy DEF IInv, Refresh, MayRefresh
<1>2. m \in Wanted /\ One(m) = 1 /\ PairOf(m) = {<<"refresh", Held(self)>>}
  BY <1>1, JobIsWanted DEF JobKinds
<1>3. QueuesOK' /\ Checks' = Checks + 1 /\ Asks' = {<<"refresh", Held(self)>>}
  BY <1>2, MovesMore DEF Refresh, IInv
<1>4. self.refreshes \in Nat /\ self' = [self EXCEPT !.refreshes = self.refreshes + 1]
  BY DEF IInv, Refresh, Refreshing, Members
<1>5. /\ self' \in Members /\ self'.screen = self.screen /\ self'.lockReason = self.lockReason
      /\ self'.license = self.license /\ self'.notCovered = self.notCovered
      /\ self'.polling = self.polling /\ self'.pending = self.pending
      /\ self'.expiredTrial = self.expiredTrial
      /\ self'.refreshes = self.refreshes + 1
  BY <1>4 DEF IInv, Members
<1>6. Matches(self') /\ Held(self)' = Held(self)
  BY <1>5 DEF IInv, Matches, Held
<1>7. OneLead' /\ AboutTheHeld'
  BY <1>1, <1>3, <1>6, MovedOn DEF JobKinds
<1>8. FileOK'
  BY StepKeepsFile DEF Refresh, IInv
<1>9. self'.refreshes = Checks' /\ self.screen # "BrowserWait"
  BY <1>3, <1>5 DEF IInv, Refresh, MayRefresh, ActivationInFlight
<1> QED
  BY <1>3, <1>5, <1>6, <1>7, <1>8, <1>9 DEF IInv, BrowserWaits

LEMMA ClearLicenseStep == IInv /\ ClearLicense => IInv'
<1> SUFFICES ASSUME IInv, ClearLicense PROVE IInv'
  OBVIOUS
<1>1. QueuesOK' /\ Checks' = Checks /\ Asks' = {}
  BY MovesAll DEF IInv, ClearLicense
<1>2. Calm(self, self')
  BY LockIsCalm DEF IInv, ClearLicense, Matches, Reasons
<1>3. FileOK'
  BY StoreKeepsFile DEF IInv, ClearLicense, FileOK, watch, time
<1> QED
  BY <1>1, <1>2, <1>3, NothingAsked DEF IInv, Calm, BrowserWaits

LEMMA DeactivateStep == IInv /\ Deactivate => IInv'
<1> SUFFICES ASSUME IInv, Deactivate PROVE IInv'
  OBVIOUS
<1> DEFINE m == Job("deactivate", Held(self), FALSE)
<1>1. Held(self) \in Copies
  BY HeldIsACopy DEF IInv, Deactivate
<1>2. m \in Wanted /\ One(m) = 0 /\ PairOf(m) = {<<"deactivate", Held(self)>>}
  BY <1>1, JobIsWanted DEF JobKinds
<1>3. QueuesOK' /\ Checks' = Checks + 0 /\ Asks' = {<<"deactivate", Held(self)>>}
  BY <1>2, MovesMore DEF Deactivate, IInv
<1>4. /\ self' \in Members /\ self'.screen = self.screen /\ self'.lockReason = self.lockReason
      /\ self'.license = self.license /\ self'.notCovered = self.notCovered
      /\ self'.polling = self.polling /\ self'.pending = self.pending
      /\ self'.expiredTrial = self.expiredTrial
      /\ self'.refreshes = self.refreshes
  BY DEF Deactivate, IInv, Members
<1>5. Matches(self') /\ Held(self)' = Held(self)
  BY <1>4 DEF IInv, Matches, Held
<1>6. OneLead' /\ AboutTheHeld'
  BY <1>1, <1>3, <1>5, MovedOn DEF JobKinds
<1>7. FileOK'
  BY StepKeepsFile DEF Deactivate, IInv
<1>8. self'.refreshes = Checks'
  BY <1>3, <1>4, QueuesCount DEF IInv
<1>9. AsksFor("deactivate")'
  BY <1>3 DEF AsksFor
<1> QED
  BY <1>3, <1>4, <1>5, <1>6, <1>7, <1>8, <1>9 DEF IInv, BrowserWaits

\* A step of the screens alone, to one that waits for nothing.
LEMMA ScreenStep ==
    ASSUME IInv, NEW s \in Screens \ {"Loading", "BrowserWait", "Expired"},
           s = "NotCovered" => self.notCovered # NoLicense,
           self' = Show(self, s),
           UNCHANGED <<file, watch, elsewhere, issued, time>>,
           QueuesOK', Checks' = Checks, Asks' \in {{}, Asks}
    PROVE  IInv'
<1>1. Calm(self, self') /\ Held(self)' = Held(self)
  BY ShowIsCalm DEF IInv, Held
<1>2. FileOK'
  BY StepKeepsFile DEF IInv
<1>3. OneLead' /\ AboutTheHeld'
  BY <1>1, FewerAsked DEF IInv
<1> QED
  BY <1>1, <1>2, <1>3 DEF IInv, Calm, BrowserWaits

LEMMA DeactivateNothingStep == IInv /\ DeactivateNothing => IInv'
<1> SUFFICES ASSUME IInv, DeactivateNothing PROVE IInv'
  OBVIOUS
<1>1. QueuesOK' /\ Checks' = Checks /\ Asks' = Asks
  BY SameQueues DEF IInv, DeactivateNothing
<1> QED
  BY <1>1, ScreenStep DEF DeactivateNothing, Screens

LEMMA ActivateOfflineStep == IInv /\ ActivateOffline => IInv'
<1> SUFFICES ASSUME IInv, ActivateOffline PROVE IInv'
  OBVIOUS
<1>1. CASE /\ self' = Show(self, "Offline")
           /\ UNCHANGED messages \/ Moving(<< >>, posted)
           /\ UNCHANGED <<file, issued>>
  <2>1. QueuesOK' /\ Checks' = Checks /\ Asks' \in {{}, Asks}
    BY <1>1, SameQueues, MovesAll DEF IInv
  <2> QED
    BY <1>1, <2>1, ScreenStep DEF ActivateOffline, Screens
<1>2. ASSUME NEW a \in Activations, NEW covers \in BOOLEAN,
             issued' = issued + 1, Stored(New(a, covers)),
             self' = IF covers THEN Show(SetLicense(self, New(a, covers)), "Success")
                     ELSE ShowNotCovered(self, New(a, covers)),
             Moving(<< >>, posted)
      PROVE  IInv'
  <2> DEFINE copy == New(a, covers)
  <2>1. copy \in Copies /\ issued' \in Nat
    BY <1>2, NewIsACopy DEF IInv
  <2> HIDE DEF copy
  <2>2. QueuesOK' /\ Checks' = Checks /\ Asks' = {}
    BY <1>2, MovesAll DEF IInv
  <2>3. FileOK'
    BY <1>2, <2>1, StoreKeepsFile DEF IInv, ActivateOffline, FileOK, watch, time, copy
  <2>4. Calm(self, self')
    <3>1. CASE covers
      <4>1. self' = Show(SetLicense(self, copy), "Success")
        BY <1>2, <3>1 DEF copy
      <4>2. /\ self' \in Members /\ self'.screen = "Success" /\ self'.lockReason = "None"
            /\ self'.notCovered = NoLicense
            /\ self'.polling = self.polling /\ self'.pending = self.pending
            /\ self'.refreshes = self.refreshes
        BY <2>1, <4>1, NoLicenseAssumption
           DEF IInv, Members, Show, SetLicense, Screens, Reasons
      <4> QED
        BY <4>2 DEF IInv, Calm, Matches
    <3>2. CASE ~covers
      <4>1. self' = ShowNotCovered(self, copy)
        BY <1>2, <3>2 DEF copy
      <4> QED
        BY <2>1, <4>1, ShowNotCoveredIsCalm DEF IInv, Matches
    <3> QED
      BY <3>1, <3>2
  <2> QED
    BY <2>2, <2>3, <2>4, NothingAsked DEF IInv, Calm, BrowserWaits
<1> QED
  BY <1>1, <1>2 DEF ActivateOffline

LEMMA NavigateStep == IInv /\ Navigate => IInv'
<1> SUFFICES ASSUME IInv, Navigate PROVE IInv'
  OBVIOUS
<1>1. QueuesOK' /\ Checks' = Checks /\ Asks' = Asks
  BY SameQueues DEF IInv, Navigate
<1>2. \/ self' = Show(self, "Offline") \/ self' = Show(self, "Welcome")
      \/ self' = Show(self, "AddOns") \/ self' = Show(self, ScreenFor(self))
  BY DEF Navigate
<1>3. /\ ScreenFor(self) \in {"Trial", "Details", "NotCovered", "Welcome"}
      /\ ScreenFor(self) = "NotCovered" => self.notCovered # NoLicense
  BY ScreenForIsCalm
<1> QED
  BY <1>1, <1>2, <1>3, ScreenStep DEF Navigate, Screens

LEMMA PollTickStep == IInv /\ PollTick => IInv'
<1> SUFFICES ASSUME IInv, PollTick PROVE IInv'
  OBVIOUS
<1> DEFINE m == Job("poll", NoLicense, FALSE)
<1>1. m \in Wanted /\ One(m) = 0 /\ PairOf(m) = {<<"poll", NoLicense>>}
  BY JobIsWanted DEF JobKinds
<1>2. QueuesOK' /\ Checks' = Checks + 0 /\ Asks' = Asks \cup {<<"poll", NoLicense>>}
  BY <1>1, KeepsMore DEF PollTick, IInv
<1>3. /\ self' \in Members /\ self'.screen = self.screen /\ self'.lockReason = self.lockReason
      /\ self'.license = self.license /\ self'.notCovered = self.notCovered
      /\ self'.polling = self.polling /\ self'.pending = self.pending
      /\ self'.expiredTrial = self.expiredTrial
      /\ self'.refreshes = self.refreshes
  BY DEF PollTick, IInv, Members
<1>4. Matches(self') /\ Held(self)' = Held(self)
  BY <1>3 DEF IInv, Matches, Held
<1>5. OneLead' /\ AboutTheHeld'
  BY <1>2, <1>4, FewerAsked DEF IInv
<1>6. FileOK'
  BY StepKeepsFile DEF PollTick, IInv
<1>7. self'.refreshes = Checks' /\ self'.pending
  BY <1>2, <1>3, QueuesCount DEF IInv, PollTick
<1> QED
  BY <1>2, <1>3, <1>4, <1>5, <1>6, <1>7 DEF IInv, BrowserWaits

LEMMA WatchLicenseStep == IInv /\ WatchLicense => IInv'
<1> SUFFICES ASSUME IInv, WatchLicense PROVE IInv'
  OBVIOUS
<1> DEFINE f == CheckFile(self)
           c == f.self
           carry(new) == IF f.moved THEN Moving(new, posted) ELSE Keeping(new, posted)
           why == IF Ended(c.license) THEN "Expired" ELSE "Unverified"
           lapse(force) == /\ self' = Refreshing(c)
                           /\ Moving(<<Job("refresh", Held(c), force)>>, posted)
<1>1. /\ c \in Members /\ Matches(c) /\ c.refreshes = self.refreshes
      /\ f.moved => ~c.pending /\ c.screen \notin {"Loading", "BrowserWait"}
      /\ ~f.moved => /\ c.pending = self.pending
                     /\ c.screen \in {self.screen, "NotCovered"}
                     /\ \/ Held(c) \in {NoLicense, Held(self)}
                        \/ Held(self) # NoLicense /\ Held(c).act = Held(self).act
      /\ f.moved \in BOOLEAN
  BY CheckFileGives DEF IInv, FileOK
<1>2. self.screen # "Loading"
  BY DEF WatchLicense
<1>3. \/ /\ self' = c /\ carry(<< >>) /\ UNCHANGED disk
      \/ /\ c.license # NoLicense /\ ActivationInFlight(c)
         /\ self' = [c EXCEPT !.license = NoLicense, !.lockReason = why,
                              !.expiredTrial = IF Kind(c.license) = "trial"
                                                 THEN c.license ELSE @]
         /\ carry(<< >>) /\ UNCHANGED disk
      \/ self' = Lock(c, "Expired") /\ Moving(<< >>, posted) /\ disk' = NoLicense
      \/ /\ c.license # NoLicense /\ ~ActivationInFlight(c)
         /\ \E force \in BOOLEAN : lapse(force)
         /\ UNCHANGED disk
  BY DEF WatchLicense, CheckDeadlines, RanOut
<1> HIDE DEF f, c
<1>4. ASSUME carry(<< >>) PROVE QueuesOK' /\ Checks' = Checks /\ Asks' = IF f.moved THEN {} ELSE Asks
  <2>1. CASE f.moved
    BY <1>4, <2>1, MovesAll DEF IInv
  <2>2. CASE ~f.moved
    BY <1>4, <2>2, KeepsAll DEF IInv
  <2> QED
    BY <2>1, <2>2
<1>5. FileOK'
  BY <1>3 DEF IInv, FileOK, WatchLicense, time
<1>6. ASSUME carry(<< >>), self' \in Members, Matches(self'),
             self'.refreshes = c.refreshes, self'.pending = c.pending,
             self'.screen = c.screen, Held(self)' \in {NoLicense, Held(c)}
      PROVE  IInv'
  <2>1. QueuesOK' /\ self'.refreshes = Checks'
    BY <1>1, <1>4, <1>6 DEF IInv
  <2>2. CASE f.moved
    <3>1. Asks' = {} /\ self'.screen # "BrowserWait"
      BY <1>1, <1>4, <1>6, <2>2
    <3> QED
      BY <1>5, <1>6, <2>1, <3>1, NothingAsked DEF IInv, BrowserWaits
  <2>3. CASE ~f.moved
    <3>1. Asks' = Asks
      BY <1>4, <1>6, <2>3
    <3>2. \/ Held(self)' = NoLicense \/ Held(self)' = Held(self)
          \/ Held(self) # NoLicense /\ Held(self)'.act = Held(self).act
      BY <1>1, <1>6, <2>3
    <3>3. OneLead' /\ AboutTheHeld'
      BY <3>1, <3>2, FewerAsked DEF IInv
    <3>4. BrowserWaits'
      BY <1>1, <1>6, <2>3, <3>1 DEF IInv, BrowserWaits, AsksFor
    <3> QED
      BY <1>5, <1>6, <2>1, <3>3, <3>4 DEF IInv
  <2> QED
    BY <2>2, <2>3
<1>7. CASE self' = c /\ carry(<< >>)
  BY <1>1, <1>6, <1>7 DEF Held
<1>8. CASE /\ c.license # NoLicense /\ ActivationInFlight(c)
           /\ self' = [c EXCEPT !.license = NoLicense, !.lockReason = why,
                                !.expiredTrial = IF Kind(c.license) = "trial"
                                                   THEN c.license ELSE @]
           /\ carry(<< >>)
  <2> HIDE DEF why
  <2>1. why \in Reasons
    BY DEF why, Reasons
  <2>2. c.notCovered = NoLicense /\ c.screen # "Expired"
    BY <1>1, <1>8 DEF Matches
  <2> DEFINE gone == IF Kind(c.license) = "trial" THEN c.license ELSE c.expiredTrial
  <2>3. gone \in Copies \cup {NoLicense}
    BY <1>1 DEF Members
  <2> HIDE DEF gone
  <2>4. self' = [c EXCEPT !.license = NoLicense, !.lockReason = why, !.expiredTrial = gone]
    BY <1>8 DEF gone
  <2>5. /\ self' \in Members /\ self'.screen = c.screen
        /\ self'.license = NoLicense /\ self'.notCovered = NoLicense
        /\ self'.polling = c.polling /\ self'.pending = c.pending
        /\ self'.refreshes = c.refreshes
    BY <1>1, <2>1, <2>2, <2>3, <2>4 DEF Members
  <2>6. Matches(self') /\ Held(self)' = NoLicense
    BY <1>1, <2>2, <2>5 DEF Matches, Held
  <2> QED
    BY <1>6, <1>8, <2>5, <2>6
<1>9. CASE self' = Lock(c, "Expired") /\ Moving(<< >>, posted)
  <2>1. Calm(c, self')
    BY <1>1, <1>9, LockIsCalm DEF Matches, Reasons
  <2>2. QueuesOK' /\ Checks' = Checks /\ Asks' = {}
    BY <1>9, MovesAll DEF IInv
  <2> QED
    BY <1>1, <1>5, <2>1, <2>2, NothingAsked DEF IInv, Calm, BrowserWaits
<1>10. ASSUME NEW force \in BOOLEAN, c.license # NoLicense, ~ActivationInFlight(c), lapse(force)
       PROVE  IInv'
  <2> DEFINE m == Job("refresh", Held(c), force)
  <2>1. Held(c) \in Copies
    BY <1>1, <1>10 DEF Held, Members
  <2>2. m \in Wanted /\ One(m) = 1 /\ PairOf(m) = {<<"refresh", Held(c)>>}
    BY <2>1, JobIsWanted DEF JobKinds
  <2>3. QueuesOK' /\ Checks' = Checks + 1 /\ Asks' = {<<"refresh", Held(c)>>}
    BY <1>10, <2>2, MovesMore DEF IInv
  <2>4. c.refreshes \in Nat /\ self' = [c EXCEPT !.refreshes = c.refreshes + 1]
    BY <1>1, <1>10 DEF Refreshing, Members
  <2>5. /\ self' \in Members /\ self'.screen = c.screen /\ self'.lockReason = c.lockReason
        /\ self'.license = c.license /\ self'.notCovered = c.notCovered
        /\ self'.polling = c.polling /\ self'.pending = c.pending
        /\ self'.expiredTrial = c.expiredTrial
        /\ self'.refreshes = c.refreshes + 1
    BY <1>1, <2>4 DEF Members
  <2>6. Matches(self') /\ Held(self)' = Held(c)
    BY <1>1, <2>5 DEF Matches, Held
  <2>7. OneLead' /\ AboutTheHeld'
    BY <2>1, <2>3, <2>6, MovedOn DEF JobKinds
  <2>8. self'.refreshes = Checks' /\ self'.screen # "BrowserWait"
    BY <1>1, <1>10, <2>3, <2>5 DEF IInv, ActivationInFlight
  <2> QED
    BY <1>5, <2>3, <2>5, <2>6, <2>7, <2>8 DEF IInv, BrowserWaits
<1> QED
  BY <1>3, <1>7, <1>8, <1>9, <1>10

\* Whatever a job finds fits what it was given.
LEMMA RunJobStep == ASSUME NEW i \in DOMAIN jobs PROVE IInv /\ RunJob(i) => IInv' /\ Asks' = Asks
<1> SUFFICES ASSUME IInv, RunJob(i) PROVE IInv' /\ Asks' = Asks
  OBVIOUS
<1> DEFINE m == jobs[i]
<1>1. i \in 1 .. Len(jobs) /\ m \in Wanted
  BY LenProperties, ElementOfSeq DEF IInv, QueuesOK
<1>2. disk \in Copies \cup {NoLicense} /\ issued \in Nat
  BY DEF IInv, FileOK
<1>3. \A a, covers, store : Issue(a, covers, store) /\ a \in Activations /\ covers \in BOOLEAN
        => /\ issued' \in Nat /\ disk' \in Copies \cup {NoLicense} /\ changed' \in BOOLEAN
           /\ New(a, covers) \in Copies /\ New(a, covers).act = a
  BY NewIsACopy, StoreKeepsFile DEF IInv, Issue, FileOK, file
<1>4. ASSUME NEW copy \in Copies, NEW store, NEW force, CheckOnline(i, copy, store, force)
      PROVE  /\ issued' \in Nat /\ disk' \in Copies \cup {NoLicense} /\ changed' \in BOOLEAN
             /\ \E answer \in CheckAnswers, found \in Copies :
                  found.act = copy.act /\ Ends(i, answer, found)
  <2>1. Freshest(copy) \in Copies /\ Freshest(copy).act = copy.act
    BY <1>2 DEF Freshest
  <2>2. ASSUME NEW answer \in CheckAnswers, NEW found \in Copies, found.act = copy.act,
               Ends(i, answer, found), UNCHANGED <<file, issued>>
        PROVE  /\ issued' \in Nat /\ disk' \in Copies \cup {NoLicense} /\ changed' \in BOOLEAN
               /\ \E a \in CheckAnswers, g \in Copies : g.act = copy.act /\ Ends(i, a, g)
    BY <2>2 DEF IInv, FileOK, file
  <2>3. \A covers : Verdict(covers) \in CheckAnswers
    BY DEF Verdict, CheckAnswers
  <2>4. CASE /\ Ends(i, "expired", copy)
             /\ UNCHANGED <<file, issued>>
    BY <2>2, <2>4 DEF CheckAnswers
  <2>5. CASE /\ Ends(i, Verdict(Freshest(copy).covered), Freshest(copy))
             /\ UNCHANGED <<file, issued>>
    BY <2>1, <2>2, <2>3, <2>5
  <2>6. CASE \E covers \in BOOLEAN :
               /\ Issue(copy.act, covers, store)
               /\ Ends(i, Verdict(covers), New(copy.act, covers))
    <3>1. PICK covers \in BOOLEAN : /\ Issue(copy.act, covers, store)
                                    /\ Ends(i, Verdict(covers), New(copy.act, covers))
      BY <2>6
    <3>2. copy.act \in Activations
      BY DEF Copies
    <3> QED
      BY <1>3, <2>3, <3>1, <3>2
  <2>7. CASE /\ \E answer \in {"expired", "revoked", "invalid"} : Ends(i, answer, copy)
             /\ UNCHANGED <<file, issued>>
    BY <2>2, <2>7 DEF CheckAnswers
  <2>8. CASE /\ Ends(i, IF PastGrace(copy) THEN "unverified" ELSE "failed", copy)
             /\ UNCHANGED <<file, issued>>
    BY <2>2, <2>8 DEF CheckAnswers
  <2> QED
    BY <1>4, <2>4, <2>5, <2>6, <2>7, <2>8 DEF CheckOnline
<1>5. ASSUME NEW answer, NEW copy, FitsJob(m, answer, copy), Ends(i, answer, copy),
             issued' \in Nat, disk' \in Copies \cup {NoLicense}, changed' \in BOOLEAN
      PROVE  IInv' /\ Asks' = Asks
  <2>1. QueuesOK' /\ Checks' = Checks /\ Asks' = Asks
    BY <1>1, <1>5, EndsKeeps DEF IInv
  <2>2. FileOK' /\ self' = self
    BY <1>5 DEF IInv, FileOK, RunJob, watch, time
  <2> QED
    BY <2>1, <2>2 DEF IInv, OneLead, AboutTheHeld, BrowserWaits, AsksFor, Held, Matches
<1>6. UNCHANGED file => disk' \in Copies \cup {NoLicense} /\ changed' \in BOOLEAN
  BY DEF IInv, FileOK, file
<1>7. Stored(NoLicense) => disk' \in Copies \cup {NoLicense} /\ changed' \in BOOLEAN
  BY StoreKeepsFile DEF IInv
<1>8. UNCHANGED issued => issued' \in Nat
  BY <1>2
<1>9. CheckAnswers \subseteq Answers
  BY DEF CheckAnswers, Answers
<1>10. CASE m.kind = "start" /\ LoadAtLaunch(i)
  <2>1. ASSUME NEW answer \in Answers, Ends(i, answer, disk), disk # NoLicense,
               UNCHANGED file \/ Stored(NoLicense), UNCHANGED issued
        PROVE  IInv' /\ Asks' = Asks
    <3>1. FitsJob(m, answer, disk)
      BY <1>2, <1>10, <2>1 DEF FitsJob
    <3> QED
      BY <1>5, <1>6, <1>7, <1>8, <2>1, <3>1
  <2>2. CASE Ends(i, "none", NoLicense) /\ UNCHANGED <<file, issued>>
    <3>1. FitsJob(m, "none", NoLicense)
      BY <1>10 DEF FitsJob, Answers
    <3> QED
      BY <1>5, <1>6, <1>8, <2>2, <3>1
  <2>3. CASE disk # NoLicense /\ Ends(i, "invalid", disk) /\ UNCHANGED <<file, issued>>
    BY <2>1, <2>3 DEF Answers
  <2>4. CASE /\ disk # NoLicense
             /\ Ends(i, IF Ended(disk) THEN "dead" ELSE Verdict(disk.covered), disk)
             /\ UNCHANGED <<file, issued>>
    <3>1. (IF Ended(disk) THEN "dead" ELSE Verdict(disk.covered)) \in Answers
      BY DEF Verdict, Answers
    <3> QED
      BY <2>1, <2>4, <3>1
  <2>5. CASE disk # NoLicense /\ CheckOnline(i, disk, TRUE, FALSE)
    <3>1. /\ issued' \in Nat /\ disk' \in Copies \cup {NoLicense} /\ changed' \in BOOLEAN
          /\ \E answer \in CheckAnswers, found \in Copies : Ends(i, answer, found)
      BY <1>2, <1>4, <2>5
    <3>2. PICK answer \in CheckAnswers, found \in Copies : Ends(i, answer, found)
      BY <3>1
    <3>3. FitsJob(m, answer, found)
      BY <1>9, <1>10, <3>2 DEF FitsJob
    <3> QED
      BY <1>5, <3>1, <3>2, <3>3
  <2>6. CASE disk # NoLicense /\ Ends(i, "revoked", disk) /\ Stored(NoLicense) /\ UNCHANGED issued
    BY <2>1, <2>6 DEF Answers
  <2> QED
    BY <1>10, <2>2, <2>3, <2>4, <2>5, <2>6 DEF LoadAtLaunch
<1>11. CASE m.kind = "refresh" /\ CheckOnline(i, m.from, StillCurrent(m), m.force)
  <2>1. m.from \in Copies
    BY <1>1, <1>11 DEF Wanted
  <2>2. /\ issued' \in Nat /\ disk' \in Copies \cup {NoLicense} /\ changed' \in BOOLEAN
        /\ \E answer \in CheckAnswers, found \in Copies :
             found.act = m.from.act /\ Ends(i, answer, found)
    BY <1>4, <1>11, <2>1
  <2>3. PICK answer \in CheckAnswers, found \in Copies :
          found.act = m.from.act /\ Ends(i, answer, found)
    BY <2>2
  <2>4. FitsJob(m, answer, found)
    BY <1>9, <1>11, <2>3 DEF FitsJob
  <2> QED
    BY <1>5, <2>2, <2>3, <2>4
<1>12. ASSUME NEW answer \in Answers, m.kind \in {"request", "poll", "deactivate", "discard"},
              m.kind = "poll" => answer # "granted",
              Ends(i, answer, NoLicense), UNCHANGED file \/ Stored(NoLicense), UNCHANGED issued
       PROVE  IInv' /\ Asks' = Asks
  <2>1. FitsJob(m, answer, NoLicense)
    BY <1>12 DEF FitsJob
  <2> QED
    BY <1>5, <1>6, <1>7, <1>8, <1>12, <2>1
<1>13. CASE /\ m.kind = "request"
            /\ \E answer \in {"granted", "failed"} : Ends(i, answer, NoLicense)
            /\ UNCHANGED <<file, issued>>
  BY <1>12, <1>13 DEF Answers
<1>14. CASE /\ m.kind = "poll"
            /\ \E answer \in {"pending", "invalid"} : Ends(i, answer, NoLicense)
            /\ UNCHANGED <<file, issued>>
  BY <1>12, <1>14 DEF Answers
<1>15. CASE /\ m.kind = "poll"
            /\ \E a \in {b \in Activations : KindOf[b] # "offline"}, covers \in BOOLEAN :
                 /\ Issue(a, covers, FALSE)
                 /\ Ends(i, "granted", New(a, covers))
  <2>1. PICK a \in Activations, covers \in BOOLEAN :
               Issue(a, covers, FALSE) /\ Ends(i, "granted", New(a, covers))
    BY <1>15
  <2>2. /\ issued' \in Nat /\ disk' \in Copies \cup {NoLicense} /\ changed' \in BOOLEAN
        /\ New(a, covers) \in Copies
    BY <1>3, <2>1
  <2>3. FitsJob(m, "granted", New(a, covers))
    BY <1>15, <2>2 DEF FitsJob, Answers
  <2> QED
    BY <1>5, <2>1, <2>2, <2>3
<1>16. CASE /\ m.kind = "deactivate"
            /\ \E answer \in {"revoked", "unsupported", "failed"} :
                 /\ Ends(i, answer, NoLicense)
                 /\ UNCHANGED file \/ (answer = "revoked" /\ Forgotten(m.from))
            /\ UNCHANGED issued
  BY <1>12, <1>16 DEF Answers, Forgotten
<1>17. CASE /\ m.kind = "discard" /\ Ends(i, "none", NoLicense)
            /\ Stored(NoLicense) \/ UNCHANGED file
            /\ UNCHANGED issued
  BY <1>12, <1>17 DEF Answers
<1> QED
  BY <1>10, <1>11, <1>13, <1>14, <1>15, <1>16, <1>17 DEF RunJob

\* A continuation that takes the lead's answer and leaves the members calm.
LEMMA CalmContinuation ==
    ASSUME IInv, posted # << >>, posted[1].fresh, posted[1].kind \in Leads,
           NEW c \in Members, Calm(c, self'), c.refreshes = self.refreshes - One(posted[1]),
           QueuesOK', Checks' = Checks - One(posted[1]), FileOK',
           \A p \in Asks' : p \in Asks \/ p[1] \in {"poll", "discard"},
           posted[1].kind \in {"refresh", "deactivate"} /\ Held(self)' # NoLicense
             => Held(self)'.act = posted[1].from.act
    PROVE  IInv'
<1>1. <<posted[1].kind, posted[1].from>> \in Asks
  BY FirstIsAsked DEF IInv
<1>2. OneLead' /\ AboutTheHeld'
  BY <1>1, LeadAnswered DEF IInv
<1> QED
  BY <1>2 DEF IInv, Calm, BrowserWaits

LEMMA DroppedStep == IInv /\ Dropped => IInv'
<1> SUFFICES ASSUME IInv, Dropped PROVE IInv'
  OBVIOUS
<1> DEFINE m == posted[1]
<1>1. posted # << >> /\ ~m.fresh
  BY DEF Dropped
<1>2. QueuesOK' /\ Checks' = Checks - One(m) /\ Asks' = Asks
  BY <1>1, KeepsRest DEF IInv, Dropped, PairOf
<1>3. self.refreshes \in Nat /\ Checks' \in Nat /\ Checks \in Nat
  BY <1>2, QueuesCount, QueuesCountAfter DEF IInv, Members
<1>4. /\ self' \in Members /\ self'.screen = self.screen /\ self'.lockReason = self.lockReason
      /\ self'.license = self.license /\ self'.notCovered = self.notCovered
      /\ self'.polling = self.polling /\ self'.pending = self.pending
      /\ self'.expiredTrial = self.expiredTrial
      /\ self'.refreshes = self.refreshes - One(m)
  <2>1. CASE m.kind = "refresh"
    <3>1. self' = [self EXCEPT !.refreshes = self.refreshes - 1]
      BY <2>1 DEF Dropped
    <3>2. self.refreshes - 1 \in Nat
      BY <1>2, <1>3, <2>1 DEF IInv, One
    <3> QED
      BY <2>1, <3>1, <3>2 DEF IInv, Members, One
  <2>2. CASE m.kind = "poll"
    <3>1. self' = [self EXCEPT !.pollInFlight = FALSE]
      BY <2>2 DEF Dropped
    <3>2. self.refreshes - One(m) = self.refreshes
      BY <1>3, <2>2 DEF One
    <3> QED
      BY <3>1, <3>2 DEF IInv, Members
  <2>3. CASE m.kind # "refresh" /\ m.kind # "poll"
    <3>1. self' = self
      BY <2>3 DEF Dropped
    <3> QED
      BY <1>3, <2>3, <3>1 DEF IInv, One
  <2> QED
    BY <2>1, <2>2, <2>3
<1>5. Matches(self') /\ Held(self)' = Held(self)
  BY <1>4 DEF IInv, Matches, Held
<1>6. OneLead' /\ AboutTheHeld' /\ BrowserWaits'
  BY <1>2, <1>4, <1>5 DEF IInv, OneLead, AboutTheHeld, BrowserWaits, AsksFor
<1>7. FileOK'
  BY StepKeepsFile DEF IInv, Dropped
<1> QED
  BY <1>2, <1>4, <1>5, <1>6, <1>7 DEF IInv

LEMMA LaunchedStep == IInv /\ Launched => IInv' /\ self'.screen # "Loading"
<1> SUFFICES ASSUME IInv, Launched PROVE IInv' /\ self'.screen # "Loading"
  OBVIOUS
<1> DEFINE m == posted[1]
<1>1. posted # << >> /\ m.fresh /\ m.kind = "start"
  BY DEF Launched, First
<1>2. m \in Answered /\ One(m) = 0
  BY <1>1, FirstIsAsked DEF IInv, One
<1>3. QueuesOK' /\ Checks' = Checks - 0 /\ Asks' \subseteq Asks
  BY <1>1, <1>2, KeepsRest DEF IInv, Launched
<1>4. self \in Members /\ self.polling = self.pending /\ m.copy \in Copies \cup {NoLicense}
      /\ m.answer \in Answers
  BY <1>2 DEF IInv, Matches, Answered, Wanted, Messages
<1>5. m.answer \in {"granted", "notCovered", "expired"} => m.copy \in Copies
  BY <1>1, <1>2 DEF Answered
<1>6. Calm(self, self')
  <2>1. CASE m.answer = "granted"
    <3>1. self' = ApplyLicense(self, m.copy)
      BY <2>1 DEF Launched
    <3> QED
      BY <1>4, <3>1, ApplyLicenseIsCalm
  <2>2. CASE m.answer = "notCovered"
    <3>1. self' = ShowNotCovered(self, m.copy)
      BY <2>2 DEF Launched
    <3> QED
      BY <1>4, <1>5, <2>2, <3>1, ShowNotCoveredIsCalm
  <2>3. CASE m.answer = "expired" /\ Kind(m.copy) = "trial"
    <3>1. self' = ShowTrialExpired(self, m.copy)
      BY <2>3 DEF Launched
    <3> QED
      BY <1>4, <1>5, <2>3, <3>1, ShowTrialExpiredIsCalm
  <2>4. CASE /\ m.answer \notin {"granted", "notCovered"}
             /\ ~(m.answer = "expired" /\ Kind(m.copy) = "trial")
    <3>1. PICK reason \in Reasons : self' = Lock(self, reason)
      <4>1. \/ self' = Lock(self, "Expired") \/ self' = Lock(self, "Invalid")
            \/ self' = Lock(self, "Unverified") \/ self' = Lock(self, "None")
        BY <2>4 DEF Launched
      <4> QED
        BY <4>1 DEF Reasons
    <3> QED
      BY <1>4, <3>1, LockIsCalm
  <2> QED
    BY <2>1, <2>2, <2>3, <2>4
<1>7. FileOK'
  <2>1. disk' \in Copies \cup {NoLicense} /\ changed' \in BOOLEAN
    BY StoreKeepsFile DEF IInv, Launched, FileOK, file
  <2> QED
    BY <2>1 DEF IInv, Launched, FileOK, watch, time
<1>8. self.refreshes \in Nat /\ Checks \in Nat
  BY QueuesCount DEF IInv, Members
<1> QED
  BY <1>1, <1>2, <1>3, <1>4, <1>6, <1>7, <1>8, CalmContinuation DEF Leads, Calm

LEMMA RequestedStep == IInv /\ Requested => IInv'
<1> SUFFICES ASSUME IInv, Requested PROVE IInv'
  OBVIOUS
<1> DEFINE m == posted[1]
<1>1. posted # << >> /\ m.fresh /\ m.kind = "request"
  BY DEF Requested, First
<1>2. One(m) = 0
  BY <1>1 DEF One
<1>3. QueuesOK' /\ Checks' = Checks - 0 /\ Asks' \subseteq Asks
  BY <1>1, <1>2, KeepsRest DEF IInv, Requested
<1>4. FileOK'
  BY StepKeepsFile DEF IInv, Requested
<1>5. Checks \in Nat
  BY QueuesCount DEF IInv
<1>6. CASE m.answer = "granted"
  <2>1. self' = [self EXCEPT !.pending = TRUE, !.polling = TRUE]
    BY <1>6 DEF Requested
  <2>2. /\ self' \in Members /\ self'.screen = self.screen /\ self'.lockReason = self.lockReason
        /\ self'.license = self.license /\ self'.notCovered = self.notCovered
        /\ self'.polling = TRUE /\ self'.pending = TRUE
        /\ self'.expiredTrial = self.expiredTrial
        /\ self'.refreshes = self.refreshes
    BY <2>1 DEF IInv, Members
  <2>3. Matches(self') /\ Held(self)' = Held(self)
    BY <2>2 DEF IInv, Matches, Held
  <2>4. OneLead' /\ AboutTheHeld'
    BY <1>3, <2>3, FewerAsked DEF IInv
  <2> QED
    BY <1>3, <1>4, <1>5, <2>2, <2>3, <2>4 DEF IInv, BrowserWaits
<1>7. CASE m.answer # "granted"
  <2>1. self' = Show(self, "Error")
    BY <1>7 DEF Requested
  <2>2. Calm(self, self')
    BY <2>1, ShowIsCalm DEF IInv, Screens
  <2>3. self.refreshes \in Nat
    BY DEF IInv, Members
  <2> QED
    BY <1>1, <1>2, <1>3, <1>4, <1>5, <2>2, <2>3, CalmContinuation DEF IInv, Leads
<1> QED
  BY <1>6, <1>7

LEMMA PolledStep == IInv /\ Polled => IInv'
<1> SUFFICES ASSUME IInv, Polled PROVE IInv'
  OBVIOUS
<1> DEFINE m == posted[1]
           c == [self EXCEPT !.pollInFlight = FALSE]
           over == [c EXCEPT !.polling = FALSE, !.pending = FALSE]
<1>1. posted # << >> /\ m.fresh /\ m.kind = "poll"
  BY DEF Polled, First
<1>2. One(m) = 0 /\ PairOf(m) = {<<"poll", m.from>>}
  BY <1>1 DEF One, PairOf
<1>3. Checks \in Nat /\ self.refreshes = Checks
  BY QueuesCount DEF IInv
<1>4. m.answer = "granted" => m.copy \in Copies
  BY <1>1, FirstIsAsked DEF IInv, Answered
<1>5. /\ c \in Members /\ c.screen = self.screen /\ c.lockReason = self.lockReason
      /\ c.license = self.license /\ c.notCovered = self.notCovered
      /\ c.polling = self.polling /\ c.pending = self.pending
      /\ c.expiredTrial = self.expiredTrial /\ c.refreshes = self.refreshes
  BY DEF IInv, Members
<1>6. /\ over \in Members /\ over.screen = self.screen /\ over.lockReason = self.lockReason
      /\ over.license = self.license /\ over.notCovered = self.notCovered
      /\ over.polling = FALSE /\ over.pending = FALSE
      /\ over.expiredTrial = self.expiredTrial /\ over.refreshes = self.refreshes
  BY DEF IInv, Members
<1> HIDE DEF c, over
<1>7. CASE /\ self' = c /\ Keeping(<< >>, Tail(posted)) /\ UNCHANGED file
  <2>1. QueuesOK' /\ Checks' = Checks - 0 /\ Asks = Asks' \cup {<<"poll", m.from>>}
    BY <1>1, <1>2, <1>7, KeepsRest DEF IInv
  <2>2. Matches(self') /\ Held(self)' = Held(self)
    BY <1>5, <1>7 DEF IInv, Matches, Held
  <2>3. OneLead' /\ AboutTheHeld'
    BY <2>1, <2>2, FewerAsked DEF IInv
  <2>4. FileOK'
    BY <1>7, StepKeepsFile DEF IInv, Polled
  <2>5. \A k : k # "poll" /\ AsksFor(k) => AsksFor(k)'
    <3>1. ASSUME NEW k, k # "poll", NEW p \in Asks, p[1] = k PROVE p \in Asks'
      <4>1. <<"poll", m.from>>[1] = "poll"
        OBVIOUS
      <4> QED
        BY <2>1, <3>1, <4>1
    <3> QED
      BY <3>1 DEF AsksFor
  <2>6. AsksFor("request") => AsksFor("request")'
    BY <2>5
  <2>7. AsksFor("deactivate") => AsksFor("deactivate")'
    BY <2>5
  <2>8. BrowserWaits'
    BY <1>5, <1>7, <2>6, <2>7 DEF IInv, BrowserWaits
  <2> QED
    BY <1>3, <1>5, <1>7, <2>1, <2>2, <2>3, <2>4, <2>8 DEF IInv
<1>8. CASE /\ self' = Show(over, "Error") /\ Keeping(<< >>, Tail(posted)) /\ UNCHANGED file
  <2>1. QueuesOK' /\ Checks' = Checks - 0 /\ Asks' \subseteq Asks
    BY <1>1, <1>2, <1>8, KeepsRest DEF IInv
  <2>2. /\ self' \in Members /\ self'.screen = "Error" /\ self'.lockReason = self.lockReason
        /\ self'.license = self.license /\ self'.notCovered = self.notCovered
        /\ self'.polling = FALSE /\ self'.pending = FALSE
        /\ self'.refreshes = self.refreshes
    BY <1>6, <1>8 DEF Show, Members, Screens
  <2>3. Matches(self') /\ Held(self)' = Held(self)
    BY <2>2 DEF IInv, Matches, Held
  <2>4. OneLead' /\ AboutTheHeld'
    BY <2>1, <2>3, FewerAsked DEF IInv
  <2>5. FileOK'
    BY <1>8, StepKeepsFile DEF IInv, Polled
  <2> QED
    BY <1>3, <2>1, <2>2, <2>3, <2>4, <2>5 DEF IInv, BrowserWaits
<1>9. CASE /\ m.answer = "granted" /\ self' = Show(SetLicense(over, m.copy), "Success")
           /\ Moving(<< >>, Tail(posted))
           /\ Stored(m.copy) \/ UNCHANGED file
  <2>1. QueuesOK' /\ Checks' = Checks - 0 /\ Asks' = {}
    BY <1>1, <1>2, <1>9, MovesRest DEF IInv
  <2>2. /\ self' \in Members /\ self'.screen = "Success" /\ self'.lockReason = "None"
        /\ self'.notCovered = NoLicense
        /\ self'.polling = FALSE /\ self'.pending = FALSE
        /\ self'.refreshes = self.refreshes
    BY <1>4, <1>6, <1>9, NoLicenseAssumption DEF Show, SetLicense, Members, Screens, Reasons
  <2>3. Matches(self')
    BY <2>2 DEF Matches
  <2>4. disk' \in Copies \cup {NoLicense} /\ changed' \in BOOLEAN
    BY <1>4, <1>9, StoreKeepsFile DEF IInv, FileOK, file
  <2>5. FileOK'
    BY <2>4 DEF IInv, Polled, FileOK, watch, time
  <2> QED
    BY <1>3, <2>1, <2>2, <2>3, <2>5, NothingAsked DEF IInv, BrowserWaits
<1> QED
  BY <1>7, <1>8, <1>9 DEF Polled, c, over

\* An answer that changes nothing keeps who waits; any other leaves no one waiting.
LEMMA CheckedGives ==
    ASSUME NEW c \in Members, Matches(c), NEW m \in Answered, m.fresh, m.kind = "refresh"
    PROVE  \/ Checked(m, c) = c
           \/ /\ Calm(c, Checked(m, c))
              /\ \/ Held(Checked(m, c)) \in {NoLicense, Held(c)}
                 \/ Held(Checked(m, c)).act = m.from.act
<1> DEFINE d == Checked(m, c)
<1>1. /\ m.answer \in CheckAnswers /\ m.from \in Copies
      /\ m.answer \in {"granted", "notCovered"} => m.copy \in Copies /\ m.copy.act = m.from.act
  BY DEF Answered, Wanted
<1>2. c.polling = c.pending
  BY DEF Matches
<1>3. CASE m.answer = "granted"
  <2>1. d = c \/ d = ApplyLicense(c, m.copy)
    BY <1>3 DEF Checked
  <2> QED
    BY <1>1, <1>2, <1>3, <2>1, ApplyLicenseIsCalm
<1>4. CASE m.answer = "notCovered"
  <2>1. d = c \/ d = ShowNotCovered(c, m.copy)
    BY <1>4 DEF Checked, AnsweredOlder
  <2> QED
    BY <1>1, <1>2, <1>4, <2>1, ShowNotCoveredIsCalm
<1>5. CASE m.answer = "expired"
  <2>1. d = ShowTrialExpired(c, m.from) \/ d = Lock(c, "Expired")
    BY <1>5 DEF Checked, AnsweredOlder
  <2> QED
    BY <1>1, <1>2, <2>1, ShowTrialExpiredIsCalm, LockIsCalm DEF Reasons
<1>6. CASE m.answer \in {"revoked", "invalid"}
  <2>1. d = Lock(c, "Invalid")
    BY <1>6 DEF Checked, AnsweredOlder
  <2> QED
    BY <1>2, <2>1, LockIsCalm DEF Reasons
<1>7. CASE m.answer \in {"failed", "unverified"}
  <2>1. \/ c.notCovered # NoLicense /\ d = Show(c, "NotCovered")
        \/ d = Lock(c, "Unverified") \/ d = c
    BY <1>7 DEF Checked, AnsweredOlder
  <2> QED
    BY <1>2, <2>1, LockIsCalm, ShowIsCalm DEF Reasons, Screens
<1> QED
  BY <1>1, <1>3, <1>4, <1>5, <1>6, <1>7 DEF CheckAnswers

LEMMA RefreshedStep == IInv /\ Refreshed => IInv' /\ (self.screen # "Loading" => self'.screen # "Loading")
<1> SUFFICES ASSUME IInv, Refreshed PROVE IInv' /\ (self.screen # "Loading" => self'.screen # "Loading")
  OBVIOUS
<1> DEFINE m == posted[1]
           c == [self EXCEPT !.refreshes = self.refreshes - 1]
           n == Job("discard", m.from, FALSE)
<1>1. posted # << >> /\ m.fresh /\ m.kind = "refresh"
  BY DEF Refreshed, First
<1>2. m \in Answered /\ <<"refresh", m.from>> \in Asks /\ One(m) = 1
  BY <1>1, FirstIsAsked DEF IInv, One
<1>3. m.from \in Copies
  BY <1>1, <1>2 DEF Answered, Wanted
<1>4. n \in Wanted /\ One(n) = 0 /\ PairOf(n) = {<<"discard", m.from>>}
  BY <1>3, JobIsWanted DEF JobKinds
<1>5. /\ QueuesOK' /\ Checks' = Checks - 1
      /\ \A p \in Asks' : p \in Asks \/ p[1] = "discard"
      /\ Asks \subseteq Asks' \cup {<<"refresh", m.from>>}
  <2>1. PairOf(m) = {<<"refresh", m.from>>}
    BY <1>1 DEF PairOf
  <2>2. Checks \in Nat
    BY QueuesCount DEF IInv
  <2>3. CASE Keeping(<< >>, Tail(posted))
    BY <1>1, <1>2, <2>1, <2>3, KeepsRest DEF IInv
  <2>4. CASE Keeping(<<n>>, Tail(posted))
    <3>1. /\ QueuesOK' /\ Checks' = Checks - 1 + 0
          /\ Asks \subseteq Asks' \cup {<<"refresh", m.from>>}
          /\ Asks' \subseteq Asks \cup {<<"discard", m.from>>}
      BY <1>1, <1>2, <1>4, <2>1, <2>4, KeepsRestAndMore DEF IInv
    <3> QED
      BY <2>2, <3>1
  <2>5. Keeping(<< >>, Tail(posted)) \/ Keeping(<<n>>, Tail(posted))
    BY DEF Refreshed
  <2> QED
    BY <2>3, <2>4, <2>5
<1>6. self.refreshes - 1 \in Nat
  BY <1>5, QueuesCountAfter DEF IInv
<1>7. /\ c \in Members /\ c.screen = self.screen /\ c.lockReason = self.lockReason
      /\ c.license = self.license /\ c.notCovered = self.notCovered
      /\ c.polling = self.polling /\ c.pending = self.pending
      /\ c.expiredTrial = self.expiredTrial /\ c.refreshes = self.refreshes - 1
  BY <1>6 DEF IInv, Members
<1>8. self' = Checked(m, c)
  BY DEF Refreshed
<1> HIDE DEF c
<1>9. Matches(c) /\ Held(c) = Held(self)
  BY <1>7 DEF IInv, Matches, Held
<1>10. FileOK'
  BY StepKeepsFile DEF IInv, Refreshed
<1>11. Held(self) # NoLicense => Held(self).act = m.from.act
  <2>1. /\ <<"refresh", m.from>>[1] = "refresh" /\ <<"refresh", m.from>>[2] = m.from
    OBVIOUS
  <2> QED
    BY <1>2, <2>1 DEF IInv, AboutTheHeld
<1>12. CASE self' = c
  <2>1. Held(self)' = Held(self)
    BY <1>9, <1>12
  <2>2. OneLead' /\ AboutTheHeld'
    BY <1>5, <2>1, FewerAsked DEF IInv
  <2>3. \A k : k # "refresh" /\ AsksFor(k) => AsksFor(k)'
    <3>1. ASSUME NEW k, k # "refresh", NEW p \in Asks, p[1] = k PROVE p \in Asks'
      <4>1. <<"refresh", m.from>>[1] = "refresh"
        OBVIOUS
      <4> QED
        BY <1>5, <3>1, <4>1
    <3> QED
      BY <3>1 DEF AsksFor
  <2>4. AsksFor("request") => AsksFor("request")'
    BY <2>3
  <2>5. AsksFor("deactivate") => AsksFor("deactivate")'
    BY <2>3
  <2>6. BrowserWaits'
    BY <1>7, <1>12, <2>4, <2>5 DEF IInv, BrowserWaits
  <2>7. self'.screen = self.screen
    BY <1>7, <1>12
  <2> QED
    BY <1>5, <1>7, <1>9, <1>10, <1>12, <2>2, <2>6, <2>7 DEF IInv
<1>13. CASE /\ Calm(c, self')
            /\ \/ Held(self') \in {NoLicense, Held(c)}
               \/ Held(self').act = m.from.act
  <2>1. Held(self)' = Held(self')
    BY DEF Held
  <2>2. Held(self)' # NoLicense => Held(self)'.act = m.from.act
    BY <1>9, <1>11, <1>13, <2>1
  <2>3. \A p \in Asks' : p \in Asks \/ p[1] \in {"poll", "discard"}
    BY <1>5
  <2> QED
    BY <1>1, <1>2, <1>5, <1>7, <1>10, <1>13, <2>2, <2>3, CalmContinuation DEF Leads, Calm
<1> QED
  BY <1>1, <1>2, <1>7, <1>8, <1>9, <1>12, <1>13, CheckedGives

LEMMA DeactivatedStep == IInv /\ Deactivated => IInv' /\ self'.screen # "Loading"
<1> SUFFICES ASSUME IInv, Deactivated PROVE IInv' /\ self'.screen # "Loading"
  OBVIOUS
<1> DEFINE m == posted[1]
           c == [self EXCEPT !.busy = FALSE]
<1>1. posted # << >> /\ m.fresh /\ m.kind = "deactivate"
  BY DEF Deactivated, First
<1>2. m \in Answered /\ <<"deactivate", m.from>> \in Asks /\ One(m) = 0
  BY <1>1, FirstIsAsked DEF IInv, One
<1>3. Checks \in Nat /\ self.refreshes = Checks
  BY QueuesCount DEF IInv
<1>4. /\ c \in Members /\ c.screen = self.screen /\ c.lockReason = self.lockReason
      /\ c.license = self.license /\ c.notCovered = self.notCovered
      /\ c.polling = self.polling /\ c.pending = self.pending
      /\ c.expiredTrial = self.expiredTrial /\ c.refreshes = self.refreshes
  BY DEF IInv, Members
<1> HIDE DEF c
<1>5. Matches(c) /\ Held(c) = Held(self)
  BY <1>4 DEF IInv, Matches, Held
<1>6. /\ QueuesOK' /\ Checks' = Checks - 0 /\ Asks' \subseteq Asks
  BY <1>1, <1>2, KeepsRest, MovesRest DEF IInv, Deactivated
<1>7. disk' \in Copies \cup {NoLicense} /\ changed' \in BOOLEAN
  BY StoreKeepsFile DEF IInv, Deactivated, FileOK, file, Forgotten
<1>8. FileOK'
  BY <1>7 DEF IInv, Deactivated, FileOK, watch, time
<1>9. Held(self) # NoLicense => Held(self).act = m.from.act
  <2>1. /\ <<"deactivate", m.from>>[1] = "deactivate" /\ <<"deactivate", m.from>>[2] = m.from
    OBVIOUS
  <2> QED
    BY <1>2, <2>1 DEF IInv, AboutTheHeld
<1>10. Calm(c, self') /\ Held(self') \in {NoLicense, Held(self)}
  <2>1. self' = Lock(c, "Deactivated") \/ self' = Show(c, ScreenFor(c))
    BY DEF Deactivated, c
  <2>2. /\ ScreenFor(c) \in {"Trial", "Details", "NotCovered", "Welcome"}
        /\ ScreenFor(c) = "NotCovered" => c.notCovered # NoLicense
    BY ScreenForIsCalm
  <2>3. CASE self' = Lock(c, "Deactivated")
    BY <1>4, <1>5, <2>3, LockIsCalm DEF Matches, Reasons
  <2>4. CASE self' = Show(c, ScreenFor(c))
    BY <1>4, <1>5, <2>2, <2>4, ShowIsCalm DEF Screens
  <2> QED
    BY <2>1, <2>3, <2>4
<1>11. Held(self)' # NoLicense => Held(self)'.act = m.from.act
  BY <1>9, <1>10 DEF Held
<1> QED
  BY <1>1, <1>2, <1>3, <1>4, <1>6, <1>8, <1>10, <1>11, CalmContinuation DEF Leads, Calm

LEMMA DiscardedStep == IInv /\ Discarded => IInv'
<1> SUFFICES ASSUME IInv, Discarded PROVE IInv'
  OBVIOUS
<1> DEFINE m == posted[1]
<1>1. posted # << >> /\ m.kind = "discard"
  BY DEF Discarded, First
<1>2. One(m) = 0 /\ PairOf(m) \subseteq {<<"discard", m.from>>}
  BY <1>1 DEF One, PairOf
<1>3. QueuesOK' /\ Checks' = Checks - 0 /\ Asks = Asks' \cup PairOf(m)
  BY <1>1, <1>2, KeepsRest DEF IInv, Discarded
<1>4. Checks \in Nat /\ self' = self
  BY QueuesCount DEF IInv, Discarded
<1>5. FileOK'
  BY StepKeepsFile DEF IInv, Discarded
<1>6. OneLead' /\ AboutTheHeld'
  BY <1>3, <1>4, FewerAsked DEF IInv, Held
<1>7. \A k : k # "discard" /\ AsksFor(k) => AsksFor(k)'
  <2>1. ASSUME NEW k, k # "discard", NEW p \in Asks, p[1] = k PROVE p \in Asks'
    <3>1. <<"discard", m.from>>[1] = "discard"
      OBVIOUS
    <3> QED
      BY <1>2, <1>3, <2>1, <3>1
  <2> QED
    BY <2>1 DEF AsksFor
<1>8. AsksFor("request") => AsksFor("request")'
  BY <1>7
<1>9. AsksFor("deactivate") => AsksFor("deactivate")'
  BY <1>7
<1>10. BrowserWaits'
  BY <1>4, <1>8, <1>9 DEF IInv, BrowserWaits
<1> QED
  BY <1>3, <1>4, <1>5, <1>6, <1>10 DEF IInv, Matches

\* The file and time move, and nothing of the controller does.
LEMMA OutsideStep ==
    ASSUME IInv, UNCHANGED <<self, messages, watch>>,
           disk' \in Copies \cup {NoLicense}, changed' \in BOOLEAN,
           elsewhere' \in Copies \cup {NoLicense},
           issued' \in Nat, stale' \in Nat, ended' \in [Activations -> Nat]
    PROVE  IInv'
<1>1. QueuesOK' /\ Checks' = Checks /\ Asks' = Asks
  BY SameQueues DEF IInv
<1>2. FileOK'
  BY DEF IInv, FileOK, watch
<1> QED
  BY <1>1, <1>2 DEF IInv, OneLead, AboutTheHeld, BrowserWaits, AsksFor, Held, Matches

LEMMA SiblingStep == IInv /\ (SiblingChecks \/ SiblingActivates \/ SiblingRemoves) => IInv'
<1> SUFFICES ASSUME IInv, SiblingChecks \/ SiblingActivates \/ SiblingRemoves PROVE IInv'
  OBVIOUS
<1>1. /\ disk \in Copies \cup {NoLicense} /\ changed \in BOOLEAN /\ issued \in Nat
      /\ elsewhere \in Copies \cup {NoLicense}
      /\ stale \in Nat /\ ended \in [Activations -> Nat]
  BY DEF IInv, FileOK
<1>2. \A copy \in Copies \cup {NoLicense} :
        Stored(copy) => disk' \in Copies \cup {NoLicense} /\ changed' \in BOOLEAN
  BY StoreKeepsFile DEF IInv
<1>3. \A a \in Activations, covers \in BOOLEAN :
        New(a, covers) \in Copies /\ issued + 1 \in Nat
  BY NewIsACopy DEF IInv
<1>4. CASE SiblingChecks
  <2>1. disk.act \in Activations
    BY <1>1, <1>4 DEF SiblingChecks, Copies
  <2>2. issued' \in Nat /\ disk' \in Copies \cup {NoLicense} /\ changed' \in BOOLEAN
    BY <1>2, <1>3, <1>4, <2>1 DEF SiblingChecks, Issue
  <2> QED
    BY <1>1, <1>4, <2>2, OutsideStep DEF SiblingChecks, time
<1>5. CASE SiblingActivates
  <2>1. CASE elsewhere = NoLicense
    <3>1. /\ issued' \in Nat /\ UNCHANGED file /\ elsewhere' \in Copies \cup {NoLicense}
      BY <1>2, <1>3, <1>5, <2>1 DEF SiblingActivates, Issue
    <3> QED
      BY <1>1, <1>5, <3>1, OutsideStep DEF SiblingActivates, time, file
  <2>2. CASE elsewhere # NoLicense
    <3>1. /\ issued' = issued /\ elsewhere' = NoLicense
          /\ disk' \in Copies \cup {NoLicense} /\ changed' \in BOOLEAN
      BY <1>1, <1>2, <1>5, <2>2 DEF SiblingActivates
    <3> QED
      BY <1>1, <1>5, <3>1, OutsideStep DEF SiblingActivates, time
  <2> QED
    BY <2>1, <2>2
<1>6. CASE SiblingRemoves
  <2>1. disk' \in Copies \cup {NoLicense} /\ changed' \in BOOLEAN
    BY <1>2, <1>6 DEF SiblingRemoves
  <2> QED
    BY <1>1, <1>6, <2>1, OutsideStep DEF SiblingRemoves, time
<1> QED
  BY <1>4, <1>5, <1>6

LEMMA TimeStep == IInv /\ (GracePasses \/ (\E a \in Activations : LicenseEnds(a))) => IInv'
<1> SUFFICES ASSUME IInv, GracePasses \/ \E a \in Activations : LicenseEnds(a) PROVE IInv'
  OBVIOUS
<1>1. FileOK
  BY DEF IInv
<1>2. CASE GracePasses
  BY <1>1, <1>2, OutsideStep DEF FileOK, GracePasses, file
<1>3. CASE \E a \in Activations : LicenseEnds(a)
  <2>1. ended' \in [Activations -> Nat] /\ stale' = stale
    BY <1>1, <1>3 DEF FileOK, LicenseEnds
  <2> QED
    BY <1>1, <1>3, <2>1, OutsideStep DEF FileOK, LicenseEnds, file
<1> QED
  BY <1>2, <1>3

LEMMA ControllerStep == IInv /\ [Next]_vars => IInv'
<1> SUFFICES ASSUME IInv, [Next]_vars PROVE IInv'
  OBVIOUS
<1>1. CASE UNCHANGED vars
  <2>1. FileOK
    BY DEF IInv
  <2> QED
    BY <1>1, <2>1, OutsideStep DEF vars, FileOK, file, time
<1>2. CASE Next
  BY <1>2, StartStep, ActivateStep, CancelStep, RefreshStep, ClearLicenseStep, DeactivateStep,
     DeactivateNothingStep, ActivateOfflineStep, NavigateStep, PollTickStep, WatchLicenseStep,
     RunJobStep, DroppedStep, LaunchedStep, RequestedStep, PolledStep, RefreshedStep,
     DeactivatedStep, DiscardedStep, SiblingStep, TimeStep
     DEF Next, Continue
<1> QED
  BY <1>1, <1>2

\* The inductive invariant: besides what every handler promises, what the messages
\* under way carry, that of the jobs which move the generation on one is awaited at
\* most, and that a check or a deactivation is about the activation held.
THEOREM ControllerInvariant == Spec => []IInv
BY ControllerInitially, ControllerStep, PTL DEF Spec

\* What every handler of the message thread leaves behind it: a screen about a
\* license has one, a lock is never explained next to a license, and the checks
\* counted are the checks under way (setLicense, applyLicense, showTrialExpired,
\* showNotCovered, refreshLicense and its continuation).
THEOREM HandlersKeepTheirWord == Spec => []Inv
<1>1. IInv => Inv
  <2> SUFFICES ASSUME IInv PROVE Inv
    OBVIOUS
  <2>1. jobs \in Seq(Messages) /\ posted \in Seq(Messages)
    BY QueuesCount DEF IInv
  <2>2. TypeOK
    BY <2>1 DEF IInv, FileOK, TypeOK
  <2>3. ScreenMatchesLicense
    BY DEF IInv, Matches, ScreenMatchesLicense
  <2>4. RefreshesCounted
    BY DEF IInv, Checks, RefreshesIn, RefreshesCounted
  <2> QED
    BY <2>2, <2>3, <2>4 DEF Inv
<1> QED
  BY <1>1, ControllerInvariant, PTL

-----------------------------------------------------------------------------
(* What the server says of one activation changes nothing about another.   *)

\* Only a continuation takes a message off the queue.
LEMMA OnlyContinuationsTake ==
    ASSUME IInv, posted # << >>, posted' = Tail(posted), [Next]_vars
    PROVE  Continue
<1>1. Len(posted') = Len(posted) - 1 /\ Len(posted) \in Nat
  BY HeadTailProperties, LenProperties DEF IInv, QueuesOK
<1>2. ASSUME NEW new, Moving(new, posted) PROVE FALSE
  <2>1. posted' = Superseded(posted) /\ Len(Superseded(posted)) = Len(posted)
    BY <1>2, SupersededCounts DEF Moving, IInv, QueuesOK
  <2> QED
    BY <1>1, <2>1
<1>3. ASSUME posted' = posted PROVE FALSE
  BY <1>1, <1>3
<1>4. ASSUME NEW i \in DOMAIN jobs, RunJob(i) PROVE FALSE
  <2>1. PICK m : posted' = Append(posted, m)
    BY <1>4 DEF RunJob, LoadAtLaunch, CheckOnline, Ends
  <2>2. Len(posted') = Len(posted) + 1
    BY <2>1 DEF IInv, QueuesOK
  <2> QED
    BY <1>1, <2>2
<1>5. ~WatchLicense
  <2>1. ASSUME WatchLicense PROVE \/ \E new : Moving(new, posted)
                                  \/ posted' = posted
    BY <2>1 DEF WatchLicense, CheckDeadlines, Keeping
  <2> QED
    BY <1>2, <1>3, <2>1
<1>6. ~UNCHANGED vars
  BY <1>3 DEF vars, messages
<1>7. ~Start /\ ~Activate /\ ~Cancel /\ ~ClearLicense /\ ~Deactivate
  BY <1>2 DEF Start, Activate, Cancel, ClearLicense, Deactivate
<1>8. \A force \in BOOLEAN : ~Refresh(force)
  BY <1>2 DEF Refresh
<1>9. ~DeactivateNothing /\ ~Navigate /\ ~PollTick
  BY <1>3 DEF DeactivateNothing, Navigate, PollTick, messages, Keeping
<1>10. ~ActivateOffline
  BY <1>2, <1>3 DEF ActivateOffline, messages
<1>11. ~SiblingChecks /\ ~SiblingActivates /\ ~SiblingRemoves /\ ~GracePasses
  BY <1>3 DEF SiblingChecks, SiblingActivates, SiblingRemoves, GracePasses, messages
<1>12. \A a \in Activations : ~LicenseEnds(a)
  BY <1>3 DEF LicenseEnds, messages
<1> QED
  BY <1>4, <1>5, <1>6, <1>7, <1>8, <1>9, <1>10, <1>11, <1>12 DEF Next

\* The answer of a check or a deactivation of one activation leaves another that the
\* controller holds by then as it is: it is out of date, since the generation moved
\* when the other came to be held (refreshLicense, deactivate, adoptStoredLicense).
THEOREM AnswersStay == Spec => AnswersStayWithTheirLicense
<1>1. ASSUME IInv, [Next]_vars,
             posted # << >>, posted' = Tail(posted),
             posted[1].kind \in {"refresh", "deactivate"},
             Held(self) # NoLicense, Held(self).act # posted[1].from.act
      PROVE  Held(self') = Held(self)
  <2> DEFINE m == posted[1]
  <2>1. ~m.fresh
    <3>1. m.fresh => <<m.kind, m.from>> \in Asks
      BY <1>1, FirstIsAsked DEF IInv
    <3>2. <<m.kind, m.from>>[1] = m.kind /\ <<m.kind, m.from>>[2] = m.from
      OBVIOUS
    <3> QED
      BY <1>1, <3>1, <3>2 DEF IInv, AboutTheHeld
  <2>2. Continue
    BY <1>1, OnlyContinuationsTake
  <2>3. Dropped
    BY <2>1, <2>2 DEF Continue, Launched, Requested, Polled, Refreshed, Deactivated, Discarded
  <2>4. self'.license = self.license /\ self'.notCovered = self.notCovered
    <3>1. self \in Members
      BY <1>1 DEF IInv
    <3>2. \/ self' = [self EXCEPT !.refreshes = self.refreshes - 1]
          \/ self' = [self EXCEPT !.pollInFlight = FALSE] \/ self' = self
      BY <2>3 DEF Dropped
    <3> QED
      BY <3>1, <3>2 DEF Members
  <2> QED
    BY <2>4 DEF Held
<1>2. IInv /\ [Next]_vars =>
        [ /\ posted # << >> /\ posted' = Tail(posted)
          /\ posted[1].kind \in {"refresh", "deactivate"}
          /\ Held(self) # NoLicense /\ Held(self).act # posted[1].from.act
          => Held(self') = Held(self) ]_vars
  BY <1>1
<1> QED
  BY <1>2, ControllerInvariant, PTL DEF Spec, AnswersStayWithTheirLicense

-----------------------------------------------------------------------------
(* A screen that waits has something to wait for.                          *)

LEMMA LoadIsFirstInitially == Init => LoadIsFirst
<1> SUFFICES ASSUME Init PROVE LoadIsFirst
  OBVIOUS
<1>1. Asks = {}
  BY NothingCounts DEF Init, Asks
<1> QED
  BY <1>1 DEF Init, LoadIsFirst, Held

\* Off the loading screen, with the watch running, there is nothing to show.
LEMMA LoadIsOver == self'.screen # "Loading" /\ watching' => LoadIsFirst'
BY DEF LoadIsFirst

\* While the load is awaited nothing else is.
LEMMA OnlyTheLoad ==
    ASSUME IInv, LoadIsFirst, posted # << >>, posted[1].fresh, posted[1].kind # "start"
    PROVE  self.screen # "Loading" /\ watching
<1>1. <<posted[1].kind, posted[1].from>> \in Asks
  BY FirstIsAsked DEF IInv
<1>2. <<posted[1].kind, posted[1].from>>[1] = posted[1].kind
  OBVIOUS
<1> QED
  BY <1>1, <1>2 DEF LoadIsFirst

LEMMA LoadIsFirstStep ==
    ASSUME "start" \notin HostCalls, IInv, LoadIsFirst, [Next]_vars
    PROVE  LoadIsFirst'
<1>1. self \in Members /\ self.polling = self.pending
  BY DEF IInv, Matches
<1>2. CASE Start
  <2> DEFINE m == Job("start", NoLicense, FALSE)
  <2>1. m \in Wanted /\ PairOf(m) = {<<"start", NoLicense>>}
    BY JobIsWanted DEF JobKinds
  <2>2. Asks' = {<<"start", NoLicense>>}
    BY <1>2, <2>1, MovesMore DEF Start, IInv
  <2>3. self.screen = "Loading" /\ Held(self) = NoLicense /\ ~self.pending
    BY <1>2 DEF Start, LoadIsFirst
  <2>4. Held(self)' = NoLicense /\ ~self'.pending /\ watching'
    BY <1>1, <1>2, <2>3 DEF Start, Held, Members
  <2>5. <<"start", NoLicense>>[1] = "start"
    OBVIOUS
  <2>6. AsksFor("start")' /\ \A p \in Asks' : p[1] = "start"
    BY <2>2, <2>5 DEF AsksFor
  <2> QED
    BY <2>4, <2>6 DEF LoadIsFirst
<1>3. ASSUME UNCHANGED <<self, watching>>, Asks' = Asks PROVE LoadIsFirst'
  BY <1>3 DEF LoadIsFirst, AsksFor, Held
<1>4. ASSUME self.screen # "Loading", self'.screen # "Loading", UNCHANGED watching
      PROVE  LoadIsFirst'
  BY <1>4, LoadIsOver DEF LoadIsFirst
<1>5. CASE Activate \/ Cancel \/ DeactivateNothing \/ ActivateOffline \/ Navigate
  <2>1. CASE DeactivateNothing
    <3>1. self'.screen = "Welcome" /\ watching' /\ watching' = watching
      BY <1>1, <2>1 DEF DeactivateNothing, Show, HostMay, watch, Members
    <3> QED
      BY <3>1, LoadIsOver
  <2>2. CASE Activate \/ Cancel \/ ActivateOffline \/ Navigate
    <3>1. self.screen # "Loading" /\ UNCHANGED watching
      BY <2>2 DEF Activate, Cancel, ActivateOffline, Navigate, watch
    <3>2. self'.screen # "Loading"
      <4>1. CASE Activate
        BY <1>1, <4>1 DEF Activate, Show, Members
      <4>2. CASE Cancel
        BY <1>1, <4>2 DEF Cancel, Show, Members
      <4>3. CASE ActivateOffline
        BY <1>1, <4>3 DEF ActivateOffline, Show, SetLicense, ShowNotCovered, Members
      <4>4. CASE Navigate
        <5>1. ScreenFor(self) # "Loading"
          BY ScreenForIsCalm
        <5> QED
          BY <1>1, <4>4, <5>1 DEF Navigate, Show, Members
      <4> QED
        BY <2>2, <4>1, <4>2, <4>3, <4>4
    <3> QED
      BY <1>4, <3>1, <3>2
  <2> QED
    BY <1>5, <2>1, <2>2
<1>6. CASE \E force \in BOOLEAN : Refresh(force)
  <2>1. self.screen # "Loading" /\ self'.screen = self.screen /\ UNCHANGED watching
    BY <1>1, <1>6 DEF Refresh, MayRefresh, Refreshing, Members, LoadIsFirst, watch
  <2> QED
    BY <1>4, <2>1
<1>7. CASE ClearLicense
  <2>1. Calm(self, self') /\ watching'
    BY <1>1, <1>7, LockIsCalm DEF ClearLicense, HostMay, watch, Reasons
  <2> QED
    BY <2>1, LoadIsOver DEF Calm
<1>8. CASE Deactivate
  <2>1. self.screen # "Loading" /\ self'.screen = self.screen /\ UNCHANGED watching
    BY <1>1, <1>8 DEF Deactivate, Members, LoadIsFirst, watch
  <2> QED
    BY <1>4, <2>1
<1>9. CASE PollTick
  <2>1. self.screen # "Loading" /\ self'.screen = self.screen /\ UNCHANGED watching
    BY <1>1, <1>9 DEF PollTick, Members, LoadIsFirst, watch
  <2> QED
    BY <1>4, <2>1
<1>10. CASE WatchLicense
  <2> DEFINE c == CheckFile(self).self
  <2>1. c \in Members /\ Matches(c) /\ c.screen # "Loading" /\ watching'
    BY <1>10, CheckFileGives DEF WatchLicense, IInv, FileOK
  <2> HIDE DEF c
  <2>2. \/ self'.screen = c.screen
        \/ self' = Lock(c, "Expired")
    <3> DEFINE why == IF Ended(c.license) THEN "Expired" ELSE "Unverified"
               gone == IF Kind(c.license) = "trial" THEN c.license ELSE c.expiredTrial
    <3>1. \/ self' = c \/ self' = Refreshing(c) \/ self' = Lock(c, "Expired")
          \/ self' = [c EXCEPT !.license = NoLicense, !.lockReason = why,
                               !.expiredTrial = gone]
      BY <1>10 DEF WatchLicense, CheckDeadlines, c
    <3> HIDE DEF why, gone
    <3> QED
      BY <2>1, <3>1 DEF Refreshing, Members
  <2>3. Calm(c, Lock(c, "Expired"))
    BY <2>1, LockIsCalm DEF Matches, Reasons
  <2> QED
    BY <2>1, <2>2, <2>3, LoadIsOver DEF Calm
<1>11. CASE \E i \in DOMAIN jobs : RunJob(i)
  <2>1. PICK i \in DOMAIN jobs : RunJob(i)
    BY <1>11
  <2>2. UNCHANGED <<self, watching>>
    BY <2>1 DEF RunJob, watch
  <2>3. Asks' = Asks
    BY <2>1, RunJobStep
  <2> QED
    BY <1>3, <2>2, <2>3
<1>12. CASE Dropped
  <2>1. posted # << >> /\ ~posted[1].fresh
    BY <1>12 DEF Dropped
  <2>2. Asks' = Asks
    BY <1>12, <2>1, KeepsRest DEF IInv, Dropped, PairOf
  <2>3. /\ self'.screen = self.screen /\ self'.license = self.license
        /\ self'.notCovered = self.notCovered /\ self'.pending = self.pending
    <3>1. \/ self' = [self EXCEPT !.refreshes = self.refreshes - 1]
          \/ self' = [self EXCEPT !.pollInFlight = FALSE] \/ self' = self
      BY <1>12 DEF Dropped
    <3> QED
      BY <1>1, <3>1 DEF Members
  <2>4. UNCHANGED watching
    BY <1>12 DEF Dropped, watch
  <2> QED
    BY <2>2, <2>3, <2>4 DEF LoadIsFirst, AsksFor, Held
<1>13. CASE Launched
  <2>1. self'.screen # "Loading"
    BY <1>13, LaunchedStep
  <2>2. watching'
    <3>1. posted # << >> /\ posted[1].fresh
      BY <1>13 DEF Launched, First
    <3>2. Asks # {}
      BY <3>1, FirstIsAsked DEF IInv
    <3> QED
      BY <1>13, <3>2 DEF LoadIsFirst, Launched, watch
  <2> QED
    BY <2>1, <2>2, LoadIsOver
<1>14. CASE Requested \/ Polled \/ Refreshed \/ Deactivated
  <2>1. self.screen # "Loading" /\ watching' = watching
    BY <1>14, OnlyTheLoad DEF Requested, Polled, Refreshed, Deactivated, First, watch
  <2>2. self'.screen # "Loading"
    <3>1. CASE Requested
      BY <1>1, <2>1, <3>1 DEF Requested, Show, Members
    <3>2. CASE Polled
      BY <1>1, <2>1, <3>2 DEF Polled, Show, SetLicense, Members
    <3>3. CASE Refreshed
      BY <2>1, <3>3, RefreshedStep
    <3>4. CASE Deactivated
      BY <3>4, DeactivatedStep
    <3> QED
      BY <1>14, <3>1, <3>2, <3>3, <3>4
  <2> QED
    BY <1>4, <2>1, <2>2
<1>15. CASE Discarded
  <2>1. CASE posted[1].fresh
    <3>1. self.screen # "Loading" /\ self' = self /\ UNCHANGED watching
      BY <1>15, <2>1, OnlyTheLoad DEF Discarded, First, watch
    <3> QED
      BY <1>4, <3>1
  <2>2. CASE ~posted[1].fresh
    BY <1>15, <2>2 DEF Discarded
  <2> QED
    BY <2>1, <2>2
<1>16. CASE \/ SiblingChecks \/ SiblingActivates \/ SiblingRemoves \/ GracePasses
            \/ \E a \in Activations : LicenseEnds(a)
  <2>1. UNCHANGED <<self, messages, watch>>
    BY <1>16 DEF SiblingChecks, SiblingActivates, SiblingRemoves, GracePasses, LicenseEnds
  <2>2. Asks' = Asks
    BY <2>1, SameQueues DEF IInv
  <2> QED
    BY <1>3, <2>1, <2>2 DEF watch
<1>17. CASE UNCHANGED vars
  <2>1. Asks' = Asks
    BY <1>17, SameQueues DEF IInv, vars
  <2> QED
    BY <1>3, <1>17, <2>1 DEF vars, watch
<1> QED
  BY <1>2, <1>5, <1>6, <1>7, <1>8, <1>9, <1>10, <1>11, <1>12, <1>13, <1>14, <1>15, <1>16, <1>17
     DEF Next, Continue

\* No supersession of the load or of the activation request leaves the user on
\* "Loading" or on "Waiting" for good, if the host starts the controller once: a
\* screen that waits has something to wait for (start, refreshLicense, activate,
\* cancelActivation, deactivate and their continuations).
THEOREM ScreensWaitForSomething ==
    ASSUME "start" \notin HostCalls PROVE Spec => []WaitsForSomething
<1>1. IInv /\ LoadIsFirst /\ [Next]_vars => LoadIsFirst'
  BY LoadIsFirstStep
<1>2. IInv /\ LoadIsFirst => WaitsForSomething
  <2> SUFFICES ASSUME IInv, LoadIsFirst PROVE WaitsForSomething
    OBVIOUS
  <2>1. \A kind : AsksFor(kind) => Fresh(kind)
    <3>1. ASSUME NEW kind, NEW p \in Asks, p[1] = kind PROVE Fresh(kind)
      <4>1. CASE p \in Pairs(jobs)
        <5>1. PICK i \in DOMAIN jobs : jobs[i].fresh /\ p = <<jobs[i].kind, jobs[i].from>>
          BY <4>1 DEF Pairs
        <5>2. jobs[i] \in UnderWay /\ jobs[i].kind = kind
          BY <3>1, <5>1 DEF UnderWay, Range
        <5> QED
          BY <5>1, <5>2 DEF Fresh
      <4>2. CASE p \in Pairs(posted)
        <5>1. PICK i \in DOMAIN posted :
                posted[i].fresh /\ p = <<posted[i].kind, posted[i].from>>
          BY <4>2 DEF Pairs
        <5>2. posted[i] \in UnderWay /\ posted[i].kind = kind
          BY <3>1, <5>1 DEF UnderWay, Range
        <5> QED
          BY <5>1, <5>2 DEF Fresh
      <4> QED
        BY <3>1, <4>1, <4>2 DEF Asks
    <3> QED
      BY <3>1 DEF AsksFor
  <2> QED
    BY <2>1 DEF WaitsForSomething, IInv, LoadIsFirst, BrowserWaits
<1> QED
  BY <1>1, <1>2, LoadIsFirstInitially, ControllerInvariant, PTL DEF Spec

=============================================================================

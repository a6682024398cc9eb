--------------------------- MODULE AddOns_proofs ---------------------------
(***************************************************************************)
(* Proofs about the add-ons of a license: whose answers are listened to,   *)
(* that a spinner has something to wait for, the order in which answers    *)
(* are applied, and what becomes of a purchase.  They hold for any number  *)
(* of activations, jobs and issued copies.                                 *)
(***************************************************************************)
EXTENDS AddOns, SequenceTheorems, TLAPS

\* A call or a check that has its answer and holds its turn until that is queued.
Turn(m) == m.asked /\ m.kind \in {"call", "check"}

\* It brings a copy of the license.
Brings(m) == m.kind \in {"call", "check"} /\ m.answer = "granted"

\* What moves generation_ on, and is not out of date.
Leads(m) == m.fresh /\ m.kind \in Generation

\* A throttled answer is the copy that was asked about; a copy was issued.
Sound(m) ==
    /\ m.answer = "same" => m.kind = "check" /\ ~m.force /\ m.copy = m.of
    /\ Brings(m) => m.copy <= issued

\* One call or check at a time has its turn; so copies are queued in the order the
\* server issued them, and the one whose turn it is has the last.
TurnsTaken ==
    /\ \A j \in DOMAIN jobs : jobs[j].asked \/ jobs[j].answer = "none"
    /\ \A j, k \in DOMAIN jobs : Turn(jobs[j]) /\ Turn(jobs[k]) => j = k
    /\ \A i, j \in DOMAIN posted :
         i < j /\ Brings(posted[i]) /\ Brings(posted[j]) => posted[i].copy < posted[j].copy
    /\ \A i \in DOMAIN posted, j \in DOMAIN jobs :
         Brings(posted[i]) /\ Brings(jobs[j]) => posted[i].copy < jobs[j].copy

\* Of what moves the generation on, one is not out of date at most.
OneLeads ==
    /\ \A i, j \in DOMAIN jobs : Leads(jobs[i]) /\ Leads(jobs[j]) => i = j
    /\ \A i, j \in DOMAIN posted : Leads(posted[i]) /\ Leads(posted[j]) => i = j
    /\ \A i \in DOMAIN jobs, j \in DOMAIN posted : ~(Leads(jobs[i]) /\ Leads(posted[j]))

MessagesOK ==
    /\ jobs \in Seq(Message) /\ posted \in Seq(Message) /\ issued \in Nat
    /\ \A m \in InFlight : Sound(m)
    /\ TurnsTaken /\ OneLeads

\* No copy under way for the license held is older than the one held.
NewerUnderWay ==
    \A m \in InFlight : Brings(m) /\ m.from = license => at <= m.copy

SetUpEnds == setUp => \E m \in InFlight : m.kind = "call" /\ m.fresh

ListEnds ==
    phase = "Loading" =>
        \E m \in InFlight : (m.kind = "list" /\ m.fresh) \/ (m.kind = "check" /\ m.then)

StateOK ==
    /\ license \in Activations \cup {NoLicense} /\ at \in Nat /\ at <= issued
    /\ phase \in {"Idle", "Loading", "Ready"} /\ setUp \in BOOLEAN
    /\ busy \in BOOLEAN /\ activating \in BOOLEAN /\ purchase \in Purchases
    /\ license = NoLicense => phase = "Idle" /\ ~setUp

IInv ==
    /\ MessagesOK /\ StateOK
    /\ AnswersAreForTheLicense /\ NewerUnderWay
    /\ SetUpEnds /\ ListEnds

-----------------------------------------------------------------------------
(* Messages and queues.                                                    *)

Aged(kinds, m) == IF m.kind \in kinds THEN Outdated(m) ELSE m

\* What ageing leaves of a message.
LEMMA AgedGives ==
    ASSUME NEW m \in Message, NEW kinds
    PROVE  /\ Aged(kinds, m) \in Message
           /\ Aged(kinds, m).kind = m.kind /\ Aged(kinds, m).from = m.from
           /\ Aged(kinds, m).then = m.then /\ Aged(kinds, m).asked = m.asked
           /\ Aged(kinds, m).fresh => m.fresh /\ m.kind \notin kinds
           /\ m.kind \notin kinds => Aged(kinds, m) = m
           /\ m.answer = "none" => Aged(kinds, m).answer = "none"
           /\ Brings(Aged(kinds, m)) => Brings(m) /\ Aged(kinds, m).copy = m.copy
           /\ Sound(m) => Sound(Aged(kinds, m))
<1>1. CASE m.kind \notin kinds
  BY <1>1 DEF Aged
<1>2. CASE m.kind \in kinds /\ m.kind = "call"
  <2> DEFINE n == [m EXCEPT !.fresh = FALSE]
  <2>1. Aged(kinds, m) = n
    BY <1>2 DEF Aged, Outdated
  <2>2. /\ n \in Message /\ n.kind = m.kind /\ n.from = m.from /\ n.then = m.then
        /\ n.asked = m.asked /\ n.fresh = FALSE /\ n.answer = m.answer /\ n.copy = m.copy
        /\ n.force = m.force /\ n.of = m.of
    BY DEF Message
  <2> HIDE DEF n
  <2> QED
    BY <1>2, <2>1, <2>2 DEF Brings, Sound
<1>3. CASE m.kind \in kinds /\ m.kind # "call"
  <2> DEFINE a == IF m.answer = "none" THEN "none" ELSE "failed"
             n == [m EXCEPT !.fresh = FALSE, !.pick = FALSE, !.of = 0, !.copy = 0, !.answer = a]
  <2>1. Aged(kinds, m) = n
    BY <1>3 DEF Aged, Outdated, Message
  <2>2. a \in {"none", "failed"} /\ (m.answer = "none" => a = "none")
    OBVIOUS
  <2> HIDE DEF a
  <2>3. /\ n \in Message /\ n.kind = m.kind /\ n.from = m.from /\ n.then = m.then
        /\ n.asked = m.asked /\ n.fresh = FALSE /\ n.answer = a
    BY <2>2 DEF Message
  <2> HIDE DEF n
  <2> QED
    BY <1>3, <2>1, <2>2, <2>3 DEF Brings, Sound
<1> QED
  BY <1>1, <1>2, <1>3

LEMMA OutdateShape ==
    ASSUME NEW seq \in Seq(Message), NEW kinds
    PROVE  /\ Outdate(kinds, seq) \in Seq(Message) /\ Len(Outdate(kinds, seq)) = Len(seq)
           /\ \A j \in 1 .. Len(seq) : Outdate(kinds, seq)[j] = Aged(kinds, seq[j])
<1> DEFINE n == Len(seq)
<1>1. n \in Nat /\ DOMAIN seq = 1 .. n /\ \A j \in 1 .. n : seq[j] \in Message
  BY LenProperties, ElementOfSeq
<1>2. Outdate(kinds, seq) = [j \in 1 .. n |-> Aged(kinds, seq[j])]
  BY <1>1 DEF Outdate, Aged
<1>3. \A j \in 1 .. n : Aged(kinds, seq[j]) \in Message
  BY <1>1, AgedGives
<1>4. Outdate(kinds, seq) \in [1 .. n -> Message]
  BY <1>2, <1>3
<1> QED
  BY <1>1, <1>2, <1>4, SeqDef

\* The new job of a handler, if it has one.
Fresh == {m \in Message : m.fresh /\ ~m.asked /\ m.answer = "none"}

\* Where the messages are after a handler: aged in their place, but for the first
\* continuation if that was taken, and the new job behind them.
LEMMA QueueShape ==
    ASSUME jobs \in Seq(Message), posted \in Seq(Message),
           NEW kinds, NEW new, NEW rest, NEW d \in {0, 1},
           new = << >> \/ \E n \in Fresh : new = <<n>>,
           d = 0 => rest = posted, d = 1 => rest = Tail(posted) /\ posted # << >>,
           Queue(kinds, new, rest)
    PROVE  /\ jobs' \in Seq(Message) /\ posted' \in Seq(Message)
           /\ Len(jobs') = Len(jobs) + Len(new) /\ Len(posted') = Len(posted) - d
           /\ \A j \in 1 .. Len(jobs) : jobs'[j] = Aged(kinds, jobs[j])
           /\ \A n : new = <<n>> => jobs'[Len(jobs) + 1] = n
           /\ Len(new) \in {0, 1} /\ (Len(new) = 0 <=> new = << >>)
           /\ \A j \in 1 .. Len(posted') : posted'[j] = Aged(kinds, posted[j + d])
<1>1. /\ Outdate(kinds, jobs) \in Seq(Message) /\ Len(Outdate(kinds, jobs)) = Len(jobs)
      /\ \A j \in 1 .. Len(jobs) : Outdate(kinds, jobs)[j] = Aged(kinds, jobs[j])
  BY OutdateShape
<1>2. Len(jobs) \in Nat /\ Len(posted) \in Nat
  BY LenProperties
<1>3. /\ rest \in Seq(Message) /\ Len(rest) = Len(posted) - d
      /\ \A j \in 1 .. Len(rest) : rest[j] = posted[j + d]
  <2>1. CASE d = 0
    BY <1>2, <2>1
  <2>2. CASE d = 1
    BY <2>2, HeadTailProperties
  <2> QED
    BY <2>1, <2>2
<1>4. /\ posted' \in Seq(Message) /\ Len(posted') = Len(rest)
      /\ \A j \in 1 .. Len(rest) : posted'[j] = Aged(kinds, rest[j])
  BY <1>3, OutdateShape DEF Queue
<1>5. /\ new \in Seq(Message) /\ Len(new) \in {0, 1} /\ (Len(new) = 0 <=> new = << >>)
      /\ \A n : new = <<n>> => Len(new) = 1 /\ new[1] = n
  <2>1. CASE new = << >>
    BY <2>1
  <2>2. CASE \E n \in Fresh : new = <<n>>
    BY <2>2 DEF Fresh
  <2> QED
    BY <2>1, <2>2
<1>6. /\ jobs' \in Seq(Message) /\ Len(jobs') = Len(jobs) + Len(new)
      /\ \A j \in 1 .. Len(jobs) + Len(new) :
           jobs'[j] = IF j <= Len(jobs) THEN Outdate(kinds, jobs)[j] ELSE new[j - Len(jobs)]
  <2> DEFINE old == Outdate(kinds, jobs)
  <2>1. jobs' = old \o new
    BY DEF Queue
  <2>2. old \in Seq(Message) /\ Len(old) = Len(jobs)
    BY <1>1
  <2> HIDE DEF old
  <2>3. /\ old \o new \in Seq(Message) /\ Len(old \o new) = Len(old) + Len(new)
        /\ \A j \in 1 .. Len(old) + Len(new) :
             (old \o new)[j] = IF j <= Len(old) THEN old[j] ELSE new[j - Len(old)]
    BY <1>5, <2>2, ConcatProperties
  <2>4. /\ jobs' \in Seq(Message) /\ Len(jobs') = Len(jobs) + Len(new)
        /\ \A j \in 1 .. Len(jobs) + Len(new) :
             jobs'[j] = IF j <= Len(jobs) THEN old[j] ELSE new[j - Len(jobs)]
    BY <2>1, <2>2, <2>3
  <2> QED
    BY <2>4 DEF old
<1>7. \A j \in 1 .. Len(jobs) : jobs'[j] = Aged(kinds, jobs[j])
  BY <1>1, <1>2, <1>5, <1>6
<1>8. \A n : new = <<n>> => jobs'[Len(jobs) + 1] = n
  BY <1>2, <1>5, <1>6
<1> QED
  BY <1>3, <1>4, <1>5, <1>6, <1>7, <1>8

LEMMA WhereMessagesAre ==
    ASSUME jobs \in Seq(Message), posted \in Seq(Message)
    PROVE  /\ DOMAIN jobs = 1 .. Len(jobs) /\ DOMAIN posted = 1 .. Len(posted)
           /\ Len(jobs) \in Nat /\ Len(posted) \in Nat
           /\ \A j \in 1 .. Len(jobs) : jobs[j] \in Message /\ jobs[j] \in InFlight
           /\ \A j \in 1 .. Len(posted) : posted[j] \in Message /\ posted[j] \in InFlight
           /\ \A m \in InFlight : m \in Message
           /\ \A m \in InFlight : \/ \E j \in 1 .. Len(jobs) : m = jobs[j]
                                  \/ \E j \in 1 .. Len(posted) : m = posted[j]
<1>1. /\ DOMAIN jobs = 1 .. Len(jobs) /\ DOMAIN posted = 1 .. Len(posted)
      /\ Len(jobs) \in Nat /\ Len(posted) \in Nat
      /\ \A j \in 1 .. Len(jobs) : jobs[j] \in Message
      /\ \A j \in 1 .. Len(posted) : posted[j] \in Message
  BY LenProperties, ElementOfSeq
<1> QED
  BY <1>1 DEF InFlight, Range

\* The same, after a step.
LEMMA WhereMessagesWillBe ==
    ASSUME jobs' \in Seq(Message), posted' \in Seq(Message)
    PROVE  /\ DOMAIN jobs' = 1 .. Len(jobs') /\ DOMAIN posted' = 1 .. Len(posted')
           /\ Len(jobs') \in Nat /\ Len(posted') \in Nat
           /\ \A j \in 1 .. Len(jobs') : jobs'[j] \in Message /\ jobs'[j] \in InFlight'
           /\ \A j \in 1 .. Len(posted') : posted'[j] \in Message /\ posted'[j] \in InFlight'
           /\ \A m \in InFlight' : m \in Message
           /\ \A m \in InFlight' : \/ \E j \in 1 .. Len(jobs') : m = jobs'[j]
                                   \/ \E j \in 1 .. Len(posted') : m = posted'[j]
<1>1. /\ DOMAIN jobs' = 1 .. Len(jobs') /\ DOMAIN posted' = 1 .. Len(posted')
      /\ Len(jobs') \in Nat /\ Len(posted') \in Nat
      /\ \A j \in 1 .. Len(jobs') : jobs'[j] \in Message
      /\ \A j \in 1 .. Len(posted') : posted'[j] \in Message
  BY LenProperties, ElementOfSeq
<1> QED
  BY <1>1 DEF InFlight, Range

\* A handler's new job is the only one that leads, or none is new that does.
MayLead(kinds, new) == Generation \subseteq kinds \/ \A n : new = <<n>> => n.kind \notin Generation

\* What a handler does to the messages under way.
LEMMA QueueKeeps ==
    ASSUME MessagesOK, NEW kinds, NEW new, NEW rest, NEW d \in {0, 1},
           new = << >> \/ \E n \in Fresh : new = <<n>>,
           d = 0 => rest = posted, d = 1 => rest = Tail(posted) /\ posted # << >>,
           MayLead(kinds, new), Queue(kinds, new, rest),
           issued' \in Nat, issued <= issued'
    PROVE  /\ MessagesOK' /\ Len(jobs') = Len(jobs) + Len(new)
           /\ \A x \in InFlight' : new = <<x>> \/ \E m \in InFlight : x = Aged(kinds, m)
           /\ \A m \in InFlight :
                Aged(kinds, m) \in InFlight' \/ (d = 1 /\ m = posted[1])
           /\ \A n : new = <<n>> => n \in InFlight'
           /\ d = 1 /\ Brings(posted[1]) =>
                \A x \in InFlight' : Brings(x) => posted[1].copy < x.copy
           /\ d = 1 /\ Leads(posted[1]) =>
                \A x \in InFlight' : Leads(x) => new = <<x>>
<1> DEFINE nj == Len(jobs)
           np == Len(posted)
<1>1. /\ jobs' \in Seq(Message) /\ posted' \in Seq(Message)
      /\ Len(jobs') = nj + Len(new) /\ Len(posted') = np - d
      /\ \A j \in 1 .. nj : jobs'[j] = Aged(kinds, jobs[j])
      /\ \A n : new = <<n>> => jobs'[nj + 1] = n
      /\ Len(new) \in {0, 1} /\ (Len(new) = 0 <=> new = << >>)
      /\ \A j \in 1 .. Len(posted') : posted'[j] = Aged(kinds, posted[j + d])
  BY QueueShape DEF MessagesOK
<1>2. /\ DOMAIN jobs = 1 .. nj /\ DOMAIN posted = 1 .. np
      /\ nj \in Nat /\ np \in Nat
      /\ \A j \in 1 .. nj : jobs[j] \in Message /\ jobs[j] \in InFlight
      /\ \A j \in 1 .. np : posted[j] \in Message /\ posted[j] \in InFlight
      /\ \A m \in InFlight : m \in Message
      /\ \A m \in InFlight : \/ \E j \in 1 .. nj : m = jobs[j]
                             \/ \E j \in 1 .. np : m = posted[j]
  BY WhereMessagesAre DEF MessagesOK
<1>3. /\ DOMAIN jobs' = 1 .. Len(jobs') /\ DOMAIN posted' = 1 .. Len(posted')
      /\ \A j \in 1 .. Len(jobs') : jobs'[j] \in Message /\ jobs'[j] \in InFlight'
      /\ \A j \in 1 .. Len(posted') : posted'[j] \in Message /\ posted'[j] \in InFlight'
      /\ \A m \in InFlight' : \/ \E j \in 1 .. Len(jobs') : m = jobs'[j]
                              \/ \E j \in 1 .. Len(posted') : m = posted'[j]
  BY <1>1, WhereMessagesWillBe
<1> HIDE DEF nj, np
<1>4. \A j \in 1 .. Len(posted') : j + d \in 1 .. np
  BY <1>1, <1>2
<1>5. \A j \in 1 .. Len(jobs') :
        \/ j \in 1 .. nj
        \/ j = nj + 1 /\ \E n \in Fresh : new = <<n>> /\ jobs'[j] = n
  <2>1. ASSUME NEW j \in 1 .. Len(jobs'), j \notin 1 .. nj
        PROVE  j = nj + 1 /\ \E n \in Fresh : new = <<n>> /\ jobs'[j] = n
    <3>1. Len(new) = 1 /\ j = nj + 1
      <4>1. CASE Len(new) = 0
        BY <1>1, <1>2, <2>1, <4>1
      <4>2. CASE Len(new) = 1
        BY <1>1, <1>2, <2>1, <4>2
      <4> QED
        BY <1>1, <4>1, <4>2
    <3> QED
      BY <1>1, <3>1
  <2> QED
    BY <2>1
<1>6. \A x \in InFlight' : new = <<x>> \/ \E m \in InFlight : x = Aged(kinds, m)
  BY <1>1, <1>2, <1>3, <1>4, <1>5
<1>7. \A m \in InFlight : Aged(kinds, m) \in InFlight' \/ (d = 1 /\ m = posted[1])
  <2>1. ASSUME NEW j \in 1 .. nj PROVE Aged(kinds, jobs[j]) \in InFlight'
    <3>1. j \in 1 .. Len(jobs') /\ jobs'[j] = Aged(kinds, jobs[j])
      BY <1>1, <1>2
    <3> QED
      BY <1>3, <3>1
  <2>2. ASSUME NEW j \in 1 .. np
        PROVE  Aged(kinds, posted[j]) \in InFlight' \/ (d = 1 /\ posted[j] = posted[1])
    <3>1. CASE d = 1 /\ j = 1
      BY <3>1
    <3>2. CASE ~(d = 1 /\ j = 1)
      <4>1. j - d \in 1 .. Len(posted') /\ (j - d) + d = j
        BY <1>1, <1>2, <3>2
      <4>2. posted'[j - d] = Aged(kinds, posted[j])
        BY <1>1, <4>1
      <4> QED
        BY <1>3, <4>1, <4>2
    <3> QED
      BY <3>1, <3>2
  <2> QED
    BY <1>2, <2>1, <2>2
<1>8. \A n : new = <<n>> => n \in InFlight'
  <2>1. ASSUME NEW n, new = <<n>> PROVE n \in InFlight'
    <3>1. Len(new) = 1
      BY <2>1
    <3>2. nj + 1 \in 1 .. Len(jobs')
      BY <1>1, <1>2, <3>1
    <3> QED
      BY <1>1, <1>3, <2>1, <3>2
  <2> QED
    BY <2>1
<1>9. \A n \in Fresh : ~Brings(n) /\ ~n.asked /\ n.answer = "none"
  BY DEF Fresh, Brings
<1>10. \A x \in InFlight' : Sound(x)'
  <2>1. ASSUME NEW x \in InFlight' PROVE Sound(x)'
    <3>1. CASE new = <<x>>
      <4>1. PICK n \in Fresh : new = <<n>>
        BY <3>1
      <4>2. x = n
        BY <3>1, <4>1
      <4> QED
        BY <1>9, <4>2 DEF Sound, Fresh
    <3>2. CASE \E m \in InFlight : x = Aged(kinds, m)
      <4>1. PICK m \in InFlight : x = Aged(kinds, m)
        BY <3>2
      <4>2. Sound(x) /\ x \in Message
        BY <1>2, <4>1, AgedGives DEF MessagesOK
      <4>3. x.copy \in Nat /\ issued \in Nat
        BY <4>2 DEF Message, MessagesOK
      <4> QED
        BY <4>2, <4>3 DEF Sound
    <3> QED
      BY <1>6, <3>1, <3>2
  <2> QED
    BY <2>1
<1>11. ASSUME NEW j \in 1 .. nj
       PROVE  /\ Turn(jobs'[j]) => Turn(jobs[j])
              /\ Brings(jobs'[j]) => Brings(jobs[j]) /\ jobs'[j].copy = jobs[j].copy
              /\ Leads(jobs'[j]) => Leads(jobs[j]) /\ jobs[j].kind \notin kinds
              /\ jobs'[j].asked \/ jobs'[j].answer = "none"
  <2>1. jobs[j].asked \/ jobs[j].answer = "none"
    BY <1>2 DEF MessagesOK, TurnsTaken
  <2> QED
    BY <1>1, <1>2, <2>1, AgedGives DEF Turn, Leads
<1>12. ASSUME NEW j \in 1 .. Len(posted')
       PROVE  /\ Brings(posted'[j]) => Brings(posted[j + d]) /\ posted'[j].copy = posted[j + d].copy
              /\ Leads(posted'[j]) => Leads(posted[j + d]) /\ posted[j + d].kind \notin kinds
  <2> DEFINE m == posted[j + d]
  <2>1. m \in Message /\ posted'[j] = Aged(kinds, m)
    BY <1>1, <1>2, <1>4, <1>12
  <2> HIDE DEF m
  <2>2. /\ Brings(posted'[j]) => Brings(m) /\ posted'[j].copy = m.copy
        /\ Leads(posted'[j]) => Leads(m) /\ m.kind \notin kinds
    BY <2>1, AgedGives DEF Leads
  <2> QED
    BY <2>2 DEF m
<1>13. ASSUME NEW j \in 1 .. Len(jobs'), j \notin 1 .. nj
       PROVE  /\ j = nj + 1 /\ ~Turn(jobs'[j]) /\ ~Brings(jobs'[j])
              /\ jobs'[j].answer = "none" /\ new = <<jobs'[j]>>
  BY <1>5, <1>9, <1>13 DEF Turn
<1>14. TurnsTaken'
  <2>1. \A j \in DOMAIN jobs' : jobs'[j].asked \/ jobs'[j].answer = "none"
    BY <1>3, <1>11, <1>13
  <2>2. \A j, k \in DOMAIN jobs' : Turn(jobs'[j]) /\ Turn(jobs'[k]) => j = k
    BY <1>2, <1>3, <1>11, <1>13 DEF MessagesOK, TurnsTaken
  <2>3. ASSUME NEW i \in DOMAIN posted', NEW j \in DOMAIN posted',
               i < j, Brings(posted'[i]), Brings(posted'[j])
        PROVE  posted'[i].copy < posted'[j].copy
    <3>1. /\ Brings(posted[i + d]) /\ posted'[i].copy = posted[i + d].copy
          /\ Brings(posted[j + d]) /\ posted'[j].copy = posted[j + d].copy
      BY <1>3, <1>12, <2>3
    <3>2. i + d \in 1 .. np /\ j + d \in 1 .. np
      BY <1>3, <1>4
    <3>3. i + d < j + d
      <4>1. i \in Int /\ j \in Int /\ d \in Int
        BY <1>1, <1>3
      <4> QED
        BY <2>3, <4>1
    <3> QED
      BY <1>2, <3>1, <3>2, <3>3 DEF MessagesOK, TurnsTaken
  <2>4. ASSUME NEW i \in DOMAIN posted', NEW j \in DOMAIN jobs',
               Brings(posted'[i]), Brings(jobs'[j])
        PROVE  posted'[i].copy < jobs'[j].copy
    <3>1. j \in 1 .. nj
      BY <1>3, <1>13, <2>4
    <3>2. /\ Brings(posted[i + d]) /\ posted'[i].copy = posted[i + d].copy
          /\ Brings(jobs[j]) /\ jobs'[j].copy = jobs[j].copy
      BY <1>3, <1>11, <1>12, <2>4, <3>1
    <3>3. i + d \in 1 .. np
      BY <1>3, <1>4
    <3> QED
      BY <1>2, <3>1, <3>2, <3>3 DEF MessagesOK, TurnsTaken
  <2> QED
    BY <2>1, <2>2, <2>3, <2>4 DEF TurnsTaken, Turn, Brings
<1>15. OneLeads'
  <2>1. CASE Generation \subseteq kinds
    <3>1. \A j \in 1 .. nj : ~Leads(jobs'[j])
      BY <1>11, <2>1 DEF Leads
    <3>2. \A j \in 1 .. Len(posted') : ~Leads(posted'[j])
      BY <1>12, <2>1 DEF Leads
    <3>3. \A j \in 1 .. Len(jobs') : Leads(jobs'[j]) => j = nj + 1
      BY <1>13, <3>1
    <3> QED
      BY <1>3, <3>2, <3>3 DEF OneLeads, Leads
  <2>2. CASE \A n : new = <<n>> => n.kind \notin Generation
    <3>1. \A j \in 1 .. Len(jobs') : Leads(jobs'[j]) => j \in 1 .. nj /\ Leads(jobs[j])
      BY <1>11, <1>13, <2>2 DEF Leads
    <3>2. \A j \in 1 .. Len(posted') : Leads(posted'[j]) => j + d \in 1 .. np /\ Leads(posted[j + d])
      BY <1>4, <1>12
    <3>3. \A i, j \in DOMAIN jobs' : Leads(jobs'[i]) /\ Leads(jobs'[j]) => i = j
      BY <1>2, <1>3, <3>1 DEF MessagesOK, OneLeads
    <3>4. ASSUME NEW i \in DOMAIN posted', NEW j \in DOMAIN posted',
                 Leads(posted'[i]), Leads(posted'[j])
          PROVE  i = j
      <4>1. /\ i + d \in 1 .. np /\ Leads(posted[i + d])
            /\ j + d \in 1 .. np /\ Leads(posted[j + d])
        BY <1>3, <3>2, <3>4
      <4>2. i + d = j + d
        BY <1>2, <4>1 DEF MessagesOK, OneLeads
      <4>3. i \in Int /\ j \in Int /\ d \in Int
        BY <1>1, <1>3
      <4> QED
        BY <4>2, <4>3
    <3>5. \A i \in DOMAIN jobs', j \in DOMAIN posted' : ~(Leads(jobs'[i]) /\ Leads(posted'[j]))
      BY <1>2, <1>3, <3>1, <3>2 DEF MessagesOK, OneLeads
    <3> QED
      BY <3>3, <3>4, <3>5 DEF OneLeads, Leads
  <2> QED
    BY <2>1, <2>2 DEF MayLead
<1>16. ASSUME d = 1, Brings(posted[1]), NEW x \in InFlight', Brings(x)
       PROVE  posted[1].copy < x.copy
  <2>0. 1 \in 1 .. np
    BY <1>1, <1>2, <1>16, EmptySeq DEF np, MessagesOK
  <2>1. ASSUME NEW j \in 1 .. Len(jobs'), x = jobs'[j] PROVE posted[1].copy < x.copy
    <3>1. j \in 1 .. nj /\ Brings(jobs[j]) /\ x.copy = jobs[j].copy
      BY <1>11, <1>13, <1>16, <2>1
    <3> QED
      BY <1>2, <1>16, <2>0, <3>1 DEF MessagesOK, TurnsTaken
  <2>2. ASSUME NEW j \in 1 .. Len(posted'), x = posted'[j] PROVE posted[1].copy < x.copy
    <3>1. Brings(posted[j + 1]) /\ x.copy = posted[j + 1].copy /\ j + 1 \in 1 .. np
      BY <1>4, <1>12, <1>16, <2>2
    <3>2. 1 < j + 1
      OBVIOUS
    <3> QED
      BY <1>2, <1>16, <2>0, <3>1, <3>2 DEF MessagesOK, TurnsTaken
  <2> QED
    BY <1>3, <2>1, <2>2
<1>17. ASSUME d = 1, Leads(posted[1]), NEW x \in InFlight', Leads(x)
       PROVE  new = <<x>>
  <2>0. 1 \in 1 .. np
    BY <1>1, <1>2, <1>17, EmptySeq DEF np, MessagesOK
  <2>1. ASSUME NEW j \in 1 .. Len(jobs'), x = jobs'[j] PROVE new = <<x>>
    <3>1. CASE j \in 1 .. nj
      <4>1. Leads(jobs[j])
        BY <1>11, <1>17, <2>1, <3>1
      <4> QED
        BY <1>2, <1>17, <2>0, <3>1, <4>1 DEF MessagesOK, OneLeads
    <3>2. CASE j \notin 1 .. nj
      BY <1>13, <2>1, <3>2
    <3> QED
      BY <3>1, <3>2
  <2>2. ASSUME NEW j \in 1 .. Len(posted'), x = posted'[j] PROVE FALSE
    <3>1. Leads(posted[j + 1]) /\ j + 1 \in 1 .. np
      BY <1>4, <1>12, <1>17, <2>2
    <3>2. j + 1 = 1
      BY <1>2, <1>17, <2>0, <3>1 DEF MessagesOK, OneLeads
    <3> QED
      BY <2>2, <3>2
  <2> QED
    BY <1>3, <2>1, <2>2
<1>18. MessagesOK'
  BY <1>1, <1>10, <1>14, <1>15 DEF MessagesOK
<1> QED
  BY <1>1, <1>6, <1>7, <1>8, <1>16, <1>17, <1>18 DEF nj

-----------------------------------------------------------------------------
(* Whole handlers.                                                         *)

\* What ends with a list shown: one that is listened to, or a check that lists next.
Lists(m) == (m.kind = "list" /\ m.fresh) \/ (m.kind = "check" /\ m.then)

\* A handler that leaves the license, and may take its first continuation's copy
\* of it: what it starts has something to wait for, and so has what was started.
LEMMA HandlerKeeps ==
    ASSUME IInv, NEW kinds, NEW new, NEW rest, NEW d \in {0, 1},
           new = << >> \/ \E n \in Fresh : n.from = license /\ new = <<n>>,
           d = 0 => rest = posted, d = 1 => rest = Tail(posted) /\ posted # << >>,
           MayLead(kinds, new), Queue(kinds, new, rest),
           license' = license, issued' = issued, "call" \notin kinds,
           at' = at \/ (d = 1 /\ Brings(posted[1]) /\ at' = posted[1].copy),
           setUp' => \/ setUp /\ (d = 1 => ~(posted[1].kind = "call" /\ posted[1].fresh))
                     \/ \E n : new = <<n>> /\ n.kind = "call" /\ n.fresh,
           phase' = "Loading" => \/ phase = "Loading" /\ "list" \notin kinds /\ (d = 1 => ~Lists(posted[1]))
                                 \/ \E n : new = <<n>> /\ Lists(n)
    PROVE  /\ MessagesOK' /\ AnswersAreForTheLicense' /\ NewerUnderWay'
           /\ SetUpEnds' /\ ListEnds'
           /\ Len(jobs') = Len(jobs) + Len(new)
<1>0. /\ MessagesOK /\ issued \in Nat
      /\ new = << >> \/ \E n \in Fresh : new = <<n>>
      /\ \A m \in InFlight : m \in Message
      /\ issued' \in Nat /\ issued <= issued'
  BY WhereMessagesAre DEF IInv, MessagesOK
<1>1. /\ MessagesOK' /\ Len(jobs') = Len(jobs) + Len(new)
      /\ \A x \in InFlight' : new = <<x>> \/ \E m \in InFlight : x = Aged(kinds, m)
      /\ \A m \in InFlight : Aged(kinds, m) \in InFlight' \/ (d = 1 /\ m = posted[1])
      /\ \A n : new = <<n>> => n \in InFlight'
      /\ d = 1 /\ Brings(posted[1]) =>
           \A x \in InFlight' : Brings(x) => posted[1].copy < x.copy
  BY <1>0, QueueKeeps
<1>2. ASSUME NEW x \in InFlight', new = <<x>>
      PROVE  x \in Fresh /\ x.from = license /\ ~Brings(x)
  <2>1. PICK n \in Fresh : n.from = license /\ new = <<n>>
    BY <1>2
  <2>2. x = n
    BY <1>2, <2>1
  <2> QED
    BY <2>1, <2>2 DEF Fresh, Brings
<1>3. AnswersAreForTheLicense'
  <2>1. ASSUME NEW x \in InFlight', x.fresh PROVE x.from = license
    <3>1. CASE new = <<x>>
      BY <1>2, <3>1
    <3>2. CASE \E m \in InFlight : x = Aged(kinds, m)
      <4>1. PICK m \in InFlight : x = Aged(kinds, m)
        BY <3>2
      <4>2. m.fresh /\ x.from = m.from
        BY <1>0, <2>1, <4>1, AgedGives
      <4> QED
        BY <4>2 DEF IInv, AnswersAreForTheLicense
    <3> QED
      BY <1>1, <3>1, <3>2
  <2> QED
    BY <2>1 DEF AnswersAreForTheLicense
<1>4. NewerUnderWay'
  <2>1. ASSUME NEW x \in InFlight', Brings(x), x.from = license PROVE at' <= x.copy
    <3>1. CASE d = 1 /\ Brings(posted[1]) /\ at' = posted[1].copy
      <4>1. at' < x.copy
        BY <1>1, <2>1, <3>1
      <4>2. at' \in Nat /\ x.copy \in Nat
        <5>1. x \in Message
          BY <1>1, WhereMessagesWillBe DEF MessagesOK
        <5>2. posted[1] \in Message
          BY <1>0, <3>1, EmptySeq, ElementOfSeq, LenProperties DEF MessagesOK
        <5> QED
          BY <3>1, <5>1, <5>2 DEF Message
      <4> QED
        BY <4>1, <4>2
    <3>2. CASE at' = at
      <4>1. PICK m \in InFlight : x = Aged(kinds, m)
        BY <1>1, <1>2, <2>1
      <4>2. Brings(m) /\ x.copy = m.copy /\ x.from = m.from
        BY <1>0, <2>1, <4>1, AgedGives
      <4> QED
        BY <2>1, <3>2, <4>2 DEF IInv, NewerUnderWay
    <3> QED
      BY <3>1, <3>2
  <2> QED
    BY <2>1 DEF NewerUnderWay, Brings
<1>5. SetUpEnds'
  <2>1. ASSUME setUp' PROVE \E x \in InFlight' : x.kind = "call" /\ x.fresh
    <3>1. CASE \E n : new = <<n>> /\ n.kind = "call" /\ n.fresh
      BY <1>1, <3>1
    <3>2. CASE setUp /\ (d = 1 => ~(posted[1].kind = "call" /\ posted[1].fresh))
      <4>1. PICK m \in InFlight : m.kind = "call" /\ m.fresh
        BY <3>2 DEF IInv, SetUpEnds
      <4>2. Aged(kinds, m) = m
        BY <1>0, <4>1, AgedGives
      <4> QED
        BY <1>1, <3>2, <4>1, <4>2
    <3> QED
      BY <2>1, <3>1, <3>2
  <2> QED
    BY <2>1 DEF SetUpEnds
<1>6. ListEnds'
  <2>1. ASSUME phase' = "Loading" PROVE \E x \in InFlight' : Lists(x)
    <3>1. CASE \E n : new = <<n>> /\ Lists(n)
      BY <1>1, <3>1
    <3>2. CASE phase = "Loading" /\ "list" \notin kinds /\ (d = 1 => ~Lists(posted[1]))
      <4>1. PICK m \in InFlight : Lists(m)
        BY <3>2 DEF IInv, ListEnds, Lists
      <4>2. Lists(Aged(kinds, m))
        BY <1>0, <3>2, <4>1, AgedGives DEF Lists
      <4>3. Aged(kinds, m) \in InFlight'
        BY <1>1, <3>2, <4>1
      <4> QED
        BY <4>2, <4>3
    <3> QED
      BY <2>1, <3>1, <3>2
  <2> QED
    BY <2>1 DEF ListEnds, Lists
<1> QED
  BY <1>1, <1>3, <1>4, <1>5, <1>6

\* A license that goes, or gives way to another that nothing under way was asked
\* for: nothing is listened to any longer.
LEMMA ReplaceKeeps ==
    ASSUME IInv, NEW kinds, NEW rest, NEW d \in {0, 1}, NEW lic, NEW copy,
           d = 0 => rest = posted, d = 1 => rest = Tail(posted) /\ posted # << >>,
           Generation \subseteq kinds \/ (d = 1 /\ Leads(posted[1])),
           Replace(lic, copy, kinds, << >>, rest),
           \A m \in InFlight : m.from # lic,
           issued' \in Nat, issued <= issued'
    PROVE  /\ MessagesOK' /\ AnswersAreForTheLicense' /\ NewerUnderWay'
           /\ SetUpEnds' /\ ListEnds'
<1> DEFINE all == ResetKinds \cup kinds
           new == << >>
<1>0. /\ MessagesOK /\ \A m \in InFlight : m \in Message
      /\ Queue(all, new, rest) /\ MayLead(all, new)
      /\ \A x : new # <<x>>
  <2>1. \A x : << >> # <<x>>
    OBVIOUS
  <2> QED
    BY <2>1, WhereMessagesAre DEF IInv, MessagesOK, Replace, MayLead
<1>1. /\ MessagesOK'
      /\ \A x \in InFlight' : \E m \in InFlight : x = Aged(all, m)
      /\ d = 1 /\ Leads(posted[1]) => \A x \in InFlight' : ~Leads(x)
  <2>1. new = << >>
    OBVIOUS
  <2> HIDE DEF new, all
  <2>2. MessagesOK'
    BY <1>0, <2>1, QueueKeeps
  <2>3. \A x \in InFlight' : new = <<x>> \/ \E m \in InFlight : x = Aged(all, m)
    BY <1>0, <2>1, QueueKeeps
  <2>4. d = 1 /\ Leads(posted[1]) => \A x \in InFlight' : Leads(x) => new = <<x>>
    BY <1>0, <2>1, QueueKeeps
  <2> QED
    BY <1>0, <2>2, <2>3, <2>4
<1>2. ASSUME NEW x \in InFlight' PROVE ~x.fresh /\ x.from # lic
  <2>1. PICK m \in InFlight : x = Aged(all, m)
    BY <1>1
  <2>2. x.kind = m.kind /\ x.from = m.from /\ (x.fresh => m.fresh /\ m.kind \notin all)
    BY <1>0, <2>1, AgedGives
  <2>3. m.kind \in {"list", "call", "check", "deactivate"}
    BY <1>0 DEF Message
  <2>4. x.fresh => Leads(x) /\ ~(Generation \subseteq kinds)
    BY <2>2, <2>3 DEF Leads, Generation, ResetKinds
  <2> QED
    BY <1>1, <2>2, <2>4
<1>3. ~setUp' /\ phase' = "Idle" /\ license' = lic
  BY DEF Replace
<1> QED
  BY <1>1, <1>2, <1>3 DEF AnswersAreForTheLicense, NewerUnderWay, SetUpEnds, ListEnds

\* What is given to the pool.
LEMMA NewJobs ==
    ASSUME license \in Activations, at \in Nat
    PROVE  /\ \A pick \in BOOLEAN :
                LET n == [Job("list") EXCEPT !.pick = pick]
                IN  n \in Fresh /\ n.from = license /\ n.kind = "list" /\ Lists(n)
           /\ LET n == Job("list")
              IN  n \in Fresh /\ n.from = license /\ n.kind = "list" /\ Lists(n)
           /\ LET n == Job("call")
              IN  n \in Fresh /\ n.from = license /\ n.kind = "call" /\ n.fresh
           /\ LET n == Job("deactivate")
              IN  n \in Fresh /\ n.from = license /\ n.kind = "deactivate"
           /\ LET n == Job("check")
              IN  n \in Fresh /\ n.from = license /\ n.kind = "check"
           /\ LET n == [Job("check") EXCEPT !.then = TRUE]
              IN  n \in Fresh /\ n.from = license /\ n.kind = "check" /\ Lists(n)
           /\ \A force \in BOOLEAN :
                LET n == [Job("check") EXCEPT !.force = force, !.of = IF force THEN 0 ELSE at]
                IN  n \in Fresh /\ n.from = license /\ n.kind = "check"
  BY DEF Job, Fresh, Message, Lists

-----------------------------------------------------------------------------
(* The user and the host.                                                  *)

\* A step that neither gives the pool a job nor takes a continuation.
Outside == Buy \/ SwitchApps \/ HourPasses

LEMMA OutsideKeeps ==
    ASSUME IInv, Outside
    PROVE  IInv'
<1>1. /\ UNCHANGED <<license, at, phase, setUp, busy, activating, jobs, posted, issued>>
      /\ purchase' \in Purchases
  BY DEF Outside, Buy, SwitchApps, HourPasses, Purchases, addOns, held, messages
<1>2. InFlight' = InFlight
  BY <1>1 DEF InFlight
<1>3. MessagesOK'
  <2>1. TurnsTaken'
    BY <1>1 DEF IInv, MessagesOK, TurnsTaken, Turn, Brings
  <2>2. OneLeads'
    BY <1>1 DEF IInv, MessagesOK, OneLeads, Leads
  <2>3. \A m \in InFlight' : Sound(m)'
    BY <1>1, <1>2 DEF IInv, MessagesOK, Sound
  <2> QED
    BY <1>1, <2>1, <2>2, <2>3 DEF IInv, MessagesOK
<1>4. StateOK'
  BY <1>1 DEF IInv, StateOK
<1>5. AnswersAreForTheLicense' /\ NewerUnderWay'
  BY <1>1, <1>2 DEF IInv, AnswersAreForTheLicense, NewerUnderWay
<1>6. SetUpEnds' /\ ListEnds'
  BY <1>1, <1>2 DEF IInv, SetUpEnds, ListEnds
<1> QED
  BY <1>3, <1>4, <1>5, <1>6 DEF IInv

LEMMA LoadAddOnsKeeps ==
    ASSUME IInv, LoadAddOns
    PROVE  IInv'
<1> DEFINE n == [Job("list") EXCEPT !.pick = TRUE]
<1>1. /\ license \in Activations /\ license # NoLicense /\ at \in Nat /\ phase' = "Loading"
      /\ UNCHANGED <<license, at, setUp, busy, activating, purchase, issued>>
      /\ Queue({"list"}, <<n>>, posted)
  BY DEF IInv, StateOK, LoadAddOns, ListAddOns, held
<1>2. n \in Fresh /\ n.from = license /\ n.kind = "list" /\ Lists(n)
  BY <1>1, NewJobs
<1> HIDE DEF n
<1>3. /\ MessagesOK' /\ AnswersAreForTheLicense' /\ NewerUnderWay'
      /\ SetUpEnds' /\ ListEnds'
  <2>1. MayLead({"list"}, <<n>>)
    BY <1>2 DEF MayLead, Generation
  <2>2. "call" \notin {"list"}
    OBVIOUS
  <2> QED
    BY <1>1, <1>2, <2>1, <2>2, HandlerKeeps
<1>4. StateOK'
  BY <1>1 DEF IInv, StateOK
<1> QED
  BY <1>3, <1>4 DEF IInv

\* refreshAndListAddOns, however it answers: with the list that comes next, if
\* there is a license and no deactivation.
LEMMA RefreshAndListGives ==
    ASSUME IInv, NEW rest, NEW d \in {0, 1},
           d = 0 => rest = posted, d = 1 => rest = Tail(posted) /\ posted # << >>,
           license # NoLicense, ~busy \/ d = 0,
           RefreshAndList(rest), UNCHANGED <<license, at, setUp, issued>>,
           d = 1 => posted[1].kind = "list"
    PROVE  /\ MessagesOK' /\ AnswersAreForTheLicense' /\ NewerUnderWay'
           /\ SetUpEnds' /\ ListEnds'
           /\ busy => phase' = phase
           /\ ~busy => phase' = "Loading" /\ Len(jobs') = Len(jobs) + 1
<1>1. license \in Activations /\ at \in Nat /\ busy \in BOOLEAN
  BY DEF IInv, StateOK
<1>2. CASE busy
  <2> DEFINE new == << >>
  <2>1. UNCHANGED phase /\ Queue({}, new, rest) /\ d = 0
    BY <1>2 DEF RefreshAndList
  <2>2. \A x : new # <<x>>
    OBVIOUS
  <2>3. MayLead({}, new)
    BY <2>2 DEF MayLead
  <2>4. new = << >> /\ "call" \notin {} /\ "list" \notin {}
    OBVIOUS
  <2> HIDE DEF new
  <2>5. /\ MessagesOK' /\ AnswersAreForTheLicense' /\ NewerUnderWay'
        /\ SetUpEnds' /\ ListEnds'
    BY <2>1, <2>3, <2>4, HandlerKeeps
  <2> QED
    BY <1>2, <2>1, <2>5
<1>3. CASE ~busy /\ ~CanCheck
  <2> DEFINE n == [Job("list") EXCEPT !.pick = FALSE]
  <2>1. phase' = "Loading" /\ Queue({"list"}, <<n>>, rest)
    BY <1>3 DEF RefreshAndList, ListAddOns
  <2>2. n \in Fresh /\ n.from = license /\ n.kind = "list" /\ Lists(n)
    BY <1>1, NewJobs
  <2> HIDE DEF n
  <2>3. MayLead({"list"}, <<n>>)
    BY <2>2 DEF MayLead, Generation
  <2>4. "call" \notin {"list"} /\ Len(<<n>>) = 1
    OBVIOUS
  <2>5. /\ MessagesOK' /\ AnswersAreForTheLicense' /\ NewerUnderWay'
        /\ SetUpEnds' /\ ListEnds' /\ Len(jobs') = Len(jobs) + Len(<<n>>)
    BY <2>1, <2>2, <2>3, <2>4, HandlerKeeps
  <2> QED
    BY <1>3, <2>1, <2>4, <2>5
<1>4. CASE ~busy /\ CanCheck
  <2> DEFINE n == [Job("check") EXCEPT !.then = TRUE]
  <2>1. phase' = "Loading" /\ Queue(Generation, <<n>>, rest)
    BY <1>4 DEF RefreshAndList
  <2>2. n \in Fresh /\ n.from = license /\ n.kind = "check" /\ Lists(n)
    BY <1>1, NewJobs
  <2> HIDE DEF n
  <2>3. MayLead(Generation, <<n>>)
    BY DEF MayLead
  <2>4. "call" \notin Generation /\ Len(<<n>>) = 1
    BY DEF Generation
  <2>5. /\ MessagesOK' /\ AnswersAreForTheLicense' /\ NewerUnderWay'
        /\ SetUpEnds' /\ ListEnds' /\ Len(jobs') = Len(jobs) + Len(<<n>>)
    BY <2>1, <2>2, <2>3, <2>4, HandlerKeeps
  <2> QED
    BY <1>4, <2>1, <2>4, <2>5
<1> QED
  BY <1>1, <1>2, <1>3, <1>4

LEMMA RefreshAddOnsKeeps ==
    ASSUME IInv, RefreshAddOns
    PROVE  IInv'
<1>1. /\ license # NoLicense /\ RefreshAndList(posted)
      /\ UNCHANGED <<license, at, setUp, busy, activating, purchase, issued>>
  BY DEF RefreshAddOns, held
<1>2. /\ MessagesOK' /\ AnswersAreForTheLicense' /\ NewerUnderWay'
      /\ SetUpEnds' /\ ListEnds'
      /\ busy => phase' = phase
      /\ ~busy => phase' = "Loading" /\ Len(jobs') = Len(jobs) + 1
  <2>1. 0 \in {0, 1} /\ 0 # 1
    OBVIOUS
  <2> QED
    BY <1>1, <2>1, RefreshAndListGives
<1>3. StateOK'
  BY <1>1, <1>2 DEF IInv, StateOK
<1> QED
  BY <1>2, <1>3 DEF IInv

LEMMA SetUpAddOnKeeps ==
    ASSUME IInv, SetUpAddOn
    PROVE  IInv'
<1> DEFINE n == Job("call")
<1>1. /\ license \in Activations /\ license # NoLicense /\ at \in Nat /\ setUp' = TRUE
      /\ UNCHANGED <<license, at, phase, busy, activating, purchase, issued>>
      /\ Queue({}, <<n>>, posted)
  BY DEF IInv, StateOK, SetUpAddOn, held
<1>2. n \in Fresh /\ n.from = license /\ n.kind = "call" /\ n.fresh
  BY <1>1, NewJobs
<1> HIDE DEF n
<1>3. /\ MessagesOK' /\ AnswersAreForTheLicense' /\ NewerUnderWay'
      /\ SetUpEnds' /\ ListEnds'
  <2>1. MayLead({}, <<n>>)
    BY <1>2 DEF MayLead, Generation
  <2>2. "call" \notin {} /\ "list" \notin {}
    OBVIOUS
  <2> QED
    BY <1>1, <1>2, <2>1, <2>2, HandlerKeeps
<1>4. StateOK'
  BY <1>1 DEF IInv, StateOK
<1> QED
  BY <1>3, <1>4 DEF IInv

LEMMA CheckPurchaseReturnKeeps ==
    ASSUME IInv, CheckPurchaseReturn
    PROVE  /\ IInv'
           /\ purchase # "none" /\ purchase' = "none" =>
                \/ purchase = "old"
                \/ phase' = "Loading" /\ Len(jobs') = Len(jobs) + 1
<1>1. UNCHANGED <<license, at, setUp, busy, activating, issued>>
  BY DEF CheckPurchaseReturn, held
<1>2. CASE UNCHANGED <<phase, messages>> /\ purchase' \in Purchases
           /\ (purchase' = "none" => purchase = "old")
  <2>1. UNCHANGED <<license, at, phase, setUp, busy, activating, jobs, posted, issued>>
    BY <1>1, <1>2 DEF messages
  <2>2. InFlight' = InFlight
    BY <2>1 DEF InFlight
  <2>3. MessagesOK'
    <3>1. TurnsTaken'
      BY <2>1 DEF IInv, MessagesOK, TurnsTaken, Turn, Brings
    <3>2. OneLeads'
      BY <2>1 DEF IInv, MessagesOK, OneLeads, Leads
    <3>3. \A m \in InFlight' : Sound(m)'
      BY <2>1, <2>2 DEF IInv, MessagesOK, Sound
    <3> QED
      BY <2>1, <3>1, <3>2, <3>3 DEF IInv, MessagesOK
  <2>4. StateOK'
    BY <1>2, <2>1 DEF IInv, StateOK
  <2>5. AnswersAreForTheLicense' /\ NewerUnderWay' /\ SetUpEnds' /\ ListEnds'
    BY <2>1, <2>2 DEF IInv, AnswersAreForTheLicense, NewerUnderWay, SetUpEnds, ListEnds
  <2> QED
    BY <1>2, <2>3, <2>4, <2>5 DEF IInv
<1>3. CASE Back /\ purchase' = "none" /\ RefreshAndList(posted)
  <2>1. license # NoLicense /\ ~busy
    BY <1>3 DEF Back
  <2>2. /\ MessagesOK' /\ AnswersAreForTheLicense' /\ NewerUnderWay'
        /\ SetUpEnds' /\ ListEnds'
        /\ phase' = "Loading" /\ Len(jobs') = Len(jobs) + 1
    <3>1. 0 \in {0, 1} /\ 0 # 1
      OBVIOUS
    <3> QED
      BY <1>1, <1>3, <2>1, <3>1, RefreshAndListGives
  <2>3. StateOK'
    BY <1>1, <1>3, <2>1, <2>2 DEF IInv, StateOK, Purchases
  <2> QED
    BY <2>2, <2>3 DEF IInv
<1> QED
  BY <1>2, <1>3 DEF CheckPurchaseReturn, Purchases

-----------------------------------------------------------------------------
(* Continuations.                                                          *)

\* The first continuation is a message under way.
LEMMA FirstIsUnderWay ==
    ASSUME IInv, posted # << >>
    PROVE  /\ posted[1] \in Message /\ posted[1] \in InFlight /\ Sound(posted[1])
           /\ posted[1].from \in Activations
<1>1. Len(posted) >= 1
  BY EmptySeq, LenProperties DEF IInv, MessagesOK
<1>2. posted[1] \in Message /\ posted[1] \in InFlight
  BY <1>1, WhereMessagesAre DEF IInv, MessagesOK
<1> QED
  BY <1>2 DEF IInv, MessagesOK, Message

\* refreshLicense without a callback starts a check or does nothing.
LEMMA RecheckKeeps ==
    ASSUME IInv, posted # << >>, Recheck(Tail(posted)),
           license' = license, issued' = issued, at' = at,
           setUp' => setUp /\ ~(posted[1].kind = "call" /\ posted[1].fresh),
           phase' = "Loading" => phase = "Loading" /\ ~Lists(posted[1])
    PROVE  /\ MessagesOK' /\ AnswersAreForTheLicense' /\ NewerUnderWay'
           /\ SetUpEnds' /\ ListEnds'
<1>0. 1 \in {0, 1} /\ 1 # 0
  OBVIOUS
<1>1. CASE CanCheck
  <2> DEFINE n == Job("check")
  <2>1. license \in Activations /\ at \in Nat /\ Queue(Generation, <<n>>, Tail(posted))
    BY <1>1 DEF IInv, StateOK, CanCheck, Recheck
  <2>2. n \in Fresh /\ n.from = license /\ n.kind = "check"
    BY <2>1, NewJobs
  <2> HIDE DEF n
  <2>3. MayLead(Generation, <<n>>) /\ "call" \notin Generation /\ "list" \notin Generation
    BY DEF MayLead, Generation
  <2> QED
    BY <1>0, <2>1, <2>2, <2>3, HandlerKeeps
<1>2. CASE ~CanCheck
  <2> DEFINE new == << >>
  <2>1. Queue({}, new, Tail(posted))
    BY <1>2 DEF Recheck
  <2>2. new = << >> /\ (\A x : new # <<x>>)
    OBVIOUS
  <2>3. MayLead({}, new) /\ "call" \notin {} /\ "list" \notin {}
    BY <2>2 DEF MayLead
  <2> HIDE DEF new
  <2> QED
    BY <1>0, <2>1, <2>2, <2>3, HandlerKeeps
<1> QED
  BY <1>1, <1>2

\* A continuation that starts nothing.
LEMMA TakenKeeps ==
    ASSUME IInv, posted # << >>, Queue({}, << >>, Tail(posted)),
           license' = license, issued' = issued,
           at' = at \/ (Brings(posted[1]) /\ at' = posted[1].copy),
           setUp' => setUp /\ ~(posted[1].kind = "call" /\ posted[1].fresh),
           phase' = "Loading" => phase = "Loading" /\ ~Lists(posted[1])
    PROVE  /\ MessagesOK' /\ AnswersAreForTheLicense' /\ NewerUnderWay'
           /\ SetUpEnds' /\ ListEnds'
<1>0. 1 \in {0, 1} /\ 1 # 0
  OBVIOUS
<1> DEFINE new == << >>
<1>1. Queue({}, new, Tail(posted)) /\ new = << >> /\ (\A x : new # <<x>>)
  OBVIOUS
<1>2. MayLead({}, new) /\ "call" \notin {} /\ "list" \notin {}
  BY <1>1 DEF MayLead
<1> HIDE DEF new
<1> QED
  BY <1>0, <1>1, <1>2, HandlerKeeps

\* A continuation that asks for the list of what is held.
LEMMA ListedAgainKeeps ==
    ASSUME IInv, posted # << >>, NEW n \in Fresh, n.from = license, n.kind = "list", Lists(n),
           Queue({"list"}, <<n>>, Tail(posted)),
           license' = license, issued' = issued,
           at' = at \/ (Brings(posted[1]) /\ at' = posted[1].copy),
           setUp' => setUp /\ ~(posted[1].kind = "call" /\ posted[1].fresh)
    PROVE  /\ MessagesOK' /\ AnswersAreForTheLicense' /\ NewerUnderWay'
           /\ SetUpEnds' /\ ListEnds'
<1>1. 1 \in {0, 1} /\ 1 # 0
  OBVIOUS
<1>2. MayLead({"list"}, <<n>>) /\ "call" \notin {"list"}
  BY DEF MayLead, Generation
<1> QED
  BY <1>1, <1>2, HandlerKeeps

LEMMA CallLandedKeeps ==
    ASSUME IInv, CallLanded
    PROVE  IInv' /\ license' = license /\ at' >= at
<1> DEFINE m == posted[1]
           granted == m.answer = "granted" /\ license = m.from
<1>1. /\ posted # << >> /\ m.kind = "call"
      /\ UNCHANGED <<license, busy, activating, purchase, issued>>
      /\ setUp' = (setUp /\ ~m.fresh)
      /\ at' = IF granted THEN m.copy ELSE at
  BY DEF CallLanded, First
<1>2. /\ m \in Message /\ m \in InFlight /\ Sound(m) /\ m.from \in Activations
  BY <1>1, FirstIsUnderWay
<1>3. ~Lists(m) /\ (Brings(m) <=> m.answer = "granted")
  BY <1>1 DEF Lists, Brings
<1>4. at' = at \/ (Brings(m) /\ at' = m.copy)
  BY <1>1, <1>3
<1>5. at' \in Nat /\ at' <= issued' /\ at' >= at
  <2>1. at \in Nat /\ issued \in Nat /\ at <= issued /\ m.copy \in Nat
    BY <1>2 DEF IInv, StateOK, MessagesOK, Message
  <2>2. granted => at <= m.copy /\ m.copy <= issued
    BY <1>2, <1>3 DEF IInv, NewerUnderWay, Sound
  <2> QED
    BY <1>1, <2>1, <2>2
<1>6. setUp' => setUp /\ ~(m.kind = "call" /\ m.fresh)
  BY <1>1
<1>7. CASE granted /\ phase # "Idle" /\ phase' = "Loading" /\ Queue({"list"}, <<Job("list")>>, Tail(posted))
  <2>1. license \in Activations
    BY <1>2, <1>7
  <2> DEFINE n == Job("list")
  <2>2. n \in Fresh /\ n.from = license /\ n.kind = "list" /\ Lists(n)
    BY <2>1, NewJobs DEF IInv, StateOK
  <2> HIDE DEF n
  <2>3. /\ MessagesOK' /\ AnswersAreForTheLicense' /\ NewerUnderWay'
        /\ SetUpEnds' /\ ListEnds'
    <3>1. Queue({"list"}, <<n>>, Tail(posted))
      BY <1>7 DEF n
    <3> QED
      BY <1>1, <1>4, <1>6, <2>2, <3>1, ListedAgainKeeps
  <2>4. license \in Activations /\ license # NoLicense
    BY <1>2, <1>7, AddOnsAssumption
  <2>5. StateOK'
    BY <1>1, <1>5, <1>7, <2>4 DEF IInv, StateOK
  <2> QED
    BY <1>1, <1>5, <2>3, <2>5 DEF IInv
<1>8. CASE m.answer = "refused" /\ UNCHANGED phase /\ Recheck(Tail(posted))
  <2>1. at' = at
    BY <1>1, <1>8
  <2>2. /\ MessagesOK' /\ AnswersAreForTheLicense' /\ NewerUnderWay'
        /\ SetUpEnds' /\ ListEnds'
    BY <1>1, <1>3, <1>6, <1>8, <2>1, RecheckKeeps
  <2>3. StateOK'
    BY <1>1, <1>5, <1>8 DEF IInv, StateOK
  <2> QED
    BY <1>1, <1>5, <2>2, <2>3 DEF IInv
<1>9. CASE UNCHANGED phase /\ Queue({}, << >>, Tail(posted))
  <2>1. /\ MessagesOK' /\ AnswersAreForTheLicense' /\ NewerUnderWay'
        /\ SetUpEnds' /\ ListEnds'
    BY <1>1, <1>3, <1>4, <1>6, <1>9, TakenKeeps
  <2>2. StateOK'
    BY <1>1, <1>5, <1>9 DEF IInv, StateOK
  <2> QED
    BY <1>1, <1>5, <2>1, <2>2 DEF IInv
<1> QED
  BY <1>7, <1>8, <1>9 DEF CallLanded

LEMMA ListedKeeps ==
    ASSUME IInv, Listed
    PROVE  IInv' /\ UNCHANGED <<license, at, purchase>>
<1> DEFINE m == posted[1]
<1>1. /\ posted # << >> /\ m.kind = "list"
      /\ UNCHANGED <<license, at, setUp, busy, activating, purchase, issued>>
  BY DEF Listed, First, held
<1>2. /\ m \in Message /\ m \in InFlight /\ m.from \in Activations
      /\ setUp' => setUp /\ ~(m.kind = "call" /\ m.fresh)
  BY <1>1, FirstIsUnderWay
<1>3. m.fresh => license \in Activations /\ license # NoLicense
  BY <1>2, AddOnsAssumption DEF IInv, AnswersAreForTheLicense
<1>4. ASSUME phase' = "Ready", Queue({}, << >>, Tail(posted))
      PROVE  MessagesOK' /\ AnswersAreForTheLicense' /\ NewerUnderWay' /\ SetUpEnds' /\ ListEnds'
  BY <1>1, <1>2, <1>4, TakenKeeps
<1>5. CASE ~m.fresh /\ UNCHANGED phase /\ Queue({}, << >>, Tail(posted))
  <2>1. ~Lists(m)
    BY <1>1, <1>5 DEF Lists
  <2>2. /\ MessagesOK' /\ AnswersAreForTheLicense' /\ NewerUnderWay'
        /\ SetUpEnds' /\ ListEnds'
    BY <1>1, <1>2, <1>5, <2>1, TakenKeeps
  <2>3. StateOK'
    BY <1>1, <1>5 DEF IInv, StateOK
  <2> QED
    BY <1>1, <2>2, <2>3 DEF IInv
<1>6. CASE m.fresh /\ phase' = "Ready" /\ Recheck(Tail(posted))
  <2>1. /\ MessagesOK' /\ AnswersAreForTheLicense' /\ NewerUnderWay'
        /\ SetUpEnds' /\ ListEnds'
    BY <1>1, <1>2, <1>6, RecheckKeeps
  <2>2. StateOK'
    BY <1>1, <1>3, <1>6 DEF IInv, StateOK
  <2> QED
    BY <1>1, <2>1, <2>2 DEF IInv
<1>7. CASE m.fresh /\ CanCheck /\ RefreshAndList(Tail(posted))
  <2>1. 1 \in {0, 1} /\ 1 # 0 /\ ~busy
    BY <1>7 DEF CanCheck
  <2>2. /\ MessagesOK' /\ AnswersAreForTheLicense' /\ NewerUnderWay'
        /\ SetUpEnds' /\ ListEnds' /\ phase' = "Loading"
    BY <1>1, <1>3, <1>7, <2>1, RefreshAndListGives
  <2>3. StateOK'
    BY <1>1, <1>3, <1>7, <2>2 DEF IInv, StateOK
  <2> QED
    BY <1>1, <2>2, <2>3 DEF IInv
<1>8. CASE m.fresh /\ phase' = "Ready" /\ Queue({}, << >>, Tail(posted))
  <2>1. StateOK'
    BY <1>1, <1>3, <1>8 DEF IInv, StateOK
  <2> QED
    BY <1>1, <1>4, <1>8, <2>1 DEF IInv
<1>9. CASE m.fresh /\ ListAddOns(FALSE, Tail(posted))
  <2> DEFINE n == [Job("list") EXCEPT !.pick = FALSE]
  <2>1. phase' = "Loading" /\ Queue({"list"}, <<n>>, Tail(posted))
    BY <1>9 DEF ListAddOns
  <2>0. n \in Fresh /\ n.from = license /\ n.kind = "list" /\ Lists(n)
    BY <1>3, <1>9, NewJobs DEF IInv, StateOK
  <2> HIDE DEF n
  <2>2. /\ MessagesOK' /\ AnswersAreForTheLicense' /\ NewerUnderWay'
        /\ SetUpEnds' /\ ListEnds'
    BY <1>1, <1>2, <2>0, <2>1, ListedAgainKeeps
  <2>3. StateOK'
    BY <1>1, <1>3, <1>9, <2>1 DEF IInv, StateOK
  <2> QED
    BY <1>1, <2>2, <2>3 DEF IInv
<1> QED
  BY <1>5, <1>6, <1>7, <1>8, <1>9 DEF Listed

\* Without a license there is nothing of it left.
LEMMA Emptied ==
    ASSUME license' = NoLicense, at' = 0, phase' = "Idle", setUp' = FALSE, purchase' = "none",
           issued' \in Nat, busy' \in BOOLEAN, activating' \in BOOLEAN
    PROVE  StateOK'
<1>1. license' \in Activations \cup {NoLicense}
  OBVIOUS
<1>2. at' \in Nat /\ at' <= issued'
  OBVIOUS
<1>3. phase' \in {"Idle", "Loading", "Ready"} /\ purchase' \in Purchases
  BY DEF Purchases
<1>4. setUp' \in BOOLEAN /\ (license' = NoLicense => phase' = "Idle" /\ ~setUp')
  OBVIOUS
<1> QED
  BY <1>1, <1>2, <1>3, <1>4 DEF StateOK

LEMMA RecheckLandedKeeps ==
    ASSUME IInv, RecheckLanded
    PROVE  /\ IInv' /\ (license' = license => at' >= at)
           /\ license' = license => purchase' = purchase
<1> DEFINE m == posted[1]
           applies == m.fresh /\ m.answer \in {"granted", "same"} /\ ~Older(m)
<1>1. posted # << >> /\ m.kind = "check" /\ UNCHANGED <<busy, activating, issued>>
  BY DEF RecheckLanded, First
<1>2. /\ m \in Message /\ m \in InFlight /\ Sound(m) /\ m.from \in Activations
  BY <1>1, FirstIsUnderWay
<1>3. m.fresh => license = m.from /\ license \in Activations /\ license # NoLicense
  BY <1>2, AddOnsAssumption DEF IInv, AnswersAreForTheLicense
<1>4. CASE m.fresh /\ m.answer = "refused"
  <2>1. Replace(NoLicense, 0, {}, << >>, Tail(posted))
    BY <1>4 DEF RecheckLanded
  <2>2. Leads(m) /\ 1 \in {0, 1} /\ 1 # 0
    BY <1>1, <1>4 DEF Leads, Generation
  <2>3. \A x \in InFlight : x.from # NoLicense
    BY WhereMessagesAre, AddOnsAssumption DEF IInv, MessagesOK, Message
  <2>4. issued' \in Nat /\ issued <= issued'
    BY <1>1 DEF IInv, MessagesOK
  <2>5. /\ MessagesOK' /\ AnswersAreForTheLicense' /\ NewerUnderWay'
        /\ SetUpEnds' /\ ListEnds'
    BY <1>1, <2>1, <2>2, <2>3, <2>4, ReplaceKeeps
  <2>6. license' = NoLicense /\ at' = 0 /\ phase' = "Idle" /\ setUp' = FALSE /\ purchase' = "none"
    BY <2>1 DEF Replace
  <2>7. StateOK'
    BY <1>1, <2>4, <2>6, Emptied DEF IInv, StateOK
  <2> QED
    BY <1>3, <1>4, <2>5, <2>6, <2>7 DEF IInv
<1>5. CASE ~(m.fresh /\ m.answer = "refused")
  <2>1. /\ at' = IF applies THEN m.copy ELSE at
        /\ UNCHANGED <<license, setUp, purchase>>
    BY <1>5 DEF RecheckLanded
  <2>2. at' = at \/ (Brings(m) /\ at' = m.copy)
    <3>1. CASE applies /\ m.answer = "same"
      BY <1>1, <1>2, <2>1, <3>1 DEF Sound, Older
    <3>2. CASE applies /\ m.answer = "granted"
      BY <1>1, <2>1, <3>2 DEF Brings
    <3>3. CASE ~applies
      BY <2>1, <3>3
    <3> QED
      BY <3>1, <3>2, <3>3
  <2>3. at' \in Nat /\ at' <= issued' /\ at' >= at
    <3>1. at \in Nat /\ issued \in Nat /\ at <= issued /\ m.copy \in Nat
      BY <1>2 DEF IInv, StateOK, MessagesOK, Message
    <3>2. CASE at' = at
      BY <1>1, <3>1, <3>2
    <3>3. CASE at' # at
      <4>1. applies /\ Brings(m) /\ at' = m.copy
        BY <2>1, <2>2, <3>3
      <4>2. at <= m.copy /\ m.copy <= issued
        BY <1>2, <1>3, <4>1 DEF IInv, NewerUnderWay, Sound
      <4> QED
        BY <1>1, <3>1, <4>1, <4>2
    <3> QED
      BY <3>2, <3>3
  <2>4. setUp' => setUp /\ ~(m.kind = "call" /\ m.fresh)
    BY <1>1, <2>1
  <2>5. CASE CallsBack(m)
    <3>1. phase' = "Loading" /\ Queue({"list"}, <<Job("list")>>, Tail(posted))
      BY <1>5, <2>5 DEF RecheckLanded
    <3>2. license \in Activations /\ license # NoLicense
      BY <2>5 DEF CallsBack, IInv, StateOK
    <3> DEFINE n == Job("list")
    <3>3. n \in Fresh /\ n.from = license /\ n.kind = "list" /\ Lists(n)
      BY <3>2, NewJobs DEF IInv, StateOK
    <3> HIDE DEF n
    <3>4. /\ MessagesOK' /\ AnswersAreForTheLicense' /\ NewerUnderWay'
          /\ SetUpEnds' /\ ListEnds'
      <4>1. Queue({"list"}, <<n>>, Tail(posted))
        BY <3>1 DEF n
      <4> QED
        BY <1>1, <2>1, <2>2, <2>4, <3>3, <4>1, ListedAgainKeeps
    <3>5. StateOK'
      BY <1>1, <2>1, <2>3, <3>1, <3>2 DEF IInv, StateOK
    <3> QED
      BY <2>1, <2>3, <3>4, <3>5 DEF IInv
  <2>6. CASE ~CallsBack(m)
    <3>1. UNCHANGED phase /\ Queue({}, << >>, Tail(posted))
      BY <1>5, <2>6 DEF RecheckLanded
    <3>2. phase' = "Loading" => phase = "Loading" /\ ~Lists(m)
      BY <1>1, <2>6, <3>1 DEF IInv, StateOK, CallsBack, Lists
    <3>3. /\ MessagesOK' /\ AnswersAreForTheLicense' /\ NewerUnderWay'
          /\ SetUpEnds' /\ ListEnds'
      BY <1>1, <2>1, <2>2, <2>4, <3>1, <3>2, TakenKeeps
    <3>4. StateOK'
      BY <1>1, <2>1, <2>3, <3>1 DEF IInv, StateOK
    <3> QED
      BY <2>1, <2>3, <3>3, <3>4 DEF IInv
  <2> QED
    BY <2>5, <2>6
<1> QED
  BY <1>4, <1>5

LEMMA DeactivateLandedKeeps ==
    ASSUME IInv, DeactivateLanded
    PROVE  IInv' /\ (license' = license => UNCHANGED <<at, purchase>>)
<1> DEFINE m == posted[1]
<1>1. posted # << >> /\ m.kind = "deactivate" /\ UNCHANGED <<activating, issued>>
  BY DEF DeactivateLanded, First
<1>2. /\ m \in Message /\ m \in InFlight /\ m.from \in Activations
  BY <1>1, FirstIsUnderWay
<1>3. m.fresh => license \in Activations /\ license # NoLicense
  BY <1>2, AddOnsAssumption DEF IInv, AnswersAreForTheLicense
<1>4. CASE m.fresh /\ m.answer = "granted"
  <2>1. Replace(NoLicense, 0, {}, << >>, Tail(posted)) /\ busy' = FALSE
    BY <1>4 DEF DeactivateLanded
  <2>2. Leads(m) /\ 1 \in {0, 1} /\ 1 # 0
    BY <1>1, <1>4 DEF Leads, Generation
  <2>3. \A x \in InFlight : x.from # NoLicense
    BY WhereMessagesAre, AddOnsAssumption DEF IInv, MessagesOK, Message
  <2>4. issued' \in Nat /\ issued <= issued'
    BY <1>1 DEF IInv, MessagesOK
  <2>5. /\ MessagesOK' /\ AnswersAreForTheLicense' /\ NewerUnderWay'
        /\ SetUpEnds' /\ ListEnds'
    BY <1>1, <2>1, <2>2, <2>3, <2>4, ReplaceKeeps
  <2>6. license' = NoLicense /\ at' = 0 /\ phase' = "Idle" /\ setUp' = FALSE /\ purchase' = "none"
    BY <2>1 DEF Replace
  <2>7. StateOK'
    BY <1>1, <2>1, <2>4, <2>6, Emptied DEF IInv, StateOK
  <2> QED
    BY <1>3, <1>4, <2>5, <2>6, <2>7 DEF IInv
<1>5. CASE ~(m.fresh /\ m.answer = "granted")
  <2>1. /\ UNCHANGED <<license, at, phase, setUp, purchase>> /\ busy' \in BOOLEAN
        /\ Queue({}, << >>, Tail(posted))
    BY <1>5 DEF DeactivateLanded, held, addOns, IInv, StateOK
  <2>2. /\ MessagesOK' /\ AnswersAreForTheLicense' /\ NewerUnderWay'
        /\ SetUpEnds' /\ ListEnds'
    <3>1. ~Lists(m)
      BY <1>1 DEF Lists
    <3> QED
      BY <1>1, <2>1, <3>1, TakenKeeps
  <2>3. StateOK'
    BY <1>1, <2>1 DEF IInv, StateOK
  <2> QED
    BY <2>1, <2>2, <2>3 DEF IInv
<1> QED
  BY <1>4, <1>5

-----------------------------------------------------------------------------
(* Jobs.                                                                   *)

LEMMA RemoveAtShape ==
    ASSUME NEW S, NEW s \in Seq(S), NEW i \in 1 .. Len(s)
    PROVE  /\ RemoveAt(s, i) \in Seq(S) /\ Len(RemoveAt(s, i)) = Len(s) - 1
           /\ \A j \in 1 .. Len(s) - 1 :
                RemoveAt(s, i)[j] = s[IF j < i THEN j ELSE j + 1]
<1> DEFINE n == Len(s)
           front == SubSeq(s, 1, i - 1)
           back == SubSeq(s, i + 1, n)
<1>1. n \in Nat /\ i \in 1 .. n /\ \A j \in 1 .. n : s[j] \in S
  BY LenProperties, ElementOfSeq
<1>2. /\ front \in Seq(S) /\ Len(front) = i - 1
      /\ \A j \in 1 .. i - 1 : front[j] = s[j]
  <2>1. \A j \in 1 .. i - 1 : s[j] \in S
    BY <1>1
  <2>2. 1 \in Int /\ i - 1 \in Int
    BY <1>1
  <2>3. /\ front \in Seq(S) /\ Len(front) = IF 1 <= i - 1 THEN i - 1 - 1 + 1 ELSE 0
        /\ \A j \in 1 .. i - 1 - 1 + 1 : front[j] = s[1 + j - 1]
    BY <2>1, <2>2, SubSeqProperties
  <2> QED
    BY <1>1, <2>3
<1>3. /\ back \in Seq(S) /\ Len(back) = n - i
      /\ \A j \in 1 .. n - i : back[j] = s[i + j]
  <2>1. \A j \in i + 1 .. n : s[j] \in S
    BY <1>1
  <2>2. i + 1 \in Int /\ n \in Int
    BY <1>1
  <2>3. /\ back \in Seq(S) /\ Len(back) = IF i + 1 <= n THEN n - (i + 1) + 1 ELSE 0
        /\ \A j \in 1 .. n - (i + 1) + 1 : back[j] = s[(i + 1) + j - 1]
    BY <2>1, <2>2, SubSeqProperties
  <2> QED
    BY <1>1, <2>3
<1>4. RemoveAt(s, i) = front \o back
  BY DEF RemoveAt
<1> DEFINE t == RemoveAt(s, i)
<1>5. /\ t \in Seq(S) /\ Len(t) = n - 1
      /\ \A j \in 1 .. n - 1 : t[j] = IF j <= i - 1 THEN front[j] ELSE back[j - (i - 1)]
  <2>1. /\ front \o back \in Seq(S) /\ Len(front \o back) = Len(front) + Len(back)
        /\ \A j \in 1 .. Len(front) + Len(back) : (front \o back)[j] =
              IF j <= Len(front) THEN front[j] ELSE back[j - Len(front)]
    BY <1>2, <1>3, ConcatProperties
  <2>2. Len(front) + Len(back) = n - 1
    <3> HIDE DEF front, back
    <3> QED
      BY <1>1, <1>2, <1>3
  <2> QED
    BY <1>2, <1>4, <2>1, <2>2
<1> HIDE DEF front, back, t
<1>6. ASSUME NEW j \in 1 .. n - 1 PROVE t[j] = s[IF j < i THEN j ELSE j + 1]
  <2>1. CASE j < i
    BY <1>1, <1>2, <1>5, <2>1
  <2>2. CASE ~(j < i)
    <3>1. j - (i - 1) \in 1 .. n - i /\ i + (j - (i - 1)) = j + 1 /\ ~(j <= i - 1)
      BY <1>1, <2>2
    <3> QED
      BY <1>3, <1>5, <2>2, <3>1
  <2> QED
    BY <2>1, <2>2
<1> QED
  BY <1>5, <1>6 DEF t, n

\* What a job is once it has its answer; one that is out of date keeps of it what
\* somebody reads.
WithAnswer(m, answer, copy) ==
    LET job == [m EXCEPT !.answer = answer, !.copy = copy]
    IN  [(IF job.fresh THEN job ELSE Outdated(job)) EXCEPT !.asked = TRUE]

AnsweredAs(m, answer, copy, r) ==
    /\ r \in Message /\ r.kind = m.kind /\ r.from = m.from /\ r.fresh = m.fresh
    /\ r.then = m.then /\ r.asked = TRUE
    /\ Brings(r) => m.kind \in {"call", "check"} /\ answer = "granted" /\ r.copy = copy
    /\ r.answer = "same" => answer = "same" /\ r.copy = copy /\ r.force = m.force /\ r.of = m.of

LEMMA WithAnswerGives ==
    ASSUME NEW m \in Message, NEW copy \in Nat,
           NEW answer \in {"granted", "same", "offers", "listed", "refused", "failed"}
    PROVE  AnsweredAs(m, answer, copy, WithAnswer(m, answer, copy))
<1> DEFINE job == [m EXCEPT !.answer = answer, !.copy = copy]
<1>1. /\ job \in Message /\ job.kind = m.kind /\ job.from = m.from /\ job.fresh = m.fresh
      /\ job.then = m.then /\ job.answer = answer /\ job.copy = copy
      /\ job.force = m.force /\ job.of = m.of
  BY DEF Message
<1> DEFINE late == IF job.fresh THEN job ELSE Outdated(job)
<1>2. WithAnswer(m, answer, copy) = [late EXCEPT !.asked = TRUE]
  BY DEF WithAnswer
<1> HIDE DEF job
<1>3. /\ late \in Message /\ late.kind = m.kind /\ late.from = m.from /\ late.fresh = m.fresh
      /\ late.then = m.then
      /\ Brings(late) => m.kind \in {"call", "check"} /\ answer = "granted" /\ late.copy = copy
      /\ late.answer = "same" => /\ answer = "same" /\ late.copy = copy
                                 /\ late.force = m.force /\ late.of = m.of
  <2>1. CASE job.fresh
    BY <1>1, <2>1 DEF Brings
  <2>2. CASE ~job.fresh
    <3>1. job.fresh = FALSE
      BY <1>1, <2>2 DEF Message
    <3>2. CASE job.kind = "call"
      <4>1. late = [job EXCEPT !.fresh = FALSE]
        BY <2>2, <3>2 DEF Outdated
      <4>2. job = [job EXCEPT !.fresh = FALSE]
        BY <1>1, <3>1 DEF Message
      <4> QED
        BY <1>1, <4>1, <4>2 DEF Brings
    <3>3. CASE job.kind # "call"
      <4> DEFINE n == [job EXCEPT !.fresh = FALSE, !.pick = FALSE, !.of = 0, !.copy = 0, !.answer = "failed"]
      <4>1. late = n
        BY <1>1, <2>2, <3>3 DEF Outdated, Message
      <4>2. /\ n \in Message /\ n.kind = job.kind /\ n.from = job.from /\ n.fresh = FALSE
            /\ n.then = job.then /\ n.answer = "failed"
        BY <1>1 DEF Message
      <4> HIDE DEF n
      <4> QED
        BY <1>1, <3>1, <4>1, <4>2 DEF Brings
    <3> QED
      BY <3>2, <3>3
  <2> QED
    BY <2>1, <2>2
<1> HIDE DEF late
<1> DEFINE r == [late EXCEPT !.asked = TRUE]
<1>4. /\ r \in Message /\ r.kind = late.kind /\ r.from = late.from /\ r.fresh = late.fresh
      /\ r.then = late.then /\ r.asked = TRUE /\ r.answer = late.answer /\ r.copy = late.copy
      /\ r.force = late.force /\ r.of = late.of
  BY <1>3 DEF Message
<1> HIDE DEF r
<1>5. WithAnswer(m, answer, copy) = r
  BY <1>2 DEF r
<1>6. AnsweredAs(m, answer, copy, r)
  BY <1>3, <1>4 DEF AnsweredAs, Brings
<1> QED
  BY <1>5, <1>6

\* What a request makes of a job, when `last` is the last copy issued after it.
AskedTo(m, r, last) ==
    /\ r.kind = m.kind /\ r.from = m.from /\ r.fresh = m.fresh
    /\ r.then = m.then /\ r.asked = TRUE
    /\ Brings(r) => issued < r.copy /\ r.copy <= last
    /\ r.answer = "same" => r.kind = "check" /\ ~r.force /\ r.copy = r.of

\* A request: the job has its answer, and with it the last copy issued, if any.
LEMMA AskGives ==
    ASSUME IInv, NEW i, Ask(i)
    PROVE  /\ i \in 1 .. Len(jobs) /\ ~jobs[i].asked /\ TurnFree(i)
           /\ issued' \in Nat /\ issued <= issued'
           /\ UNCHANGED <<license, at, phase, setUp, busy, activating, purchase, posted>>
           /\ \E r \in Message : jobs' = [jobs EXCEPT ![i] = r] /\ AskedTo(jobs[i], r, issued')
<1> DEFINE m == jobs[i]
<1>1. /\ i \in 1 .. Len(jobs) /\ ~m.asked /\ TurnFree(i) /\ m \in Message /\ m.of \in Nat
      /\ UNCHANGED <<license, at, phase, setUp, busy, activating, purchase, posted>>
  <2>1. i \in 1 .. Len(jobs)
    BY LenProperties DEF Ask, IInv, MessagesOK
  <2> QED
    BY <2>1, WhereMessagesAre DEF Ask, held, addOns, IInv, MessagesOK, Message
<1>2. issued \in Nat
  BY DEF IInv, MessagesOK
<1>4. ASSUME NEW answer, NEW copy, Answered(i, answer, copy)
      PROVE  jobs' = [jobs EXCEPT ![i] = WithAnswer(m, answer, copy)]
  BY <1>4 DEF Answered, WithAnswer
<1>5. CASE m.kind \in {"call", "check"} /\ issued' = issued + 1 /\ Answered(i, "granted", issued + 1)
  <2> DEFINE r == WithAnswer(m, "granted", issued + 1)
  <2>1. issued + 1 \in Nat /\ issued' \in Nat /\ issued <= issued'
    BY <1>2, <1>5
  <2>2. AnsweredAs(m, "granted", issued + 1, r)
    BY <1>1, <2>1, WithAnswerGives
  <2>3. jobs' = [jobs EXCEPT ![i] = r]
    BY <1>4, <1>5
  <2> HIDE DEF r
  <2>4. r \in Message /\ AskedTo(m, r, issued')
    BY <1>2, <1>5, <2>2 DEF AskedTo, AnsweredAs
  <2> QED
    BY <1>1, <2>1, <2>3, <2>4
<1>6. CASE m.kind = "check" /\ ~m.force /\ Answered(i, "same", m.of) /\ UNCHANGED issued
  <2> DEFINE r == WithAnswer(m, "same", m.of)
  <2>1. issued' \in Nat /\ issued <= issued'
    BY <1>2, <1>6
  <2>2. AnsweredAs(m, "same", m.of, r)
    BY <1>1, WithAnswerGives
  <2>3. jobs' = [jobs EXCEPT ![i] = r]
    BY <1>4, <1>6
  <2> HIDE DEF r
  <2>4. r \in Message /\ AskedTo(m, r, issued')
    BY <1>6, <2>2 DEF AskedTo, AnsweredAs
  <2> QED
    BY <1>1, <2>1, <2>3, <2>4
<1>7. ASSUME NEW answer \in {"refused", "failed", "listed", "offers"}, Answered(i, answer, 0), UNCHANGED issued
      PROVE  \E r \in Message : jobs' = [jobs EXCEPT ![i] = r] /\ AskedTo(jobs[i], r, issued')
  <2> DEFINE r == WithAnswer(m, answer, 0)
  <2>1. 0 \in Nat /\ answer \in {"granted", "same", "offers", "listed", "refused", "failed"}
    OBVIOUS
  <2>2. AnsweredAs(m, answer, 0, r)
    BY <1>1, <2>1, WithAnswerGives
  <2>3. jobs' = [jobs EXCEPT ![i] = r]
    BY <1>4, <1>7
  <2> HIDE DEF r
  <2>4. r \in Message /\ AskedTo(m, r, issued')
    BY <1>7, <2>2 DEF AskedTo, AnsweredAs
  <2> QED
    BY <2>3, <2>4
<1>8. CASE m.kind = "deactivate" /\ Answered(i, "granted", 0) /\ UNCHANGED issued
  <2> DEFINE r == WithAnswer(m, "granted", 0)
  <2>1. 0 \in Nat /\ issued' \in Nat /\ issued <= issued'
    BY <1>2, <1>8
  <2>2. AnsweredAs(m, "granted", 0, r)
    BY <1>1, <2>1, WithAnswerGives
  <2>3. jobs' = [jobs EXCEPT ![i] = r]
    BY <1>4, <1>8
  <2> HIDE DEF r
  <2>4. r \in Message /\ AskedTo(m, r, issued')
    BY <1>8, <2>2 DEF AskedTo, AnsweredAs
  <2> QED
    BY <1>1, <2>1, <2>3, <2>4
<1>9. CASE /\ UNCHANGED issued
           /\ \E answer \in {"refused", "failed", "listed", "offers"} : Answered(i, answer, 0)
  BY <1>1, <1>2, <1>7, <1>9
<1> QED
  BY <1>5, <1>6, <1>8, <1>9 DEF Ask

LEMMA AskKeeps ==
    ASSUME IInv, NEW i, Ask(i)
    PROVE  IInv' /\ UNCHANGED <<license, at, purchase>>
<1>1. /\ i \in 1 .. Len(jobs) /\ ~jobs[i].asked /\ TurnFree(i)
      /\ issued' \in Nat /\ issued <= issued'
      /\ UNCHANGED <<license, at, phase, setUp, busy, activating, purchase, posted>>
  BY AskGives
<1>2. PICK r \in Message : jobs' = [jobs EXCEPT ![i] = r] /\ AskedTo(jobs[i], r, issued')
  BY AskGives
<1> DEFINE nj == Len(jobs)
           np == Len(posted)
<1>3. /\ DOMAIN jobs = 1 .. nj /\ DOMAIN posted = 1 .. np
      /\ nj \in Nat /\ np \in Nat
      /\ \A j \in 1 .. nj : jobs[j] \in Message /\ jobs[j] \in InFlight
      /\ \A j \in 1 .. np : posted[j] \in Message /\ posted[j] \in InFlight
      /\ \A m \in InFlight : \/ \E j \in 1 .. nj : m = jobs[j]
                             \/ \E j \in 1 .. np : m = posted[j]
  BY WhereMessagesAre DEF IInv, MessagesOK
<1>4. jobs \in [1 .. nj -> Message] /\ jobs' \in [1 .. nj -> Message]
  <2>1. jobs \in [1 .. nj -> Message]
    BY LenProperties DEF IInv, MessagesOK
  <2> QED
    BY <1>2, <2>1
<1>5. jobs' \in Seq(Message) /\ Len(jobs') = nj
  BY <1>3, <1>4, SeqDef, LenProperties
<1>6. jobs'[i] = r /\ \A j \in 1 .. nj : j # i => jobs'[j] = jobs[j]
  BY <1>1, <1>2, <1>4
<1>7. /\ posted' = posted /\ posted' \in Seq(Message)
      /\ DOMAIN jobs' = 1 .. nj /\ DOMAIN posted' = 1 .. np
      /\ \A j \in 1 .. nj : jobs'[j] \in InFlight'
      /\ \A j \in 1 .. np : posted'[j] \in InFlight'
      /\ \A m \in InFlight' : \/ \E j \in 1 .. nj : m = jobs'[j]
                              \/ \E j \in 1 .. np : m = posted'[j]
  <2>1. posted' = posted /\ posted' \in Seq(Message)
    BY <1>1 DEF IInv, MessagesOK
  <2> QED
    BY <1>5, <2>1, WhereMessagesWillBe
<1> HIDE DEF nj, np
<1>8. r \in InFlight' /\ \A m \in InFlight : m = jobs[i] \/ m \in InFlight'
  BY <1>1, <1>3, <1>6, <1>7 DEF nj
<1>9. \A x \in InFlight' : x = r \/ x \in InFlight
  BY <1>1, <1>3, <1>6, <1>7
<1>10. /\ r.kind = jobs[i].kind /\ r.from = jobs[i].from /\ r.fresh = jobs[i].fresh
       /\ r.then = jobs[i].then /\ r.asked = TRUE /\ r.copy \in Nat /\ issued \in Nat
       /\ Brings(r) => issued < r.copy /\ r.copy <= issued'
  BY <1>2 DEF AskedTo, Message, IInv, MessagesOK
<1>11. \A x \in InFlight' : Sound(x)'
  <2>1. ASSUME NEW x \in InFlight PROVE Sound(x)'
    <3>1. Sound(x) /\ x.copy \in Nat /\ issued \in Nat
      BY <1>3 DEF IInv, MessagesOK, Message
    <3> QED
      BY <1>1, <3>1 DEF Sound, Brings
  <2>2. Sound(r)'
    BY <1>2, <1>10 DEF AskedTo, Sound, Brings
  <2> QED
    BY <1>9, <2>1, <2>2
<1>12. \A j \in 1 .. nj : jobs[j].asked \/ jobs[j].answer = "none"
  BY <1>3 DEF IInv, MessagesOK, TurnsTaken
<1>13. Turn(r) => \A j \in 1 .. nj : ~Turn(jobs[j])
  BY <1>1, <1>3, <1>10 DEF TurnFree, Turn
<1>14. TurnsTaken'
  <2>1. \A j \in DOMAIN jobs' : jobs'[j].asked \/ jobs'[j].answer = "none"
    BY <1>6, <1>7, <1>10, <1>12
  <2>2. \A j, k \in DOMAIN jobs' : Turn(jobs'[j]) /\ Turn(jobs'[k]) => j = k
    <3>1. \A j, k \in 1 .. nj : Turn(jobs[j]) /\ Turn(jobs[k]) => j = k
      BY <1>3 DEF IInv, MessagesOK, TurnsTaken
    <3> QED
      BY <1>6, <1>7, <1>13, <3>1
  <2>3. \A k, j \in DOMAIN posted' :
          k < j /\ Brings(posted'[k]) /\ Brings(posted'[j]) => posted'[k].copy < posted'[j].copy
    BY <1>7 DEF IInv, MessagesOK, TurnsTaken
  <2>4. ASSUME NEW k \in DOMAIN posted', NEW j \in DOMAIN jobs', Brings(posted'[k]), Brings(jobs'[j])
        PROVE  posted'[k].copy < jobs'[j].copy
    <3>1. CASE j = i
      <4>1. k \in 1 .. np /\ posted'[k] = posted[k] /\ Brings(posted[k])
        BY <1>7, <2>4
      <4>2. posted[k].copy <= issued /\ posted[k].copy \in Nat
        BY <1>3, <4>1 DEF IInv, MessagesOK, Sound, Message
      <4>3. issued < r.copy /\ jobs'[j] = r
        BY <1>6, <1>10, <2>4, <3>1
      <4> QED
        BY <1>10, <4>1, <4>2, <4>3
    <3>2. CASE j # i
      <4>1. j \in 1 .. nj /\ k \in 1 .. np /\ jobs'[j] = jobs[j] /\ posted'[k] = posted[k]
        BY <1>6, <1>7, <3>2
      <4>2. \A a \in 1 .. np, b \in 1 .. nj :
              Brings(posted[a]) /\ Brings(jobs[b]) => posted[a].copy < jobs[b].copy
        BY <1>3 DEF IInv, MessagesOK, TurnsTaken
      <4> QED
        BY <2>4, <4>1, <4>2
    <3> QED
      BY <3>1, <3>2
  <2> QED
    BY <2>1, <2>2, <2>3, <2>4 DEF TurnsTaken, Turn, Brings
<1>15. OneLeads'
  <2>1. \A j \in 1 .. nj : Leads(jobs'[j]) <=> Leads(jobs[j])
    BY <1>6, <1>10 DEF Leads
  <2>2. /\ \A j, k \in 1 .. nj : Leads(jobs[j]) /\ Leads(jobs[k]) => j = k
        /\ \A j, k \in 1 .. np : Leads(posted[j]) /\ Leads(posted[k]) => j = k
        /\ \A j \in 1 .. nj, k \in 1 .. np : ~(Leads(jobs[j]) /\ Leads(posted[k]))
    BY <1>3 DEF IInv, MessagesOK, OneLeads
  <2>3. /\ \A j, k \in DOMAIN jobs' : Leads(jobs'[j]) /\ Leads(jobs'[k]) => j = k
        /\ \A j, k \in DOMAIN posted' : Leads(posted'[j]) /\ Leads(posted'[k]) => j = k
        /\ \A j \in DOMAIN jobs', k \in DOMAIN posted' : ~(Leads(jobs'[j]) /\ Leads(posted'[k]))
    BY <1>7, <2>1, <2>2
  <2> QED
    BY <2>3 DEF OneLeads, Leads
<1>16. MessagesOK'
  BY <1>1, <1>5, <1>7, <1>11, <1>14, <1>15 DEF MessagesOK
<1>17. AnswersAreForTheLicense'
  <2>1. \A x \in InFlight' : x.fresh => x.from = license
    BY <1>1, <1>3, <1>9, <1>10 DEF IInv, AnswersAreForTheLicense, nj
  <2> QED
    BY <1>1, <2>1 DEF AnswersAreForTheLicense
<1>18. NewerUnderWay'
  <2>1. ASSUME NEW x \in InFlight', Brings(x), x.from = license PROVE at <= x.copy
    <3>1. CASE x = r
      BY <1>10, <2>1, <3>1 DEF IInv, StateOK
    <3>2. CASE x \in InFlight
      BY <2>1, <3>2 DEF IInv, NewerUnderWay
    <3> QED
      BY <1>9, <3>1, <3>2
  <2> QED
    BY <1>1, <2>1 DEF NewerUnderWay, Brings
<1>19. SetUpEnds'
  <2>1. ASSUME setUp PROVE \E x \in InFlight' : x.kind = "call" /\ x.fresh
    <3>1. PICK m \in InFlight : m.kind = "call" /\ m.fresh
      BY <2>1 DEF IInv, SetUpEnds
    <3> QED
      BY <1>8, <1>10, <3>1
  <2> QED
    BY <1>1, <2>1 DEF SetUpEnds
<1>20. ListEnds'
  <2>1. ASSUME phase = "Loading" PROVE \E x \in InFlight' : Lists(x)
    <3>1. PICK m \in InFlight : Lists(m)
      BY <2>1 DEF IInv, ListEnds, Lists
    <3> QED
      BY <1>8, <1>10, <3>1 DEF Lists
  <2> QED
    BY <1>1, <2>1 DEF ListEnds, Lists
<1>21. StateOK'
  <2>1. at' \in Nat /\ at' <= issued'
    BY <1>1, <1>10 DEF IInv, StateOK
  <2> QED
    BY <1>1, <2>1 DEF IInv, StateOK
<1> QED
  BY <1>1, <1>16, <1>17, <1>18, <1>19, <1>20, <1>21 DEF IInv

\* A job's answer is queued for the message thread, behind those before it.
LEMMA PostKeeps ==
    ASSUME IInv, NEW i, Post(i)
    PROVE  IInv' /\ UNCHANGED <<license, at, purchase>>
<1> DEFINE nj == Len(jobs)
           np == Len(posted)
           r == [jobs[i] EXCEPT !.asked = FALSE]
           old(j) == IF j < i THEN j ELSE j + 1
<1>1. /\ jobs[i].asked /\ jobs' = RemoveAt(jobs, i) /\ posted' = Append(posted, r)
      /\ UNCHANGED <<license, at, phase, setUp, busy, activating, purchase, issued>>
      /\ i \in DOMAIN jobs
  BY DEF Post, held, addOns
<1>2. /\ DOMAIN jobs = 1 .. nj /\ DOMAIN posted = 1 .. np
      /\ nj \in Nat /\ np \in Nat
      /\ \A j \in 1 .. nj : jobs[j] \in Message /\ jobs[j] \in InFlight
      /\ \A j \in 1 .. np : posted[j] \in Message /\ posted[j] \in InFlight
      /\ \A m \in InFlight : \/ \E j \in 1 .. nj : m = jobs[j]
                             \/ \E j \in 1 .. np : m = posted[j]
  BY WhereMessagesAre DEF IInv, MessagesOK
<1>3. i \in 1 .. nj
  BY <1>1, <1>2
<1>4. /\ r \in Message /\ r.kind = jobs[i].kind /\ r.from = jobs[i].from /\ r.fresh = jobs[i].fresh
      /\ r.then = jobs[i].then /\ r.answer = jobs[i].answer /\ r.copy = jobs[i].copy
      /\ r.force = jobs[i].force /\ r.of = jobs[i].of
  BY <1>2, <1>3 DEF Message
<1> HIDE DEF r
<1>5. /\ jobs' \in Seq(Message) /\ Len(jobs') = nj - 1
      /\ \A j \in 1 .. nj - 1 : jobs'[j] = jobs[old(j)]
  BY <1>1, <1>3, RemoveAtShape DEF IInv, MessagesOK
<1>6. /\ posted' \in Seq(Message) /\ Len(posted') = np + 1
      /\ \A j \in 1 .. np : posted'[j] = posted[j]
      /\ posted'[np + 1] = r
  BY <1>1, <1>4, AppendProperties DEF IInv, MessagesOK
<1>7. /\ DOMAIN jobs' = 1 .. nj - 1 /\ DOMAIN posted' = 1 .. np + 1
      /\ \A j \in 1 .. nj - 1 : jobs'[j] \in InFlight'
      /\ \A j \in 1 .. np + 1 : posted'[j] \in InFlight'
      /\ \A m \in InFlight' : \/ \E j \in 1 .. nj - 1 : m = jobs'[j]
                              \/ \E j \in 1 .. np + 1 : m = posted'[j]
  BY <1>5, <1>6, WhereMessagesWillBe
<1> HIDE DEF nj, np
<1>8. \A j \in 1 .. nj - 1 : old(j) \in 1 .. nj /\ old(j) # i
  BY <1>2, <1>3
<1>9. \A j, k \in 1 .. nj - 1 : old(j) = old(k) => j = k
  BY <1>2, <1>3
<1>10. \A j \in 1 .. nj : j # i => \E k \in 1 .. nj - 1 : old(k) = j
  <2>1. ASSUME NEW j \in 1 .. nj, j # i PROVE \E k \in 1 .. nj - 1 : old(k) = j
    <3>1. CASE j < i
      <4>1. j \in 1 .. nj - 1 /\ old(j) = j
        BY <1>2, <1>3, <3>1
      <4> QED
        BY <4>1
    <3>2. CASE ~(j < i)
      <4>1. j - 1 \in 1 .. nj - 1 /\ old(j - 1) = j
        BY <1>2, <1>3, <2>1, <3>2
      <4> QED
        BY <4>1
    <3> QED
      BY <3>1, <3>2
  <2> QED
    BY <2>1
<1> HIDE DEF old
<1>11. \A j \in 1 .. np + 1 : j \in 1 .. np \/ j = np + 1
  BY <1>2
<1>12. /\ r \in InFlight'
       /\ \A m \in InFlight : m = jobs[i] \/ m \in InFlight'
       /\ \A x \in InFlight' : x = r \/ x \in InFlight
  <2>1. np + 1 \in 1 .. np + 1 /\ \A j \in 1 .. np : j \in 1 .. np + 1
    BY <1>2
  <2>2. r \in InFlight'
    BY <1>6, <1>7, <2>1
  <2>3. ASSUME NEW m \in InFlight, m # jobs[i] PROVE m \in InFlight'
    <3>1. ASSUME NEW j \in 1 .. np, m = posted[j] PROVE m \in InFlight'
      BY <1>6, <1>7, <2>1, <3>1
    <3>2. ASSUME NEW j \in 1 .. nj, m = jobs[j] PROVE m \in InFlight'
      <4>1. PICK k \in 1 .. nj - 1 : old(k) = j
        BY <1>10, <2>3, <3>2
      <4> QED
        BY <1>5, <1>7, <3>2, <4>1 DEF nj
    <3> QED
      BY <1>2, <3>1, <3>2
  <2>4. ASSUME NEW x \in InFlight' PROVE x = r \/ x \in InFlight
    <3>1. ASSUME NEW j \in 1 .. np + 1, x = posted'[j] PROVE x = r \/ x \in InFlight
      BY <1>2, <1>6, <1>11, <3>1 DEF np
    <3>2. ASSUME NEW j \in 1 .. nj - 1, x = jobs'[j] PROVE x \in InFlight
      BY <1>2, <1>5, <1>8, <3>2 DEF nj
    <3> QED
      BY <1>7, <3>1, <3>2
  <2> QED
    BY <2>2, <2>3, <2>4
<1>13. \A x \in InFlight' : Sound(x)'
  <2>1. \A x \in InFlight : Sound(x)'
    BY <1>1 DEF IInv, MessagesOK, Sound
  <2>2. Sound(jobs[i])
    BY <1>2, <1>3 DEF IInv, MessagesOK
  <2>3. ASSUME NEW x, x = r PROVE Sound(x)'
    BY <1>1, <1>4, <2>2, <2>3 DEF Sound, Brings
  <2> QED
    BY <1>12, <2>1, <2>3
<1>14. TurnsTaken'
  <2>0. /\ \A j \in 1 .. nj - 1 : jobs'[j] = jobs[old(j)] /\ old(j) \in 1 .. nj /\ old(j) # i
        /\ \A j \in 1 .. np : posted'[j] = posted[j]
        /\ posted'[np + 1] = r
    BY <1>5, <1>6, <1>8 DEF nj, np
  <2>1. \A j \in DOMAIN jobs' : jobs'[j].asked \/ jobs'[j].answer = "none"
    BY <1>2, <1>7, <2>0 DEF IInv, MessagesOK, TurnsTaken
  <2>2. \A j, k \in 1 .. nj : Turn(jobs[j]) /\ Turn(jobs[k]) => j = k
    BY <1>2 DEF IInv, MessagesOK, TurnsTaken
  <2>3. \A j, k \in DOMAIN jobs' : Turn(jobs'[j]) /\ Turn(jobs'[k]) => j = k
    BY <1>7, <1>9, <2>0, <2>2
  <2>4. /\ \A j, k \in 1 .. np :
             j < k /\ Brings(posted[j]) /\ Brings(posted[k]) => posted[j].copy < posted[k].copy
        /\ \A j \in 1 .. np, k \in 1 .. nj :
             Brings(posted[j]) /\ Brings(jobs[k]) => posted[j].copy < jobs[k].copy
    BY <1>2 DEF IInv, MessagesOK, TurnsTaken
  <2>5. Brings(r) => Brings(jobs[i]) /\ Turn(jobs[i])
    BY <1>1, <1>4 DEF Brings, Turn
  <2>6. ASSUME NEW j \in DOMAIN posted', NEW k \in DOMAIN posted', j < k,
               Brings(posted'[j]), Brings(posted'[k])
        PROVE  posted'[j].copy < posted'[k].copy
    <3>1. j \in 1 .. np
      BY <1>2, <1>7, <2>6
    <3>2. CASE k \in 1 .. np
      BY <2>0, <2>4, <2>6, <3>1, <3>2
    <3>3. CASE k = np + 1
      BY <1>3, <1>4, <2>0, <2>4, <2>5, <2>6, <3>1, <3>3
    <3> QED
      BY <1>7, <1>11, <3>2, <3>3
  <2>7. ASSUME NEW j \in DOMAIN posted', NEW k \in DOMAIN jobs', Brings(posted'[j]), Brings(jobs'[k])
        PROVE  posted'[j].copy < jobs'[k].copy
    <3>1. jobs'[k] = jobs[old(k)] /\ old(k) \in 1 .. nj /\ old(k) # i
      BY <1>7, <2>0
    <3>2. CASE j \in 1 .. np
      BY <2>0, <2>4, <2>7, <3>1, <3>2
    <3>3. CASE j = np + 1
      <4>1. Turn(jobs[i])
        BY <2>0, <2>5, <2>7, <3>3
      <4>2. Turn(jobs[old(k)])
        <5>1. jobs[old(k)].asked \/ jobs[old(k)].answer = "none"
          BY <1>2, <3>1 DEF IInv, MessagesOK, TurnsTaken
        <5> QED
          BY <2>7, <3>1, <5>1 DEF Turn, Brings
      <4> QED
        BY <1>3, <2>2, <3>1, <4>1, <4>2
    <3> QED
      BY <1>7, <1>11, <3>2, <3>3
  <2> QED
    BY <2>1, <2>3, <2>6, <2>7 DEF TurnsTaken, Turn, Brings
<1>15. OneLeads'
  <2>0. /\ \A j \in 1 .. nj - 1 : jobs'[j] = jobs[old(j)] /\ old(j) \in 1 .. nj /\ old(j) # i
        /\ \A j \in 1 .. np : posted'[j] = posted[j]
        /\ posted'[np + 1] = r
        /\ Leads(r) => Leads(jobs[i])
    BY <1>4, <1>5, <1>6, <1>8 DEF nj, np, Leads
  <2>1. /\ \A j, k \in 1 .. nj : Leads(jobs[j]) /\ Leads(jobs[k]) => j = k
        /\ \A j, k \in 1 .. np : Leads(posted[j]) /\ Leads(posted[k]) => j = k
        /\ \A j \in 1 .. nj, k \in 1 .. np : ~(Leads(jobs[j]) /\ Leads(posted[k]))
    BY <1>2 DEF IInv, MessagesOK, OneLeads
  <2>2. \A j, k \in DOMAIN jobs' : Leads(jobs'[j]) /\ Leads(jobs'[k]) => j = k
    BY <1>7, <1>9, <2>0, <2>1
  <2>3. \A j, k \in DOMAIN posted' : Leads(posted'[j]) /\ Leads(posted'[k]) => j = k
    BY <1>3, <1>7, <1>11, <2>0, <2>1
  <2>4. \A j \in DOMAIN jobs', k \in DOMAIN posted' : ~(Leads(jobs'[j]) /\ Leads(posted'[k]))
    BY <1>3, <1>7, <1>11, <2>0, <2>1
  <2> QED
    BY <2>2, <2>3, <2>4 DEF OneLeads, Leads
<1>16. MessagesOK'
  BY <1>1, <1>5, <1>6, <1>13, <1>14, <1>15 DEF IInv, MessagesOK
<1>17. jobs[i] \in InFlight
  BY <1>2, <1>3
<1>18. AnswersAreForTheLicense'
  <2>1. \A x \in InFlight' : x.fresh => x.from = license
    BY <1>4, <1>12, <1>17 DEF IInv, AnswersAreForTheLicense
  <2> QED
    BY <1>1, <2>1 DEF AnswersAreForTheLicense
<1>19. NewerUnderWay'
  <2>1. \A x \in InFlight' : Brings(x) /\ x.from = license => at <= x.copy
    BY <1>4, <1>12, <1>17 DEF IInv, NewerUnderWay, Brings
  <2> QED
    BY <1>1, <2>1 DEF NewerUnderWay, Brings
<1>20. SetUpEnds'
  <2>1. ASSUME setUp PROVE \E x \in InFlight' : x.kind = "call" /\ x.fresh
    <3>1. PICK m \in InFlight : m.kind = "call" /\ m.fresh
      BY <2>1 DEF IInv, SetUpEnds
    <3> QED
      BY <1>4, <1>12, <3>1
  <2> QED
    BY <1>1, <2>1 DEF SetUpEnds
<1>21. ListEnds'
  <2>1. ASSUME phase = "Loading" PROVE \E x \in InFlight' : Lists(x)
    <3>1. PICK m \in InFlight : Lists(m)
      BY <2>1 DEF IInv, ListEnds, Lists
    <3> QED
      BY <1>4, <1>12, <3>1 DEF Lists
  <2> QED
    BY <1>1, <2>1 DEF ListEnds, Lists
<1>22. StateOK'
  BY <1>1 DEF IInv, StateOK
<1> QED
  BY <1>1, <1>16, <1>18, <1>19, <1>20, <1>21, <1>22 DEF IInv

-----------------------------------------------------------------------------
(* The rest of the controller.                                             *)

LEMMA CheckKeeps ==
    ASSUME IInv, NEW force \in BOOLEAN, Check(force)
    PROVE  IInv' /\ UNCHANGED <<license, at, purchase>>
<1> DEFINE n == [Job("check") EXCEPT !.force = force, !.of = IF force THEN 0 ELSE at]
<1>1. /\ license \in Activations /\ at \in Nat
      /\ UNCHANGED <<license, at, phase, setUp, busy, activating, purchase, issued>>
      /\ Queue(Generation, <<n>>, posted)
  BY DEF IInv, StateOK, Check, CanCheck, held, addOns
<1>2. n \in Fresh /\ n.from = license /\ n.kind = "check"
  BY <1>1, NewJobs
<1> HIDE DEF n
<1>3. MayLead(Generation, <<n>>) /\ "call" \notin Generation /\ "list" \notin Generation
  BY DEF MayLead, Generation
<1>4. /\ MessagesOK' /\ AnswersAreForTheLicense' /\ NewerUnderWay'
      /\ SetUpEnds' /\ ListEnds'
  <2>1. 0 \in {0, 1} /\ 0 # 1
    OBVIOUS
  <2> QED
    BY <1>1, <1>2, <1>3, <2>1, HandlerKeeps
<1>5. StateOK'
  BY <1>1 DEF IInv, StateOK
<1> QED
  BY <1>1, <1>4, <1>5 DEF IInv

LEMMA DeactivateKeeps ==
    ASSUME IInv, Deactivate
    PROVE  IInv' /\ UNCHANGED <<license, at, purchase>>
<1> DEFINE n == Job("deactivate")
<1>1. /\ license \in Activations /\ at \in Nat /\ busy' = TRUE
      /\ UNCHANGED <<license, at, phase, setUp, activating, purchase, issued>>
      /\ Queue(Generation, <<n>>, posted)
  BY DEF IInv, StateOK, Deactivate, held, addOns
<1>2. n \in Fresh /\ n.from = license /\ n.kind = "deactivate"
  BY <1>1, NewJobs
<1> HIDE DEF n
<1>3. MayLead(Generation, <<n>>) /\ "call" \notin Generation /\ "list" \notin Generation
  BY DEF MayLead, Generation
<1>4. /\ MessagesOK' /\ AnswersAreForTheLicense' /\ NewerUnderWay'
      /\ SetUpEnds' /\ ListEnds'
  <2>1. 0 \in {0, 1} /\ 0 # 1
    OBVIOUS
  <2> QED
    BY <1>1, <1>2, <1>3, <2>1, HandlerKeeps
<1>5. StateOK'
  BY <1>1 DEF IInv, StateOK
<1> QED
  BY <1>1, <1>4, <1>5 DEF IInv

LEMMA ActivationKeeps ==
    ASSUME IInv, Activation
    PROVE  IInv' /\ UNCHANGED <<license, at, purchase>>
<1> DEFINE new == << >>
<1>1. /\ UNCHANGED <<license, at, phase, setUp, busy, purchase, issued>>
      /\ activating' = ~activating
      /\ Queue(Generation, new, posted) /\ new = << >> /\ (\A x : new # <<x>>)
  BY DEF Activation, held, addOns
<1> HIDE DEF new
<1>2. MayLead(Generation, new) /\ "call" \notin Generation /\ "list" \notin Generation
  BY DEF MayLead, Generation
<1>3. /\ MessagesOK' /\ AnswersAreForTheLicense' /\ NewerUnderWay'
      /\ SetUpEnds' /\ ListEnds'
  <2>1. 0 \in {0, 1} /\ 0 # 1
    OBVIOUS
  <2> QED
    BY <1>1, <1>2, <2>1, HandlerKeeps
<1>4. StateOK'
  <2>1. activating' \in BOOLEAN
    BY <1>1
  <2> QED
    BY <1>1, <2>1 DEF IInv, StateOK
<1> QED
  BY <1>1, <1>3, <1>4 DEF IInv

LEMMA LicenseChangesKeeps ==
    ASSUME IInv, LicenseChanges
    PROVE  IInv' /\ license' # license
<1>0. /\ 0 \in {0, 1} /\ 0 # 1 /\ issued \in Nat /\ issued <= issued
      /\ activating' \in BOOLEAN /\ busy' \in BOOLEAN
      /\ Generation \subseteq Generation
  <2>1. issued \in Nat /\ issued <= issued /\ activating \in BOOLEAN /\ busy \in BOOLEAN
    BY DEF IInv, StateOK, MessagesOK
  <2>2. activating' \in {activating, FALSE} /\ busy' \in {busy, FALSE}
    BY DEF LicenseChanges
  <2>3. activating' \in BOOLEAN
    BY <2>1, <2>2
  <2>4. busy' \in BOOLEAN
    BY <2>1, <2>2
  <2> QED
    BY <2>1, <2>3, <2>4
<1>1. CASE license # NoLicense /\ UNCHANGED issued /\ Replace(NoLicense, 0, Generation, << >>, posted)
  <2>1. \A x \in InFlight : x.from # NoLicense
    BY WhereMessagesAre, AddOnsAssumption DEF IInv, MessagesOK, Message
  <2>2. issued' \in Nat /\ issued <= issued'
    BY <1>0, <1>1
  <2>3. /\ MessagesOK' /\ AnswersAreForTheLicense' /\ NewerUnderWay'
        /\ SetUpEnds' /\ ListEnds'
    BY <1>0, <1>1, <2>1, <2>2, ReplaceKeeps
  <2>4. license' = NoLicense /\ at' = 0 /\ phase' = "Idle" /\ setUp' = FALSE /\ purchase' = "none"
    BY <1>1 DEF Replace
  <2>5. StateOK'
    BY <1>0, <2>2, <2>4, Emptied
  <2> QED
    BY <1>1, <2>3, <2>4, <2>5 DEF IInv
<1>2. ASSUME NEW a \in Activations \ ({license} \cup {m.from : m \in InFlight}),
             issued' = issued + 1, Replace(a, issued + 1, Generation, << >>, posted)
      PROVE  IInv' /\ license' # license
  <2>1. \A x \in InFlight : x.from # a
    OBVIOUS
  <2>2. issued' \in Nat /\ issued <= issued'
    BY <1>0, <1>2
  <2>3. /\ MessagesOK' /\ AnswersAreForTheLicense' /\ NewerUnderWay'
        /\ SetUpEnds' /\ ListEnds'
    BY <1>0, <1>2, <2>1, <2>2, ReplaceKeeps
  <2>4. license' = a /\ at' = issued' /\ phase' = "Idle" /\ setUp' = FALSE /\ purchase' = "none"
    BY <1>2 DEF Replace
  <2>5. StateOK'
    <3>1. license' \in Activations \cup {NoLicense} /\ at' \in Nat /\ at' <= issued'
      BY <2>2, <2>4
    <3>2. phase' \in {"Idle", "Loading", "Ready"} /\ purchase' \in Purchases
      BY <2>4 DEF Purchases
    <3>3. setUp' \in BOOLEAN /\ ~setUp'
      BY <2>4
    <3> QED
      BY <1>0, <2>4, <3>1, <3>2, <3>3 DEF StateOK
  <2> QED
    BY <2>3, <2>4, <2>5 DEF IInv
<1> QED
  BY <1>1, <1>2 DEF LicenseChanges

-----------------------------------------------------------------------------
(* The theorems.                                                           *)

LEMMA InitGives == AddOnsInit => IInv
<1> SUFFICES ASSUME AddOnsInit PROVE IInv
  OBVIOUS
<1>1. jobs \in Seq(Message) /\ posted \in Seq(Message) /\ issued \in Nat
  BY DEF AddOnsInit
<1>2. DOMAIN jobs = {} /\ DOMAIN posted = {} /\ InFlight = {}
  BY DEF AddOnsInit, InFlight, Range
<1>3. MessagesOK
  BY <1>1, <1>2 DEF MessagesOK, TurnsTaken, OneLeads
<1>4. StateOK
  <2>1. license \in Activations \cup {NoLicense} /\ at \in Nat /\ at <= issued
    BY DEF AddOnsInit
  <2>2. phase = "Idle" /\ purchase \in Purchases
    BY DEF AddOnsInit, Purchases
  <2>3. setUp \in BOOLEAN /\ ~setUp /\ busy \in BOOLEAN /\ activating \in BOOLEAN
    BY DEF AddOnsInit
  <2> QED
    BY <2>1, <2>2, <2>3 DEF StateOK
<1>5. SetUpEnds /\ ListEnds
  BY DEF AddOnsInit, SetUpEnds, ListEnds
<1> QED
  BY <1>2, <1>3, <1>4, <1>5 DEF IInv, AnswersAreForTheLicense, NewerUnderWay

\* One step: the invariant holds after it, the license held is no older than it
\* was, and a purchase is forgotten only for one of the reasons there are.
StepKeepsWord ==
    /\ IInv'
    /\ license' = license => at' >= at
    /\ purchase # "none" /\ purchase' = "none" =>
         \/ purchase = "old" \/ license' # license
         \/ phase' = "Loading" /\ Len(jobs') > Len(jobs)

LEMMA NextKeeps ==
    ASSUME IInv, [AddOnsNext]_addOnVars
    PROVE  StepKeepsWord
<1>0. at \in Nat /\ Len(jobs) \in Nat
  BY LenProperties DEF IInv, StateOK, MessagesOK
<1>1. ASSUME IInv', UNCHANGED <<license, at, purchase>> PROVE StepKeepsWord
  BY <1>0, <1>1 DEF StepKeepsWord
<1>2. CASE Outside
  <2>1. IInv' /\ at' = at /\ (purchase # "none" => purchase' # "none")
    <3>1. IInv'
      BY <1>2, OutsideKeeps
    <3>2. at' = at /\ purchase' # "none"
      BY <1>2 DEF Outside, Buy, SwitchApps, HourPasses, held
    <3> QED
      BY <3>1, <3>2
  <2> QED
    BY <1>0, <2>1 DEF StepKeepsWord
<1>3. CASE LoadAddOns
  BY <1>1, <1>3, LoadAddOnsKeeps DEF LoadAddOns, held
<1>4. CASE RefreshAddOns
  BY <1>1, <1>4, RefreshAddOnsKeeps DEF RefreshAddOns, held
<1>5. CASE SetUpAddOn
  BY <1>1, <1>5, SetUpAddOnKeeps DEF SetUpAddOn, held
<1>6. CASE CheckPurchaseReturn
  <2>1. /\ IInv' /\ at' = at
        /\ purchase # "none" /\ purchase' = "none" =>
             \/ purchase = "old"
             \/ phase' = "Loading" /\ Len(jobs') = Len(jobs) + 1
    BY <1>6, CheckPurchaseReturnKeeps DEF CheckPurchaseReturn, held
  <2> QED
    BY <1>0, <2>1 DEF StepKeepsWord
<1>7. CASE AddOnsJob
  <2>1. PICK i \in 1 .. 2 : Ask(i) \/ Post(i)
    BY <1>7 DEF AddOnsJob
  <2> QED
    BY <1>1, <2>1, AskKeeps, PostKeeps
<1>8. CASE CallLanded
  <2>1. purchase' = purchase
    BY <1>8 DEF CallLanded
  <2> QED
    BY <1>8, <2>1, CallLandedKeeps DEF StepKeepsWord
<1>9. CASE Listed
  BY <1>1, <1>9, ListedKeeps
<1>10. CASE RecheckLanded
  BY <1>10, RecheckLandedKeeps DEF StepKeepsWord
<1>11. CASE DeactivateLanded
  BY <1>0, <1>11, DeactivateLandedKeeps DEF StepKeepsWord
<1>12. CASE \E force \in BOOLEAN : Check(force)
  BY <1>1, <1>12, CheckKeeps
<1>13. CASE Deactivate
  BY <1>1, <1>13, DeactivateKeeps
<1>14. CASE Activation
  BY <1>1, <1>14, ActivationKeeps
<1>15. CASE LicenseChanges
  BY <1>15, LicenseChangesKeeps DEF StepKeepsWord
<1>16. CASE UNCHANGED addOnVars
  <2>1. UNCHANGED <<license, at, phase, setUp, busy, activating, purchase, jobs, posted, issued>>
    BY <1>16 DEF addOnVars, held, addOns, messages
  <2>2. InFlight' = InFlight
    BY <2>1 DEF InFlight
  <2>3. MessagesOK'
    <3>1. TurnsTaken'
      BY <2>1 DEF IInv, MessagesOK, TurnsTaken, Turn, Brings
    <3>2. OneLeads'
      BY <2>1 DEF IInv, MessagesOK, OneLeads, Leads
    <3>3. \A m \in InFlight' : Sound(m)'
      BY <2>1, <2>2 DEF IInv, MessagesOK, Sound
    <3> QED
      BY <2>1, <3>1, <3>2, <3>3 DEF IInv, MessagesOK
  <2>4. StateOK'
    BY <2>1 DEF IInv, StateOK
  <2>5. AnswersAreForTheLicense' /\ NewerUnderWay' /\ SetUpEnds' /\ ListEnds'
    BY <2>1, <2>2 DEF IInv, AnswersAreForTheLicense, NewerUnderWay, SetUpEnds, ListEnds
  <2>6. IInv'
    BY <2>3, <2>4, <2>5 DEF IInv
  <2> QED
    BY <1>1, <2>1, <2>6
<1> QED
  BY <1>2, <1>3, <1>4, <1>5, <1>6, <1>7, <1>8, <1>9, <1>10, <1>11, <1>12, <1>13, <1>14,
     <1>15, <1>16 DEF AddOnsNext, AddOnsContinue, Outside

\* The invariant everything rests on: who has its turn, what is in which order,
\* whom it was asked for, and what waits for what.
THEOREM AddOnsInvariant == AddOnsSpec => []IInv
<1>1. AddOnsInit => IInv
  BY InitGives
<1>2. IInv /\ [AddOnsNext]_addOnVars => IInv'
  BY NextKeeps DEF StepKeepsWord
<1> QED
  BY <1>1, <1>2, PTL DEF AddOnsSpec

\* No list and no outcome of one license's add-ons is listened to under another
\* (resetAddOns, and the generations a continuation compares).
THEOREM AnswersStayWithTheLicense == AddOnsSpec => []AnswersAreForTheLicense
<1>1. IInv => AnswersAreForTheLicense
  BY DEF IInv
<1> QED
  BY <1>1, AddOnsInvariant, PTL

\* A spinner has something to wait for: the call, the list, or the check that
\* lists next is on its way, in whatever order handlers outdate one another.
THEOREM SpinnersHaveAnEnd == AddOnsSpec => []SpinnersEnd
<1>1. IInv => SpinnersEnd
  BY DEF IInv, SpinnersEnd, AddOnsOK, StateOK, MessagesOK, SetUpEnds, ListEnds
<1> QED
  BY <1>1, AddOnsInvariant, PTL

\* Answers of two workers are applied in the order the server gave them
\* (onlineCalls_), so the copy held never goes back.
THEOREM AnswersKeepTheirOrder == AddOnsSpec => AnswersInOrder
<1>1. IInv /\ [AddOnsNext]_addOnVars => [license' = license => at' >= at]_addOnVars
  BY NextKeeps DEF StepKeepsWord
<1> QED
  BY <1>1, AddOnsInvariant, PTL DEF AddOnsSpec, AnswersInOrder

\* A customer who comes back from the store within the hour sees a list asked for
\* since (checkPurchaseReturn), unless the license is another by then.
THEOREM PurchasesAreFollowedUp == AddOnsSpec => PurchaseFollowedUp
<1>1. IInv /\ [AddOnsNext]_addOnVars =>
        [purchase # "none" /\ purchase' = "none" =>
           \/ purchase = "old" \/ license' # license
           \/ phase' = "Loading" /\ Len(jobs') > Len(jobs)]_addOnVars
  BY NextKeeps DEF StepKeepsWord
<1> QED
  BY <1>1, AddOnsInvariant, PTL DEF AddOnsSpec, PurchaseFollowedUp

=============================================================================

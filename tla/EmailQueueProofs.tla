-------------------------- MODULE EmailQueueProofs --------------------------
(***************************************************************************)
(* Proofs about the e-mail queue, for any set of mails and consumers, any  *)
(* retry limit and batch size, and any number of failed calls and crashes. *)
(***************************************************************************)
EXTENDS EmailQueue, RedisStreamsProofs

MailOf(i) == stream.log[i].mail
AttemptsOf(i) == stream.log[i].attempts

DataOK ==
  /\ asked \subseteq Mails
  /\ stream \in StreamOf(Entry)
  /\ shelved \subseteq Mails
  /\ tries \in [Mails -> Nat]
  /\ sent \in [Mails -> Nat]
  /\ faults \in Nat

ConsumersOK ==
  /\ stage \in [Consumers -> Stages]
  /\ hand \in [Consumers -> SUBSET Nat]
  /\ \A c \in Consumers : hand[c] \subseteq Entries(stream)
  /\ loop \in [Consumers -> {"claim", "read"}]

\* The type invariant is the conjunction of its two parts.
LEMMA TypeParts == TypeOK <=> DataOK /\ ConsumersOK
BY DEF TypeOK, DataOK, ConsumersOK

-----------------------------------------------------------------------------
(* The inductive invariant.                                                *)

\* The mail of entry i is settled or in a later entry that is to be acknowledged.
PassedOn(i) ==
  \/ \E k \in Unacked(stream) : k > i /\ MailOf(k) = MailOf(i)
  \/ Settled(MailOf(i))

\* What consumer c has done for the entry i that it is handling.
Duty(c, i) ==
  /\ stage[c] = "ack" => sent[MailOf(i)] > 0
  /\ stage[c] = "done" => PassedOn(i)
  /\ stage[c] \in {"ack", "retry", "shelve"} => tries[MailOf(i)] > AttemptsOf(i)
  /\ stage[c] = "shelve" => AttemptsOf(i) >= MaxRetries

Duties(c) == \A i \in hand[c] : First(c, i) => Duty(c, i)

\* The mail server was called once for each attempt that an entry counts.
AttemptsMade == \A i \in Entries(stream) : AttemptsOf(i) <= tries[MailOf(i)]

IInv ==
  /\ TypeOK
  /\ \A c \in Consumers : Duties(c)
  /\ NoMailLost
  /\ AttemptsMade
  /\ ShelvedAfterAllTries

-----------------------------------------------------------------------------
(* What a step does to the queue.                                          *)

\* Nothing is forgotten, and at most entry a is acknowledged.
Kept(a) ==
  /\ DataOK'
  /\ Extends(stream, stream')
  /\ Unacked(stream) \ {a} \subseteq Unacked(stream')
  /\ shelved \subseteq shelved'
  /\ \A m \in Mails : tries'[m] >= tries[m] /\ sent'[m] >= sent[m]

\* What a new entry counts, and the mails that are shelved, were tried.
Counted ==
  /\ \A i \in Entries(stream') \ Entries(stream) :
       stream'.log[i].attempts <= tries'[stream'.log[i].mail]
  /\ \A m \in shelved' \ shelved : tries'[m] > MaxRetries

\* A step that keeps the invariant.
GoodStep ==
  /\ ConsumersOK'
  /\ Counted
  /\ \E a : Kept(a) /\ (a \in Entries(stream) => PassedOn(a))

\* An entry in the hand of a consumer is an entry of the stream.
LEMMA AtHand ==
  ASSUME TypeOK, NEW i \in Entries(stream)
  PROVE  /\ i \in Nat /\ MailOf(i) \in Mails /\ AttemptsOf(i) \in Nat
         /\ stream.log[i] \in Entry
<1>1. stream \in StreamOf(Entry)
  BY DEF TypeOK
<1>2. i \in Nat /\ stream.log[i] \in Entry
  BY <1>1, StreamFields
<1> QED
  BY <1>2 DEF Entry, MailOf, AttemptsOf

\* What an old entry carries does not change.
LEMMA SameEntry ==
  ASSUME TypeOK, NEW a, Kept(a), NEW i \in Entries(stream)
  PROVE  /\ i \in Entries(stream')
         /\ MailOf(i)' = MailOf(i) /\ AttemptsOf(i)' = AttemptsOf(i)
BY DEF Kept, Extends, MailOf, AttemptsOf

\* What is settled stays settled.
LEMMA SettledKept ==
  ASSUME TypeOK, NEW a, Kept(a), NEW m \in Mails, Settled(m)
  PROVE  Settled(m)'
<1>1. sent[m] \in Nat /\ sent'[m] \in Nat /\ sent'[m] >= sent[m]
  BY DEF TypeOK, Kept, DataOK
<1> QED
  BY <1>1 DEF Kept, Settled

\* A mail that was passed on is still passed on when entry a is acknowledged,
\* because the mail of a was passed on to a later entry.
LEMMA PassedOnKept ==
  ASSUME TypeOK, NEW a, Kept(a), a \in Entries(stream) => PassedOn(a),
         NEW i \in Entries(stream), PassedOn(i)
  PROVE  PassedOn(i)'
<1>1. i \in Nat /\ MailOf(i) \in Mails /\ MailOf(i)' = MailOf(i)
  BY AtHand, SameEntry
<1>2. CASE Settled(MailOf(i))
  BY <1>1, <1>2, SettledKept DEF PassedOn, Settled
<1>3. ASSUME NEW k \in Unacked(stream), k > i, MailOf(k) = MailOf(i), k # a
      PROVE  PassedOn(i)'
  <2>1. k \in Entries(stream)
    BY DEF Unacked
  <2>2. k \in Unacked(stream') /\ MailOf(k)' = MailOf(k)
    BY <1>3, <2>1, SameEntry DEF Kept
  <2> QED
    BY <1>1, <1>3, <2>2 DEF PassedOn
<1>4. CASE a \in Unacked(stream) /\ a > i /\ MailOf(a) = MailOf(i)
  <2>1. a \in Entries(stream) /\ a \in Nat
    BY <1>4, AtHand DEF Unacked
  <2>2. CASE Settled(MailOf(a))
    BY <1>2, <1>4, <2>2
  <2>3. ASSUME NEW k \in Unacked(stream), k > a, MailOf(k) = MailOf(a)
        PROVE  PassedOn(i)'
    <3>1. k \in Nat
      BY AtHand DEF Unacked
    <3> QED
      BY <1>1, <1>3, <1>4, <2>1, <2>3, <3>1
  <2> QED
    BY <2>1, <2>2, <2>3 DEF PassedOn
<1> QED
  BY <1>2, <1>3, <1>4 DEF PassedOn

\* The duties of a consumer that does not move are met by the steps of others.
LEMMA QuietKept ==
  ASSUME TypeOK, NEW a, Kept(a), a \in Entries(stream) => PassedOn(a),
         NEW c \in Consumers, Duties(c), stage'[c] = stage[c], hand'[c] = hand[c]
  PROVE  Duties(c)'
<1> SUFFICES ASSUME NEW i \in hand[c], First(c, i)
             PROVE  Duty(c, i)'
  BY DEF Duties, First
<1>1. i \in Entries(stream)
  BY DEF TypeOK
<1>2. /\ MailOf(i) \in Mails /\ MailOf(i)' = MailOf(i)
      /\ AttemptsOf(i) \in Nat /\ AttemptsOf(i)' = AttemptsOf(i)
  BY <1>1, AtHand, SameEntry
<1>3. /\ tries'[MailOf(i)] >= tries[MailOf(i)] /\ sent'[MailOf(i)] >= sent[MailOf(i)]
      /\ tries[MailOf(i)] \in Nat /\ sent[MailOf(i)] \in Nat
      /\ tries'[MailOf(i)] \in Nat /\ sent'[MailOf(i)] \in Nat
  BY <1>2 DEF Kept, DataOK, TypeOK
<1>4. Duty(c, i)
  BY DEF Duties
<1>5. stage[c] = "done" => PassedOn(i)'
  BY <1>1, <1>4, PassedOnKept DEF Duty
<1> QED
  BY <1>2, <1>3, <1>4, <1>5 DEF Duty

\* A good step that leaves the duties of its own consumer met keeps the invariant.
LEMMA GoodStepKeeps ==
  ASSUME IInv, EmailAssumption, GoodStep,
         \A c \in Consumers : \/ stage'[c] = stage[c] /\ hand'[c] = hand[c]
                              \/ Duties(c)'
  PROVE  IInv'
<1>1. PICK a : Kept(a) /\ (a \in Entries(stream) => PassedOn(a))
  BY DEF GoodStep
<1>2. TypeOK'
  <2>1. ConsumersOK' /\ DataOK'
    BY <1>1 DEF GoodStep, Kept
  <2> QED
    BY <2>1 DEF TypeOK, DataOK, ConsumersOK
<1>3. \A c \in Consumers : Duties(c)'
  BY <1>1, QuietKept DEF IInv
<1>4. NoMailLost'
  <2> SUFFICES ASSUME NEW i \in Entries(stream')
               PROVE  \/ Settled(MailOf(i))'
                      \/ \E k \in Unacked(stream') : MailOf(k)' = MailOf(i)'
    BY DEF NoMailLost, MailOf, Settled
  <2>1. CASE i \notin Entries(stream)
    BY <1>1, <2>1 DEF Kept, Extends
  <2>2. CASE i \in Entries(stream)
    <3>1. MailOf(i) \in Mails /\ MailOf(i)' = MailOf(i)
      BY <1>1, <2>2, AtHand, SameEntry DEF IInv
    <3>2. CASE Settled(MailOf(i))
      BY <1>1, <3>1, <3>2, SettledKept DEF IInv, Settled
    <3>3. ASSUME NEW k \in Unacked(stream), MailOf(k) = MailOf(i), k # a
          PROVE  \E q \in Unacked(stream') : MailOf(q)' = MailOf(i)'
      BY <1>1, <3>1, <3>3, SameEntry DEF Kept, Unacked, IInv
    <3>4. CASE a \in Unacked(stream) /\ MailOf(a) = MailOf(i)
      <4>1. a \in Entries(stream) /\ PassedOn(a) /\ a \in Nat
        BY <1>1, <3>4, AtHand DEF Unacked, IInv
      <4>2. CASE Settled(MailOf(a))
        BY <3>2, <3>4, <4>2
      <4>3. ASSUME NEW k \in Unacked(stream), k > a, MailOf(k) = MailOf(a)
            PROVE  \E q \in Unacked(stream') : MailOf(q)' = MailOf(i)'
        BY <3>3, <3>4, <4>1, <4>3
      <4> QED
        BY <4>1, <4>2, <4>3 DEF PassedOn
    <3> QED
      BY <2>2, <3>2, <3>3, <3>4 DEF IInv, NoMailLost, MailOf
  <2> QED
    BY <2>1, <2>2
<1>5. AttemptsMade'
  <2> SUFFICES ASSUME NEW i \in Entries(stream')
               PROVE  AttemptsOf(i)' <= tries'[MailOf(i)']
    BY DEF AttemptsMade, MailOf, AttemptsOf
  <2>1. CASE i \notin Entries(stream)
    BY <2>1 DEF GoodStep, Counted, MailOf, AttemptsOf
  <2>2. CASE i \in Entries(stream)
    <3>1. /\ MailOf(i) \in Mails /\ MailOf(i)' = MailOf(i)
          /\ AttemptsOf(i) \in Nat /\ AttemptsOf(i)' = AttemptsOf(i)
      BY <1>1, <2>2, AtHand, SameEntry DEF IInv
    <3>2. /\ tries'[MailOf(i)] >= tries[MailOf(i)]
          /\ tries[MailOf(i)] \in Nat /\ tries'[MailOf(i)] \in Nat
      BY <1>1, <3>1 DEF Kept, DataOK, IInv, TypeOK
    <3> QED
      BY <2>2, <3>1, <3>2 DEF IInv, AttemptsMade
  <2> QED
    BY <2>1, <2>2
<1>6. ShelvedAfterAllTries'
  <2> SUFFICES ASSUME NEW m \in shelved'
               PROVE  tries'[m] > MaxRetries
    BY DEF ShelvedAfterAllTries
  <2>1. CASE m \notin shelved
    BY <2>1 DEF GoodStep, Counted
  <2>2. CASE m \in shelved
    <3>1. tries'[m] >= tries[m] /\ tries[m] \in Nat /\ tries'[m] \in Nat
      BY <1>1, <2>2 DEF Kept, DataOK, IInv, TypeOK
    <3> QED
      BY <2>2, <3>1 DEF IInv, ShelvedAfterAllTries, EmailAssumption
  <2> QED
    BY <2>1, <2>2
<1> QED
  BY <1>2, <1>3, <1>4, <1>5, <1>6 DEF IInv

-----------------------------------------------------------------------------
(* What each call does to the queue.                                       *)

\* A step that adds no attempt and no delivery.
Untried == asked' \subseteq Mails /\ faults' \in Nat /\ UNCHANGED mailVars

\* Reading, claiming and waiting.
LEMMA Polls ==
  ASSUME TypeOK, EmailAssumption, Untried, UNCHANGED shelved,
         \/ UNCHANGED stream
         \/ stream' = XAutoClaim(stream, BatchSize)
         \/ stream' = XReadGroup(stream, BatchSize)
         \/ \E i \in stream.pending : stream' = TurnsIdle(stream, i)
  PROVE  Kept(0) /\ Counted
<1>1. stream \in StreamOf(Entry) /\ BatchSize \in Nat
  BY DEF TypeOK, EmailAssumption
<1>2. stream' \in StreamOf(Entry) /\ Extends(stream, stream')
      /\ Unacked(stream') = Unacked(stream)
  BY <1>1, XAutoClaimFacts, XReadGroupFacts, TurnsIdleFacts DEF Extends
<1>3. Entries(stream') = Entries(stream)
  BY DEF Entries, XAutoClaim, XReadGroup, TurnsIdle
<1> QED
  BY <1>2, <1>3 DEF TypeOK, Untried, mailVars, Kept, DataOK, Counted

\* Writing a mail with its attempts to the stream.
LEMMA Adds ==
  ASSUME TypeOK, Untried, UNCHANGED shelved, NEW m \in Mails, NEW n \in Nat,
         n <= tries[m], Push(m, n)
  PROVE  /\ Kept(0) /\ Counted
         /\ \E k \in Unacked(stream') :
              MailOf(k)' = m /\ \A i \in Entries(stream) : k > i
<1> DEFINE x == [mail |-> m, attempts |-> n]
<1> DEFINE k == Len(stream.log) + 1
<1>1. stream \in StreamOf(Entry) /\ x \in Entry /\ stream' = XAdd(stream, x)
  BY DEF TypeOK, Entry, Push
<1>2. /\ stream' \in StreamOf(Entry) /\ Extends(stream, stream')
      /\ Entries(stream') = Entries(stream) \cup {k}
      /\ Unacked(stream') = Unacked(stream) \cup {k}
      /\ stream'.log[k] = x
  BY <1>1, XAddFacts
<1>3. \A i \in Entries(stream) : k > i
  BY <1>1, StreamFields DEF Entries
<1>4. stream'.log[k].mail = m /\ stream'.log[k].attempts = n
  BY <1>2
<1> HIDE DEF k
<1>5. Kept(0)
  BY <1>2 DEF TypeOK, Untried, mailVars, Kept, DataOK
<1>6. Counted
  BY <1>2, <1>4 DEF Untried, mailVars, Counted
<1> QED
  BY <1>2, <1>3, <1>4, <1>5, <1>6 DEF MailOf

\* Acknowledging an entry.
LEMMA Acks ==
  ASSUME TypeOK, Untried, UNCHANGED shelved, NEW i, stream' = XAck(stream, i)
  PROVE  Kept(i) /\ Counted
<1>1. stream \in StreamOf(Entry)
  BY DEF TypeOK
<1>2. /\ stream' \in StreamOf(Entry) /\ Extends(stream, stream')
      /\ Entries(stream') = Entries(stream)
      /\ Unacked(stream) \ {i} \subseteq Unacked(stream')
  BY <1>1, XAckFacts
<1> QED
  BY <1>2 DEF TypeOK, Untried, mailVars, Kept, DataOK, Counted

\* Writing a mail that was tried often enough to the dead letter stream.
LEMMA Shelves ==
  ASSUME TypeOK, Untried, UNCHANGED stream, NEW m \in Mails, tries[m] > MaxRetries,
         shelved' = shelved \cup {m}
  PROVE  Kept(0) /\ Counted
BY DEF TypeOK, Untried, mailVars, Kept, DataOK, Counted, Extends

\* Calling the mail server.
LEMMA Sends ==
  ASSUME TypeOK, AttemptsMade, NEW i \in Entries(stream), Try(i),
         Deliver(i) \/ UNCHANGED sent, UNCHANGED <<asked, stream, shelved>>, faults' \in Nat
  PROVE  /\ Kept(0) /\ Counted
         /\ tries'[MailOf(i)] > AttemptsOf(i)
         /\ Deliver(i) => sent'[MailOf(i)] > 0
<1>1. MailOf(i) \in Mails /\ AttemptsOf(i) \in Nat
  BY AtHand
<1>2. /\ tries' = [tries EXCEPT ![MailOf(i)] = @ + 1]
      /\ Deliver(i) => sent' = [sent EXCEPT ![MailOf(i)] = @ + 1]
  BY DEF Try, Deliver, MailOf
<1>3. /\ tries \in [Mails -> Nat] /\ tries' \in [Mails -> Nat]
      /\ \A m \in Mails : tries'[m] >= tries[m]
      /\ tries'[MailOf(i)] = tries[MailOf(i)] + 1
  BY <1>1, <1>2 DEF TypeOK
<1>4. /\ sent' \in [Mails -> Nat]
      /\ \A m \in Mails : sent'[m] >= sent[m]
      /\ Deliver(i) => sent'[MailOf(i)] > 0
  BY <1>1, <1>2 DEF TypeOK
<1>5. Kept(0) /\ Counted
  BY <1>3, <1>4 DEF TypeOK, Kept, DataOK, Counted, Extends
<1>6. AttemptsOf(i) <= tries[MailOf(i)] /\ tries[MailOf(i)] \in Nat
  BY <1>1, <1>3 DEF AttemptsMade
<1> QED
  BY <1>1, <1>3, <1>4, <1>5, <1>6

-----------------------------------------------------------------------------
(* What each kind of control step does to the consumers.                   *)

\* A consumer that goes on with its entry at stage s.
LEMMA GotoKeeps ==
  ASSUME IInv, EmailAssumption, NEW c \in Consumers, NEW i \in hand[c], First(c, i),
         NEW s \in Stages, Goto(c, s), NEW a, Kept(a), Counted,
         a \in Entries(stream) => PassedOn(a),
         s = "ack" => sent'[MailOf(i)] > 0,
         s = "done" => PassedOn(i)',
         s \in {"ack", "retry", "shelve"} => tries'[MailOf(i)] > AttemptsOf(i),
         s = "shelve" => AttemptsOf(i) >= MaxRetries
  PROVE  IInv'
<1>1. TypeOK /\ i \in Entries(stream) /\ hand[c] \subseteq Nat
  BY DEF IInv, TypeOK
<1>2. ConsumersOK' /\ stage'[c] = s /\ hand' = hand
      /\ \A q \in Consumers : q # c => stage'[q] = stage[q]
  BY <1>1 DEF TypeOK, ConsumersOK, Goto, Kept, Extends
<1>4. GoodStep
  BY <1>2 DEF GoodStep
<1>5. MailOf(i)' = MailOf(i) /\ AttemptsOf(i)' = AttemptsOf(i)
  BY <1>1, SameEntry
<1>6. Duty(c, i)'
  BY <1>2, <1>5 DEF Duty
<1>7. \A k \in hand[c] : First(c, k)' => k = i
  BY <1>1, <1>2 DEF First
<1>8. Duties(c)'
  BY <1>2, <1>6, <1>7 DEF Duties
<1> QED
  BY <1>2, <1>4, <1>8, GoodStepKeeps

\* A consumer that has no entry under way.
LEMMA FreshKeeps ==
  ASSUME IInv, EmailAssumption, NEW c \in Consumers, NEW a, Kept(a), Counted,
         a \in Entries(stream) => PassedOn(a),
         NEW s \in {"poll", "send", "down"}, stage' = [stage EXCEPT ![c] = s],
         NEW h \in SUBSET Nat, h \subseteq Entries(stream'), hand' = [hand EXCEPT ![c] = h],
         NEW l \in {"claim", "read"}, loop' = [loop EXCEPT ![c] = l]
  PROVE  IInv'
<1>1. TypeOK
  BY DEF IInv
<1>2. s \in Stages
  BY DEF Stages
<1>3. /\ stage' \in [Consumers -> Stages] /\ stage'[c] = s
      /\ \A q \in Consumers : q # c => stage'[q] = stage[q]
  BY <1>1, <1>2 DEF TypeOK
<1>4. /\ hand' \in [Consumers -> SUBSET Nat] /\ hand'[c] = h
      /\ \A q \in Consumers : q # c => hand'[q] = hand[q]
  BY <1>1 DEF TypeOK
<1>5. ConsumersOK'
  BY <1>1, <1>3, <1>4 DEF TypeOK, ConsumersOK, Kept, Extends
<1>6. GoodStep
  BY <1>5 DEF GoodStep
<1>7. Duties(c)'
  BY <1>3 DEF Duties, Duty
<1> QED
  BY <1>3, <1>4, <1>6, <1>7, GoodStepKeeps

\* A consumer that is stopped.
LEMMA StopKeeps ==
  ASSUME IInv, EmailAssumption, NEW c \in Consumers, NEW a, Kept(a), Counted,
         a \in Entries(stream) => PassedOn(a), Stop(c)
  PROVE  IInv'
<1>1. /\ stage' = [stage EXCEPT ![c] = "down"]
      /\ hand' = [hand EXCEPT ![c] = {}]
      /\ loop' = [loop EXCEPT ![c] = "claim"]
  BY DEF Stop
<1>2. {} \in SUBSET Nat /\ {} \subseteq Entries(stream')
  OBVIOUS
<1> QED
  BY <1>1, <1>2, FreshKeeps

\* A step of nobody.
LEMMA ElseKeeps ==
  ASSUME IInv, EmailAssumption, Kept(0), Counted, UNCHANGED consumerVars
  PROVE  IInv'
<1>1. ConsumersOK'
  BY DEF IInv, TypeOK, ConsumersOK, consumerVars, Kept, Extends
<1>2. GoodStep
  BY <1>1 DEF GoodStep, Entries
<1> QED
  BY <1>2, GoodStepKeeps DEF consumerVars

\* What a consumer does after an error.
LEMMA HandleFailureKeeps ==
  ASSUME IInv, EmailAssumption, NEW c \in Consumers, NEW i \in hand[c], First(c, i),
         NEW a, Kept(a), Counted, a \in Entries(stream) => PassedOn(a),
         tries'[MailOf(i)] > AttemptsOf(i), HandleFailure(c, i)
  PROVE  IInv'
<1>1. i \in Entries(stream) /\ AttemptsOf(i) \in Nat /\ MaxRetries \in Nat
  BY AtHand DEF IInv, TypeOK, EmailAssumption
<1>2. CASE AttemptsOf(i) + 1 > MaxRetries /\ Goto(c, "shelve")
  BY <1>1, <1>2, GotoKeeps DEF Stages
<1>3. CASE Goto(c, "retry")
  BY <1>3, GotoKeeps DEF Stages
<1> QED
  BY <1>2, <1>3 DEF HandleFailure, AttemptsOf

-----------------------------------------------------------------------------
(* Each step keeps the invariant.                                          *)

\* Entry 0 does not exist: Kept(0) acknowledges nothing.
LEMMA NoEntryZero == 0 \notin Entries(stream)
BY DEF Entries

\* Queueing a mail.
LEMMA EnqueueStep ==
  ASSUME IInv, EmailAssumption, NEW m \in Mails, Enqueue(m) \/ EnqueueFails(m)
  PROVE  IInv'
<1>1. TypeOK /\ 0 \in Nat /\ 0 <= tries[m]
  BY DEF IInv, TypeOK
<1>2. Untried /\ UNCHANGED shelved /\ UNCHANGED consumerVars
  BY <1>1 DEF Enqueue, EnqueueFails, Fault, Untried, TypeOK
<1>3. CASE Push(m, 0)
  BY <1>1, <1>2, <1>3, Adds, ElseKeeps
<1>4. CASE UNCHANGED stream
  BY <1>1, <1>2, <1>4, Polls, ElseKeeps
<1> QED
  BY <1>3, <1>4 DEF Enqueue, EnqueueFails

\* Taking a batch, of claimed or of new entries.
LEMMA PollStep ==
  ASSUME IInv, EmailAssumption, NEW c \in Consumers, Claim(c) \/ Read(c)
  PROVE  IInv'
<1>1. TypeOK /\ stream \in StreamOf(Entry) /\ BatchSize \in Nat
  BY DEF IInv, TypeOK, EmailAssumption
<1>2. Untried /\ UNCHANGED shelved
  BY <1>1 DEF Claim, Read, Untried, TypeOK
<1>3. Kept(0) /\ Counted
  BY <1>1, <1>2, Polls DEF Claim, Read
<1>4. \E call \in {"claim", "read"} : \E ids \in SUBSET Entries(stream') :
        TakeBatch(c, call, ids)
  <2>1. CASE Claim(c)
    <3>1. IdleEntries(stream, BatchSize) \subseteq Entries(stream')
      BY <1>1, <2>1, XAutoClaimFacts DEF Claim
    <3> QED
      BY <2>1, <3>1 DEF Claim
  <2>2. CASE Read(c)
    <3>1. NewEntries(stream, BatchSize) \subseteq Entries(stream')
      BY <1>1, <2>2, XReadGroupFacts DEF Read
    <3> QED
      BY <2>2, <3>1 DEF Read
  <2> QED
    BY <2>1, <2>2
<1>5. PICK call \in {"claim", "read"} : \E ids \in SUBSET Entries(stream') :
        TakeBatch(c, call, ids)
  BY <1>4
<1>6. PICK ids \in SUBSET Entries(stream') : TakeBatch(c, call, ids)
  BY <1>5
<1>7. ids \in SUBSET Nat /\ ids \subseteq Entries(stream')
  BY DEF Entries
<1>8. PICK s \in {"poll", "send", "down"} : stage' = [stage EXCEPT ![c] = s]
  BY <1>6 DEF TakeBatch
<1>9. PICK l \in {"claim", "read"} : loop' = [loop EXCEPT ![c] = l]
  BY <1>6 DEF TakeBatch
<1> QED
  BY <1>3, <1>6, <1>7, <1>8, <1>9, FreshKeeps, NoEntryZero DEF TakeBatch

\* Calling the mail server.
LEMMA SendStep ==
  ASSUME IInv, EmailAssumption, NEW c \in Consumers, NEW i \in hand[c], First(c, i),
         Send(c, i) \/ SendFails(c, i) \/ SendReplyLost(c, i)
  PROVE  IInv'
<1>1. TypeOK /\ AttemptsMade /\ i \in Entries(stream) /\ faults' \in Nat
  BY DEF IInv, TypeOK, Send, SendFails, SendReplyLost, Fault
<1>2. /\ Try(i) /\ (Deliver(i) \/ UNCHANGED sent) /\ UNCHANGED <<asked, stream, shelved>>
  BY DEF Send, SendFails, SendReplyLost
<1>3. /\ Kept(0) /\ Counted /\ tries'[MailOf(i)] > AttemptsOf(i)
      /\ Deliver(i) => sent'[MailOf(i)] > 0
  BY <1>1, <1>2, Sends
<1>4. CASE Send(c, i)
  BY <1>3, <1>4, GotoKeeps, NoEntryZero DEF Send, Stages
<1>5. CASE HandleFailure(c, i)
  BY <1>3, <1>5, HandleFailureKeeps, NoEntryZero
<1> QED
  BY <1>4, <1>5 DEF SendFails, SendReplyLost

\* The Redis call of a stage: what it leaves behind when it takes effect.
LEMMA CallEffect ==
  ASSUME IInv, EmailAssumption, NEW c \in Consumers, NEW i \in hand[c], First(c, i),
         Call(c, i), Untried
  PROVE  /\ stage[c] \in {"ack", "done"} => Kept(i) /\ Counted /\ PassedOn(i)
         /\ stage[c] \in {"retry", "shelve"} => Kept(0) /\ Counted /\ PassedOn(i)'
<1>1. /\ TypeOK /\ i \in Entries(stream) /\ Duty(c, i)
      /\ MailOf(i) \in Mails /\ AttemptsOf(i) \in Nat
  BY AtHand DEF IInv, TypeOK, Duties
<1>2. tries[MailOf(i)] \in Nat
  BY <1>1 DEF TypeOK
<1>3. CASE stage[c] \in {"ack", "done"}
  BY <1>1, <1>3, Acks DEF Call, Duty, PassedOn, Settled
<1>4. CASE stage[c] = "retry"
  <2>1. Push(MailOf(i), AttemptsOf(i) + 1) /\ UNCHANGED shelved
    BY <1>4 DEF Call, MailOf, AttemptsOf
  <2>2. AttemptsOf(i) + 1 \in Nat /\ AttemptsOf(i) + 1 <= tries[MailOf(i)]
    BY <1>1, <1>2, <1>4 DEF Duty
  <2>3. /\ Kept(0) /\ Counted
        /\ \E k \in Unacked(stream') :
             MailOf(k)' = MailOf(i) /\ \A q \in Entries(stream) : k > q
    BY <1>1, <2>1, <2>2, Adds
  <2>4. MailOf(i)' = MailOf(i)
    BY <1>1, <2>3, SameEntry
  <2> QED
    BY <1>1, <1>4, <2>3, <2>4 DEF PassedOn
<1>5. CASE stage[c] = "shelve"
  <2>1. shelved' = shelved \cup {MailOf(i)} /\ UNCHANGED stream
    BY <1>5 DEF Call, MailOf
  <2>2. tries[MailOf(i)] > MaxRetries
    BY <1>1, <1>2, <1>5 DEF Duty, EmailAssumption
  <2>3. Kept(0) /\ Counted
    BY <1>1, <2>1, <2>2, Shelves
  <2>4. MailOf(i)' = MailOf(i)
    BY <1>1, <2>3, SameEntry
  <2> QED
    BY <1>5, <2>1, <2>3, <2>4 DEF PassedOn, Settled
<1> QED
  BY <1>3, <1>4, <1>5

\* A Redis call that returns.
LEMMA CallReturnsStep ==
  ASSUME IInv, EmailAssumption, NEW c \in Consumers, NEW i \in hand[c], First(c, i),
         CallReturns(c, i)
  PROVE  IInv'
<1>1. TypeOK /\ Untried /\ Call(c, i)
  BY DEF IInv, TypeOK, CallReturns, Untried
<1>2. CASE stage[c] \in {"ack", "done"}
  <2>1. Kept(i) /\ Counted /\ PassedOn(i)
    BY <1>1, <1>2, CallEffect
  <2>2. FinishEntry(c, i)
    BY <1>2 DEF CallReturns
  <2>3. PICK s \in {"poll", "send", "down"} : stage' = [stage EXCEPT ![c] = s]
    BY <2>2 DEF FinishEntry
  <2>4. hand' = [hand EXCEPT ![c] = hand[c] \ {i}]
    BY <2>2 DEF FinishEntry
  <2>5. hand[c] \ {i} \in SUBSET Nat /\ hand[c] \ {i} \subseteq Entries(stream')
    BY <1>1, <2>1 DEF TypeOK, Kept, Extends
  <2>6. PICK l \in {"claim", "read"} : loop' = [loop EXCEPT ![c] = l]
    BY <1>1, <2>2 DEF FinishEntry, TypeOK
  <2> QED
    BY <2>1, <2>3, <2>4, <2>5, <2>6, FreshKeeps
<1>3. CASE stage[c] \in {"retry", "shelve"}
  <2>1. Kept(0) /\ Counted /\ PassedOn(i)'
    BY <1>1, <1>3, CallEffect
  <2>2. Goto(c, "done")
    BY <1>3 DEF CallReturns
  <2> QED
    BY <2>1, <2>2, GotoKeeps, NoEntryZero DEF Stages
<1> QED
  BY <1>1, <1>2, <1>3 DEF Call

\* A Redis call that fails, with or without effect.
LEMMA CallFailsStep ==
  ASSUME IInv, EmailAssumption, NEW c \in Consumers, NEW i \in hand[c], First(c, i),
         CallFails(c, i)
  PROVE  IInv'
<1>1. /\ TypeOK /\ Untried /\ i \in Entries(stream) /\ Duty(c, i)
      /\ MailOf(i) \in Mails /\ AttemptsOf(i) \in Nat
  BY AtHand DEF IInv, TypeOK, CallFails, Fault, Untried, Duties
<1>2. CASE stage[c] = "ack"
  <2>1. HandleFailure(c, i) /\ tries'[MailOf(i)] > AttemptsOf(i)
    BY <1>1, <1>2 DEF CallFails, Untried, mailVars, Duty
  <2>2. PICK a : Kept(a) /\ Counted /\ (a \in Entries(stream) => PassedOn(a))
    <3>1. CASE Call(c, i)
      BY <1>1, <1>2, <3>1, CallEffect
    <3>2. CASE UNCHANGED <<stream, shelved>>
      BY <1>1, <3>2, Polls, NoEntryZero
    <3> QED
      BY <3>1, <3>2 DEF CallFails
  <2> QED
    BY <2>1, <2>2, HandleFailureKeeps
<1>3. CASE stage[c] # "ack"
  <2>1. Stop(c)
    BY <1>3 DEF CallFails
  <2>2. PICK a : Kept(a) /\ Counted /\ (a \in Entries(stream) => PassedOn(a))
    <3>1. CASE Call(c, i)
      BY <1>1, <1>3, <3>1, CallEffect, NoEntryZero DEF CallFails
    <3>2. CASE UNCHANGED <<stream, shelved>>
      BY <1>1, <3>2, Polls, NoEntryZero
    <3> QED
      BY <3>1, <3>2 DEF CallFails
  <2> QED
    BY <2>1, <2>2, StopKeeps
<1> QED
  BY <1>2, <1>3

\* A consumer that stops or is started again.
LEMMA StopStep ==
  ASSUME IInv, EmailAssumption, NEW c \in Consumers,
         PollFails(c) \/ Crash(c) \/ Restart(c)
  PROVE  IInv'
<1>1. TypeOK /\ Untried /\ UNCHANGED shelved
  BY DEF IInv, TypeOK, PollFails, Crash, Restart, Fault, Untried
<1>2. Kept(0) /\ Counted
  BY <1>1, Polls DEF PollFails, Crash, Restart
<1>3. CASE Stop(c)
  BY <1>2, <1>3, StopKeeps, NoEntryZero
<1>4. CASE Restart(c)
  <2>1. /\ stage' = [stage EXCEPT ![c] = "poll"]
        /\ hand' = [hand EXCEPT ![c] = hand[c]]
        /\ loop' = [loop EXCEPT ![c] = loop[c]]
    BY <1>1, <1>4 DEF Restart, Goto, TypeOK
  <2>2. /\ hand[c] \in SUBSET Nat /\ hand[c] \subseteq Entries(stream')
        /\ loop[c] \in {"claim", "read"}
    BY <1>1, <1>2 DEF TypeOK, Kept, Extends
  <2> QED
    BY <1>2, <2>1, <2>2, FreshKeeps, NoEntryZero
<1> QED
  BY <1>3, <1>4 DEF PollFails, Crash

\* The invariant holds at the start.
LEMMA InitIInv == Init /\ EmailAssumption => IInv
<1> SUFFICES ASSUME Init, EmailAssumption PROVE IInv
  OBVIOUS
<1>1. stream \in StreamOf(Entry) /\ Entries(stream) = {}
  BY EmptyStreamType DEF Init, Entries, EmptyStream
<1> QED
  BY <1>1 DEF Init, IInv, TypeOK, Stages, Duties, NoMailLost, AttemptsMade,
              ShelvedAfterAllTries

\* Every step keeps the invariant.
LEMMA NextIInv == IInv /\ EmailAssumption /\ [Next]_vars => IInv'
<1> SUFFICES ASSUME IInv, EmailAssumption, [Next]_vars PROVE IInv'
  OBVIOUS
<1>1. ASSUME NEW m \in Mails, Enqueue(m) \/ EnqueueFails(m) PROVE IInv'
  BY <1>1, EnqueueStep
<1>2. ASSUME NEW c \in Consumers, Claim(c) \/ Read(c) PROVE IInv'
  BY <1>2, PollStep
<1>3. ASSUME NEW c \in Consumers, NEW i \in hand[c], First(c, i),
             \/ Send(c, i) \/ SendFails(c, i) \/ SendReplyLost(c, i)
             \/ CallReturns(c, i) \/ CallFails(c, i)
      PROVE  IInv'
  BY <1>3, SendStep, CallReturnsStep, CallFailsStep
<1>4. ASSUME NEW c \in Consumers, PollFails(c) \/ Crash(c) \/ Restart(c) PROVE IInv'
  BY <1>4, StopStep
<1>5. ASSUME NEW i \in stream.pending, EntryTurnsIdle(i) PROVE IInv'
  <2>1. TypeOK /\ Untried /\ UNCHANGED shelved
    BY <1>5 DEF IInv, TypeOK, EntryTurnsIdle, Untried
  <2>2. Kept(0) /\ Counted
    BY <1>5, <2>1, Polls DEF EntryTurnsIdle
  <2> QED
    BY <1>5, <2>2, ElseKeeps DEF EntryTurnsIdle
<1>6. CASE UNCHANGED vars
  <2>1. TypeOK /\ Untried /\ UNCHANGED shelved
    BY <1>6 DEF vars, mailVars, IInv, TypeOK, Untried
  <2>2. Kept(0) /\ Counted
    BY <1>6, <2>1, Polls DEF vars
  <2> QED
    BY <1>6, <2>2, ElseKeeps DEF vars
<1> QED
  BY <1>1, <1>2, <1>3, <1>4, <1>5, <1>6 DEF Next, ConsumerStep

\* The invariant holds in every reachable state.
LEMMA Invariant == Spec => []IInv
BY InitIInv, NextIInv, EmailAssumption, PTL DEF Spec

(***************************************************************************)
(* Every variable keeps its type, and a consumer holds only entries that   *)
(* the stream has.                                                         *)
(***************************************************************************)
THEOREM TypeCorrect == Spec => []TypeOK
<1>1. IInv => TypeOK
  BY DEF IInv
<1> QED
  BY <1>1, Invariant, PTL

(***************************************************************************)
(* A queued mail is sent, shelved, or still in an entry that has to be     *)
(* acknowledged, whatever fails, however many consumers share the stream   *)
(* and however often an entry changes hands.                               *)
(***************************************************************************)
THEOREM MailsAreNeverLost == Spec => []NoMailLost
<1>1. IInv => NoMailLost
  BY DEF IInv
<1> QED
  BY <1>1, Invariant, PTL

(***************************************************************************)
(* A mail goes to the dead letter stream only after more than MaxRetries   *)
(* calls of the mail server.                                               *)
(***************************************************************************)
THEOREM MailsAreTriedBeforeShelving == Spec => []ShelvedAfterAllTries
<1>1. IInv => ShelvedAfterAllTries
  BY DEF IInv
<1> QED
  BY <1>1, Invariant, PTL

-----------------------------------------------------------------------------
(* The queue implements the promise of a job queue.                        *)

accepted == { stream.log[i].mail : i \in Entries(stream) }
settled  == { m \in Mails : Settled(m) }

\* A step of the promise, or none.
Promised == [Delivery!Next]_(Delivery!vars)

\* The stream commands other than XADD leave the mails of the stream alone.
LEMMA SameMails ==
  ASSUME stream'.log = stream.log
  PROVE  accepted' = accepted
BY DEF accepted, Entries

\* Adding an entry accepts its mail, or repeats one.
LEMMA PushIsPromised ==
  ASSUME TypeOK, NEW m \in Mails, NEW n \in Nat, Push(m, n), UNCHANGED <<shelved, sent>>
  PROVE  Promised
<1> DEFINE x == [mail |-> m, attempts |-> n]
<1> DEFINE k == Len(stream.log) + 1
<1>1. stream \in StreamOf(Entry) /\ x \in Entry /\ stream' = XAdd(stream, x)
  BY DEF TypeOK, Entry, Push
<1>2. /\ Extends(stream, stream')
      /\ Entries(stream') = Entries(stream) \cup {k}
      /\ stream'.log[k] = x
  BY <1>1, XAddFacts
<1>3. \A i \in Entries(stream) : stream'.log[i] = stream.log[i]
  BY <1>2 DEF Extends
<1>4. stream'.log[k].mail = m
  BY <1>2
<1> HIDE DEF k
<1>5. accepted' = accepted \cup {m}
  BY <1>2, <1>3, <1>4 DEF accepted
<1>6. settled' = settled
  BY DEF settled, Settled
<1>7. CASE m \in accepted
  BY <1>5, <1>6, <1>7 DEF Promised, Delivery!vars, accepted, settled
<1>8. CASE m \notin accepted
  BY <1>5, <1>6, <1>8
     DEF Promised, Delivery!Next, Delivery!Accept, accepted, settled
<1> QED
  BY <1>7, <1>8

\* A step that settles at most the mail of an entry of the stream.
LEMMA SettlingIsPromised ==
  ASSUME TypeOK, stream'.log = stream.log, NEW i \in Entries(stream),
         settled' = settled \/ settled' = settled \cup {MailOf(i)}
  PROVE  Promised
<1>1. accepted' = accepted /\ MailOf(i) \in accepted /\ MailOf(i) \in Mails
  BY SameMails, AtHand DEF accepted, MailOf
<1>2. CASE settled' = settled
  BY <1>1, <1>2 DEF Promised, Delivery!vars, accepted, settled
<1>3. CASE MailOf(i) \notin settled /\ settled' = settled \cup {MailOf(i)}
  BY <1>1, <1>3 DEF Promised, Delivery!Next, Delivery!Settle, accepted, settled
<1> QED
  BY <1>2, <1>3

\* A step that changes no mail.
LEMMA QuietIsPromised ==
  ASSUME stream'.log = stream.log, UNCHANGED <<shelved, sent>>
  PROVE  Promised
<1>1. accepted' = accepted /\ settled' = settled
  BY SameMails DEF settled, Settled
<1> QED
  BY <1>1 DEF Promised, Delivery!vars, accepted, settled

\* Calling the mail server settles the mail of the entry, or nothing.
LEMMA SendIsPromised ==
  ASSUME TypeOK, NEW i \in Entries(stream), UNCHANGED <<stream, shelved>>,
         Deliver(i) \/ UNCHANGED sent
  PROVE  Promised
<1>1. MailOf(i) \in Mails
  BY AtHand
<1>2. CASE UNCHANGED sent
  BY <1>2, QuietIsPromised
<1>3. CASE Deliver(i)
  <2>1. sent' = [sent EXCEPT ![MailOf(i)] = @ + 1] /\ sent \in [Mails -> Nat]
    BY <1>3 DEF Deliver, MailOf, TypeOK
  <2>2. settled' = settled \cup {MailOf(i)}
    BY <1>1, <2>1 DEF settled, Settled
  <2> QED
    BY <2>2, SettlingIsPromised
<1> QED
  BY <1>2, <1>3

\* A Redis call accepts again what the failed entry carries, or shelves it.
LEMMA CallIsPromised ==
  ASSUME TypeOK, NEW c \in Consumers, NEW i \in Entries(stream),
         Call(c, i) \/ UNCHANGED <<stream, shelved>>, UNCHANGED sent
  PROVE  Promised
<1>1. MailOf(i) \in Mails /\ AttemptsOf(i) + 1 \in Nat
  BY AtHand
<1>2. CASE stage[c] = "retry" /\ Call(c, i)
  BY <1>1, <1>2, PushIsPromised DEF Call, MailOf, AttemptsOf
<1>3. CASE stage[c] = "shelve" /\ Call(c, i)
  <2>1. shelved' = shelved \cup {MailOf(i)} /\ UNCHANGED stream
    BY <1>3 DEF Call, MailOf
  <2>2. settled' = settled \cup {MailOf(i)}
    BY <1>1, <2>1 DEF settled, Settled
  <2> QED
    BY <2>1, <2>2, SettlingIsPromised
<1>4. CASE stage[c] \in {"ack", "done"} /\ Call(c, i)
  BY <1>4, QuietIsPromised DEF Call, XAck
<1>5. CASE UNCHANGED <<stream, shelved>>
  BY <1>5, QuietIsPromised
<1> QED
  BY <1>2, <1>3, <1>4, <1>5 DEF Call

\* Every step is a step of the promise.
LEMMA NextIsPromised == TypeOK /\ [Next]_vars => Promised
<1> SUFFICES ASSUME TypeOK, [Next]_vars PROVE Promised
  OBVIOUS
<1>1. ASSUME NEW m \in Mails, Enqueue(m) \/ EnqueueFails(m) PROVE Promised
  <2>1. (Push(m, 0) \/ UNCHANGED stream) /\ UNCHANGED <<shelved, sent>>
    BY <1>1 DEF Enqueue, EnqueueFails, mailVars
  <2> QED
    BY <2>1, PushIsPromised, QuietIsPromised
<1>2. ASSUME NEW c \in Consumers, Claim(c) \/ Read(c) PROVE Promised
  BY <1>2, QuietIsPromised DEF Claim, Read, XAutoClaim, XReadGroup, mailVars
<1>3. ASSUME NEW c \in Consumers, NEW i \in hand[c],
             \/ Send(c, i) \/ SendFails(c, i) \/ SendReplyLost(c, i)
             \/ CallReturns(c, i) \/ CallFails(c, i)
      PROVE  Promised
  <2>1. i \in Entries(stream)
    BY DEF TypeOK
  <2>2. CASE Send(c, i) \/ SendFails(c, i) \/ SendReplyLost(c, i)
    BY <2>1, <2>2, SendIsPromised DEF Send, SendFails, SendReplyLost
  <2>3. CASE CallReturns(c, i) \/ CallFails(c, i)
    BY <2>1, <2>3, CallIsPromised DEF CallReturns, CallFails, mailVars
  <2> QED
    BY <1>3, <2>2, <2>3
<1>4. ASSUME NEW c \in Consumers, PollFails(c) \/ Crash(c) \/ Restart(c) PROVE Promised
  <2>1. stream'.log = stream.log /\ UNCHANGED <<shelved, sent>>
    BY <1>4 DEF PollFails, Crash, Restart, XAutoClaim, XReadGroup, mailVars
  <2> QED
    BY <2>1, QuietIsPromised
<1>5. ASSUME NEW i \in stream.pending, EntryTurnsIdle(i) PROVE Promised
  BY <1>5, QuietIsPromised DEF EntryTurnsIdle, TurnsIdle, mailVars
<1>6. CASE UNCHANGED vars
  BY <1>6, QuietIsPromised DEF vars, mailVars
<1> QED
  BY <1>1, <1>2, <1>3, <1>4, <1>5, <1>6 DEF Next, ConsumerStep

(***************************************************************************)
(* The e-mail queue implements the safety part of a job queue's promise:   *)
(* a mail is settled once and for all, and only after it was queued.  That *)
(* every queued mail is settled is left to the run.                        *)
(***************************************************************************)
THEOREM EmailQueueImplementsDelivery == Spec => Delivery!Safety
<1>1. Init => Delivery!Init
  <2> SUFFICES ASSUME Init PROVE accepted = {} /\ settled = {}
    BY DEF Delivery!Init, accepted, settled
  <2>1. Entries(stream) = {}
    BY DEF Init, Entries, EmptyStream
  <2> QED
    BY <2>1 DEF Init, accepted, settled, Settled
<1>2. TypeOK /\ [Next]_vars => [Delivery!Next]_(Delivery!vars)
  BY NextIsPromised DEF Promised
<1> QED
  BY <1>1, <1>2, TypeCorrect, PTL DEF Spec, Delivery!Safety

-----------------------------------------------------------------------------
(* One consumer: each delivery beyond the first is paid for by a fault.    *)

\* The entry that consumer c is handling, when it is at one of the stages S.
Under(c, S) == { i \in hand[c] : First(c, i) /\ stage[c] \in S }

\* Entries that may still lead to a delivery.  The entry in hand counts until
\* its mail is sent or its successor is written, acknowledged or not.
Live(c) ==
  (Unacked(stream) \cup Under(c, {"retry", "shelve"})) \ Under(c, {"ack", "done"})

LiveOf(c, m) == { i \in Live(c) : MailOf(i) = m }

\* Deliveries made and deliveries to come are one, plus one for each fault.
Budget(c) == \A m \in Mails : sent[m] + Cardinality(LiveOf(c, m)) <= 1 + faults

\* The only consumer was given each entry by the group, and acknowledges none
\* before its turn.
HandOK(c) ==
  /\ stage[c] \in {"poll", "down"} => hand[c] = {}
  /\ \A i \in hand[c] :
       /\ i <= stream.cursor
       /\ stage[c] = "send" \/ ~First(c, i) => i \in stream.pending

\* Only a mail that was queued is in the stream or was sent.
Asked ==
  /\ \A i \in Entries(stream) : MailOf(i) \in asked
  /\ \A m \in Mails : sent[m] > 0 => m \in asked

AloneInv(c) == TypeOK /\ HandOK(c) /\ Asked /\ Budget(c)

\* The live entries are entries of the stream, finitely many.
LEMMA LiveEntries ==
  ASSUME TypeOK, NEW c \in Consumers, NEW m
  PROVE  Live(c) \subseteq Entries(stream) /\ IsFiniteSet(LiveOf(c, m))
<1>1. stream \in StreamOf(Entry) /\ hand[c] \subseteq Entries(stream)
  BY DEF TypeOK
<1>2. IsFiniteSet(Entries(stream))
  BY <1>1, EntriesFinite
<1>3. Live(c) \subseteq Entries(stream)
  BY <1>1 DEF Live, Unacked, Under
<1>4. LiveOf(c, m) \in SUBSET Entries(stream)
  BY <1>3 DEF LiveOf
<1> QED
  BY <1>2, <1>3, <1>4, FS_Subset

\* The ways in which a step may change what mail m was and will be sent.
Paid(c, m) ==
  /\ faults' >= faults
  /\ \/ /\ sent'[m] = sent[m]
        /\ LiveOf(c, m)' \subseteq LiveOf(c, m)
     \/ /\ sent'[m] = sent[m]
        /\ \E a \in LiveOf(c, m) : \E b : LiveOf(c, m)' \subseteq (LiveOf(c, m) \ {a}) \cup {b}
     \/ /\ sent'[m] = sent[m] + 1
        /\ \E a \in LiveOf(c, m) : LiveOf(c, m)' \subseteq LiveOf(c, m) \ {a}
     \/ /\ sent'[m] = sent[m] /\ faults' > faults
        /\ \E b : LiveOf(c, m)' \subseteq LiveOf(c, m) \cup {b}
     \/ /\ sent'[m] = sent[m] + 1 /\ faults' > faults
        /\ LiveOf(c, m)' \subseteq LiveOf(c, m)
     \/ /\ sent'[m] = 0 /\ LiveOf(c, m) = {}
        /\ \E b : LiveOf(c, m)' \subseteq LiveOf(c, m) \cup {b}

\* A step that changes each mail in one of these ways stays in the budget.
LEMMA PaidKeepsBudget ==
  ASSUME TypeOK, TypeOK', NEW c \in Consumers, Budget(c), \A m \in Mails : Paid(c, m)
  PROVE  Budget(c)'
<1> SUFFICES ASSUME NEW m \in Mails
             PROVE  sent'[m] + Cardinality(LiveOf(c, m)') <= 1 + faults'
  BY DEF Budget
<1> DEFINE S == LiveOf(c, m)
<1> DEFINE T == LiveOf(c, m)'
<1>1. IsFiniteSet(S)
  BY LiveEntries
<1>2. /\ sent[m] \in Nat /\ sent'[m] \in Nat /\ faults \in Nat /\ faults' \in Nat
      /\ sent[m] + Cardinality(S) <= 1 + faults
      /\ Paid(c, m)
  BY DEF TypeOK, Budget
<1> DEFINE n == Cardinality(S)
<1> DEFINE t == Cardinality(T)
<1>3. /\ n \in Nat
      /\ T \subseteq S => t \in Nat /\ t <= n
      /\ \A b : T \subseteq S \cup {b} => t \in Nat /\ t <= n + 1
      /\ \A a \in S : T \subseteq S \ {a} => t \in Nat /\ t + 1 <= n
      /\ \A a \in S : \A b : T \subseteq (S \ {a}) \cup {b} => t \in Nat /\ t <= n
  <2> HIDE DEF S, T
  <2> QED
    BY <1>1, Tally
<1>4. S = {} => n = 0
  BY <1>1, FS_EmptySet
<1>5. faults' >= faults
  BY <1>2 DEF Paid
<1> HIDE DEF n, t
<1> SUFFICES sent'[m] + t <= 1 + faults'
  BY DEF t
<1>6. sent[m] + n <= 1 + faults
  BY <1>2 DEF n
<1>7. CASE sent'[m] = sent[m] /\ T \subseteq S
  BY <1>2, <1>3, <1>5, <1>6, <1>7
<1>8. CASE sent'[m] = sent[m] /\ \E a \in S : \E b : T \subseteq (S \ {a}) \cup {b}
  BY <1>2, <1>3, <1>5, <1>6, <1>8
<1>9. CASE sent'[m] = sent[m] + 1 /\ \E a \in S : T \subseteq S \ {a}
  BY <1>2, <1>3, <1>5, <1>6, <1>9
<1>10. CASE sent'[m] = sent[m] /\ faults' > faults /\ \E b : T \subseteq S \cup {b}
  <2>1. t \in Nat /\ t <= n + 1
    BY <1>3, <1>10
  <2> QED
    BY <1>2, <1>3, <1>6, <1>10, <2>1
<1>11. CASE sent'[m] = sent[m] + 1 /\ faults' > faults /\ T \subseteq S
  BY <1>2, <1>3, <1>6, <1>11
<1>12. CASE sent'[m] = 0 /\ S = {} /\ \E b : T \subseteq S \cup {b}
  BY <1>2, <1>3, <1>4, <1>12
<1> QED
  BY <1>2, <1>7, <1>8, <1>9, <1>10, <1>11, <1>12 DEF Paid

\* What every step leaves in place, for counting: old entries carry what they
\* carried, and the counters do not go down.
Steady ==
  /\ TypeOK /\ TypeOK' /\ Extends(stream, stream') /\ faults' >= faults

\* A live entry goes on with the same mail.
LEMMA LiveKeepsMail ==
  ASSUME Steady, NEW c \in Consumers, NEW i \in Live(c)
  PROVE  MailOf(i)' = MailOf(i) /\ MailOf(i) \in Mails
<1>1. i \in Entries(stream)
  BY LiveEntries DEF Steady
<1> QED
  BY <1>1, AtHand DEF Steady, Extends, MailOf

\* A step that makes no entry live and sends nothing.
LEMMA QuietBudget ==
  ASSUME Steady, NEW c \in Consumers, Budget(c),
         UNCHANGED sent, Live(c)' \subseteq Live(c)
  PROVE  Budget(c)'
<1> SUFFICES ASSUME NEW m \in Mails PROVE Paid(c, m)
  BY PaidKeepsBudget DEF Steady
<1>1. LiveOf(c, m)' \subseteq LiveOf(c, m)
  BY LiveKeepsMail DEF LiveOf
<1> QED
  BY <1>1 DEF Paid, Steady

\* A step that replaces the live entry i by an entry k of the same mail.
LEMMA SwapBudget ==
  ASSUME Steady, NEW c \in Consumers, Budget(c), UNCHANGED sent,
         NEW i \in Live(c), NEW k, MailOf(k)' = MailOf(i),
         Live(c)' \subseteq (Live(c) \ {i}) \cup {k}
  PROVE  Budget(c)'
<1> SUFFICES ASSUME NEW m \in Mails PROVE Paid(c, m)
  BY PaidKeepsBudget DEF Steady
<1>1. CASE m = MailOf(i)
  <2>1. i \in LiveOf(c, m) /\ LiveOf(c, m)' \subseteq (LiveOf(c, m) \ {i}) \cup {k}
    BY <1>1, LiveKeepsMail DEF LiveOf
  <2> QED
    BY <2>1 DEF Paid, Steady
<1>2. CASE m # MailOf(i)
  <2>1. LiveOf(c, m)' \subseteq LiveOf(c, m)
    BY <1>2, LiveKeepsMail DEF LiveOf
  <2> QED
    BY <2>1 DEF Paid, Steady
<1> QED
  BY <1>1, <1>2

\* A delivery of the live entry i, which is live no more.
LEMMA DeliveryBudget ==
  ASSUME Steady, NEW c \in Consumers, Budget(c),
         NEW i \in Live(c), Deliver(i), Live(c)' \subseteq Live(c) \ {i}
  PROVE  Budget(c)'
<1> SUFFICES ASSUME NEW m \in Mails PROVE Paid(c, m)
  BY PaidKeepsBudget DEF Steady
<1>1. sent' = [sent EXCEPT ![MailOf(i)] = @ + 1] /\ sent \in [Mails -> Nat]
  BY DEF Deliver, MailOf, Steady, TypeOK
<1>2. CASE m = MailOf(i)
  <2>1. i \in LiveOf(c, m) /\ LiveOf(c, m)' \subseteq LiveOf(c, m) \ {i}
    BY <1>2, LiveKeepsMail DEF LiveOf
  <2>2. sent'[m] = sent[m] + 1
    BY <1>1, <1>2
  <2> QED
    BY <2>1, <2>2 DEF Paid, Steady
<1>3. CASE m # MailOf(i)
  <2>1. LiveOf(c, m)' \subseteq LiveOf(c, m)
    BY LiveKeepsMail DEF LiveOf
  <2>2. sent'[m] = sent[m]
    BY <1>1, <1>3
  <2> QED
    BY <2>1, <2>2 DEF Paid, Steady
<1> QED
  BY <1>2, <1>3

\* A fault that delivers the live entry i, which stays live.
LEMMA LostReplyBudget ==
  ASSUME Steady, NEW c \in Consumers, Budget(c), Fault,
         NEW i \in Live(c), Deliver(i), Live(c)' \subseteq Live(c)
  PROVE  Budget(c)'
<1> SUFFICES ASSUME NEW m \in Mails PROVE Paid(c, m)
  BY PaidKeepsBudget DEF Steady
<1>1. /\ sent' = [sent EXCEPT ![MailOf(i)] = @ + 1] /\ sent \in [Mails -> Nat]
      /\ faults' > faults
  BY DEF Deliver, MailOf, Steady, TypeOK, Fault
<1>2. LiveOf(c, m)' \subseteq LiveOf(c, m)
  BY LiveKeepsMail DEF LiveOf
<1>3. sent'[m] = sent[m] \/ sent'[m] = sent[m] + 1
  BY <1>1
<1> QED
  BY <1>1, <1>2, <1>3 DEF Paid, Steady

\* A fault that makes one entry live, old or new.
LEMMA FaultBudget ==
  ASSUME Steady, NEW c \in Consumers, Budget(c), Fault, UNCHANGED sent,
         NEW b, Live(c)' \subseteq Live(c) \cup {b}
  PROVE  Budget(c)'
<1> SUFFICES ASSUME NEW m \in Mails PROVE Paid(c, m)
  BY PaidKeepsBudget DEF Steady
<1>1. faults' > faults
  BY DEF Steady, TypeOK, Fault
<1>2. LiveOf(c, m)' \subseteq LiveOf(c, m) \cup {b}
  BY LiveKeepsMail DEF LiveOf
<1> QED
  BY <1>1, <1>2 DEF Paid, Steady

\* The first entry of a mail that was not queued before.
LEMMA FirstBudget ==
  ASSUME Steady, Asked, NEW c \in Consumers, Budget(c), UNCHANGED sent,
         NEW n \in Mails \ asked, NEW k, MailOf(k)' = n,
         Live(c)' \subseteq Live(c) \cup {k}
  PROVE  Budget(c)'
<1> SUFFICES ASSUME NEW m \in Mails PROVE Paid(c, m)
  BY PaidKeepsBudget DEF Steady
<1>1. CASE m = n
  <2>1. sent[m] \in Nat /\ ~(sent[m] > 0)
    BY <1>1 DEF Asked, Steady, TypeOK
  <2>2. LiveOf(c, m) = {}
    BY <1>1, LiveEntries DEF Asked, Steady, LiveOf
  <2>3. LiveOf(c, m)' \subseteq LiveOf(c, m) \cup {k}
    BY LiveKeepsMail DEF LiveOf
  <2>4. sent'[m] = 0
    BY <2>1
  <2> QED
    BY <2>2, <2>3, <2>4 DEF Paid, Steady
<1>2. CASE m # n
  <2>1. LiveOf(c, m)' \subseteq LiveOf(c, m)
    BY <1>2, LiveKeepsMail DEF LiveOf
  <2> QED
    BY <2>1 DEF Paid, Steady
<1> QED
  BY <1>1, <1>2

\* Which entries are live, by the stage of the consumer.
LEMMA LiveByStage ==
  ASSUME TypeOK, NEW c \in Consumers
  PROVE  /\ stage[c] \in {"poll", "send", "down"} => Live(c) = Unacked(stream)
         /\ \A i \in hand[c] : First(c, i) =>
              /\ stage[c] \in {"ack", "done"} => Live(c) = Unacked(stream) \ {i}
              /\ stage[c] \in {"retry", "shelve"} => Live(c) = Unacked(stream) \cup {i}
<1>1. \A i \in hand[c] : i \in Nat
  BY DEF TypeOK
<1>2. stage[c] \in {"poll", "send", "down"} => Live(c) = Unacked(stream)
  BY DEF Live, Under
<1>3. ASSUME NEW i \in hand[c], First(c, i)
      PROVE  \A S : Under(c, S) = IF stage[c] \in S THEN {i} ELSE {}
  BY <1>1, <1>3 DEF Under, First
<1> QED
  BY <1>2, <1>3 DEF Live

\* Which entries are live after a step, by the new stage of the consumer.
LEMMA LiveByNextStage ==
  ASSUME TypeOK', NEW c \in Consumers
  PROVE  /\ stage'[c] \in {"poll", "send", "down"} => Live(c)' = Unacked(stream')
         /\ \A i \in hand'[c] : First(c, i)' =>
              /\ stage'[c] \in {"ack", "done"} => Live(c)' = Unacked(stream') \ {i}
              /\ stage'[c] \in {"retry", "shelve"} => Live(c)' = Unacked(stream') \cup {i}
<1>1. \A i \in hand'[c] : i \in Nat
  BY DEF TypeOK
<1>2. stage'[c] \in {"poll", "send", "down"} => Live(c)' = Unacked(stream')
  BY DEF Live, Under
<1>3. ASSUME NEW i \in hand'[c], First(c, i)'
      PROVE  \A S : Under(c, S)' = IF stage'[c] \in S THEN {i} ELSE {}
  BY <1>1, <1>3 DEF Under, First
<1> QED
  BY <1>2, <1>3 DEF Live

\* A pending entry is unacknowledged, and so is every entry after the cursor.
LEMMA PendingUnacked ==
  ASSUME TypeOK, NEW i \in Nat, i <= stream.cursor
  PROVE  i \in Unacked(stream) <=> i \in stream.pending
<1>1. stream \in StreamOf(Entry)
  BY DEF TypeOK
<1> QED
  BY <1>1, PendingIsOwed

\* A step of the consumer that goes on with its entry keeps its hand in order.
LEMMA GotoHand ==
  ASSUME TypeOK, NEW c \in Consumers, HandOK(c), NEW i \in hand[c], First(c, i),
         NEW s \in {"ack", "retry", "shelve", "done"}, Goto(c, s),
         stream'.cursor = stream.cursor, stream.pending \ {i} \subseteq stream'.pending
  PROVE  HandOK(c)' /\ stage'[c] = s /\ hand'[c] = hand[c] /\ First(c, i)'
<1>1. stage'[c] = s /\ hand'[c] = hand[c] /\ hand' = hand
  BY DEF Goto, TypeOK
<1>2. First(c, i)' /\ \A k \in hand[c] : First(c, k)' <=> First(c, k)
  BY <1>1 DEF First
<1> QED
  BY <1>1, <1>2 DEF HandOK

\* So does a consumer that stops.
LEMMA StopHand ==
  ASSUME TypeOK, NEW c \in Consumers, Stop(c)
  PROVE  HandOK(c)' /\ stage'[c] = "down"
BY DEF Stop, HandOK, TypeOK

\* What is asked for covers what is queued and sent.
LEMMA AskedKept ==
  ASSUME TypeOK, Asked, asked \subseteq asked',
         \/ stream'.log = stream.log
         \/ \E m \in Mails \cap asked', n \in Nat : Push(m, n),
         UNCHANGED sent \/ \E i \in Entries(stream) : Deliver(i)
  PROVE  Asked'
<1>1. \A i \in Entries(stream') : MailOf(i)' \in asked'
  <2>1. CASE stream'.log = stream.log
    BY <2>1 DEF Asked, MailOf, Entries
  <2>2. ASSUME NEW m \in Mails \cap asked', NEW n \in Nat, Push(m, n)
        PROVE  \A i \in Entries(stream') : MailOf(i)' \in asked'
    <3> DEFINE x == [mail |-> m, attempts |-> n]
    <3> DEFINE k == Len(stream.log) + 1
    <3>1. stream \in StreamOf(Entry) /\ x \in Entry /\ stream' = XAdd(stream, x)
      BY <2>2 DEF TypeOK, Entry, Push
    <3>2. /\ Extends(stream, stream')
          /\ Entries(stream') = Entries(stream) \cup {k}
          /\ stream'.log[k] = x
      BY <3>1, XAddFacts
    <3>3. stream'.log[k].mail = m
      BY <3>2
    <3> HIDE DEF k
    <3> QED
      BY <3>2, <3>3 DEF Extends, MailOf, Asked
  <2> QED
    BY <2>1, <2>2
<1>2. \A m \in Mails : sent'[m] > 0 => m \in asked'
  <2>1. CASE UNCHANGED sent
    BY <2>1 DEF Asked
  <2>2. ASSUME NEW i \in Entries(stream), Deliver(i)
        PROVE  \A m \in Mails : sent'[m] > 0 => m \in asked'
    <3>1. sent' = [sent EXCEPT ![MailOf(i)] = @ + 1] /\ sent \in [Mails -> Nat]
      BY <2>2 DEF Deliver, MailOf, TypeOK
    <3>2. MailOf(i) \in asked
      BY DEF Asked
    <3> QED
      BY <3>1, <3>2 DEF Asked
  <2> QED
    BY <2>1, <2>2
<1> QED
  BY <1>1, <1>2 DEF Asked

\* Push adds one unacknowledged entry.
LEMMA PushTally ==
  ASSUME TypeOK, NEW m \in Mails, NEW n \in Nat, Push(m, n)
  PROVE  /\ Extends(stream, stream')
         /\ stream'.cursor = stream.cursor /\ stream'.pending = stream.pending
         /\ \E k : Unacked(stream') = Unacked(stream) \cup {k} /\ MailOf(k)' = m
<1> DEFINE x == [mail |-> m, attempts |-> n]
<1> DEFINE k == Len(stream.log) + 1
<1>1. stream \in StreamOf(Entry) /\ x \in Entry /\ stream' = XAdd(stream, x)
  BY DEF TypeOK, Entry, Push
<1>2. /\ Extends(stream, stream')
      /\ Unacked(stream') = Unacked(stream) \cup {k}
      /\ stream'.log[k] = x
  BY <1>1, XAddFacts
<1>3. stream'.cursor = stream.cursor /\ stream'.pending = stream.pending
  BY <1>1 DEF XAdd
<1>4. stream'.log[k].mail = m
  BY <1>2
<1> HIDE DEF k
<1> QED
  BY <1>2, <1>3, <1>4 DEF MailOf

\* Acknowledging an entry that was given out settles it and no other.
LEMMA AckTally ==
  ASSUME TypeOK, NEW i \in Nat, i <= stream.cursor, stream' = XAck(stream, i)
  PROVE  /\ Extends(stream, stream')
         /\ stream'.cursor = stream.cursor /\ stream'.pending = stream.pending \ {i}
         /\ Unacked(stream') = Unacked(stream) \ {i}
<1>1. stream \in StreamOf(Entry)
  BY DEF TypeOK
<1>2. Extends(stream, stream')
  BY <1>1, XAckFacts
<1> QED
  BY <1>1, <1>2, XAckSettles

\* Polls and the passage of time settle nothing.
LEMMA PollTally ==
  ASSUME TypeOK, EmailAssumption,
         \/ UNCHANGED stream
         \/ stream' = XAutoClaim(stream, BatchSize)
         \/ stream' = XReadGroup(stream, BatchSize)
         \/ \E i \in stream.pending : stream' = TurnsIdle(stream, i)
  PROVE  /\ Extends(stream, stream') /\ Unacked(stream') = Unacked(stream)
         /\ stream'.log = stream.log
<1>1. stream \in StreamOf(Entry) /\ BatchSize \in Nat
  BY DEF TypeOK, EmailAssumption
<1>2. Extends(stream, stream') /\ Unacked(stream') = Unacked(stream)
  BY <1>1, XAutoClaimFacts, XReadGroupFacts, TurnsIdleFacts DEF Extends
<1> QED
  BY <1>2 DEF XAutoClaim, XReadGroup, TurnsIdle

\* The group gives out entries that are pending from then on.
LEMMA GivenArePending ==
  ASSUME TypeOK, EmailAssumption
  PROVE  /\ \A i \in IdleEntries(stream, BatchSize) :
              i \in XAutoClaim(stream, BatchSize).pending /\ i <= stream.cursor
         /\ \A i \in NewEntries(stream, BatchSize) :
              /\ i \in XReadGroup(stream, BatchSize).pending
              /\ i <= XReadGroup(stream, BatchSize).cursor
<1>1. stream \in StreamOf(Entry) /\ BatchSize \in Nat
  BY DEF TypeOK, EmailAssumption
<1> QED
  BY <1>1, GivenIsPending

(* Each step of a queue with one consumer keeps the invariant.             *)

\* Queueing a mail that was not queued before.
LEMMA EnqueueAlone ==
  ASSUME EmailAssumption, TypeOK', NEW c \in Consumers, AloneInv(c),
         NEW m \in Mails, Enqueue(m) \/ EnqueueFails(m)
  PROVE  AloneInv(c)'
<1>1. /\ TypeOK /\ HandOK(c) /\ Asked /\ Budget(c) /\ faults' >= faults
      /\ UNCHANGED <<sent, hand, stage>> /\ m \notin asked /\ asked' = asked \cup {m}
      /\ (Push(m, 0) \/ UNCHANGED stream)
  BY DEF AloneInv, Enqueue, EnqueueFails, mailVars, consumerVars, Fault, TypeOK
<1>2. Asked'
  BY <1>1, AskedKept
<1>3. CASE Push(m, 0)
  <2>1. /\ Extends(stream, stream')
        /\ stream'.cursor = stream.cursor /\ stream'.pending = stream.pending
    BY <1>1, <1>3, PushTally
  <2>2. PICK k : Unacked(stream') = Unacked(stream) \cup {k} /\ MailOf(k)' = m
    BY <1>1, <1>3, PushTally
  <2>3. HandOK(c)'
    BY <1>1, <2>1 DEF HandOK, First
  <2>4. Live(c)' \subseteq Live(c) \cup {k}
    BY <1>1, <2>2 DEF Live, Under, First
  <2>5. Steady
    BY <1>1, <2>1 DEF Steady
  <2>6. Budget(c)'
    BY <1>1, <2>2, <2>4, <2>5, FirstBudget
  <2> QED
    BY <1>2, <2>3, <2>6 DEF AloneInv
<1>4. CASE UNCHANGED stream
  <2>1. HandOK(c)' /\ Live(c)' = Live(c) /\ Steady
    BY <1>1, <1>4 DEF HandOK, First, Live, Under, Steady, Extends
  <2> QED
    BY <1>1, <1>2, <2>1, QuietBudget DEF AloneInv
<1> QED
  BY <1>1, <1>3, <1>4

\* Taking a batch.
LEMMA PollAlone ==
  ASSUME EmailAssumption, TypeOK', NEW c \in Consumers, AloneInv(c),
         Claim(c) \/ Read(c)
  PROVE  AloneInv(c)'
<1>1. /\ TypeOK /\ HandOK(c) /\ Asked /\ Budget(c) /\ faults' >= faults
      /\ UNCHANGED <<asked, sent>> /\ stage[c] = "poll"
      /\ stage'[c] \in {"poll", "send"}
      /\ stage'[c] = "poll" => hand'[c] = {}
  BY DEF AloneInv, Claim, Read, TakeBatch, mailVars, TypeOK
<1>2. /\ Extends(stream, stream') /\ Unacked(stream') = Unacked(stream)
      /\ stream'.log = stream.log
  BY <1>1, PollTally DEF Claim, Read
<1>3. \A i \in hand'[c] : i \in stream'.pending /\ i <= stream'.cursor
  <2>1. CASE Claim(c)
    <3>1. hand'[c] = IdleEntries(stream, BatchSize)
          /\ stream' = XAutoClaim(stream, BatchSize) /\ stream'.cursor = stream.cursor
      BY <1>1, <2>1 DEF Claim, TakeBatch, TypeOK, XAutoClaim
    <3> QED
      BY <1>1, <3>1, GivenArePending
  <2>2. CASE Read(c)
    <3>1. hand'[c] = NewEntries(stream, BatchSize) /\ stream' = XReadGroup(stream, BatchSize)
      BY <1>1, <2>2 DEF Read, TakeBatch, TypeOK
    <3> QED
      BY <1>1, <3>1, GivenArePending
  <2> QED
    BY <2>1, <2>2
<1>4. HandOK(c)'
  BY <1>1, <1>3 DEF HandOK
<1>5. Live(c) = Unacked(stream) /\ Live(c)' = Unacked(stream')
  BY <1>1, LiveByStage, LiveByNextStage
<1>6. Steady
  BY <1>1, <1>2 DEF Steady
<1>7. Asked' /\ Budget(c)'
  BY <1>1, <1>2, <1>5, <1>6, AskedKept, QuietBudget
<1> QED
  BY <1>4, <1>7 DEF AloneInv

\* Calling the mail server for the first entry in hand.
LEMMA SendAlone ==
  ASSUME EmailAssumption, TypeOK', NEW c \in Consumers, AloneInv(c),
         NEW i \in hand[c], First(c, i),
         Send(c, i) \/ SendFails(c, i) \/ SendReplyLost(c, i)
  PROVE  AloneInv(c)'
<1>1. /\ TypeOK /\ HandOK(c) /\ Asked /\ Budget(c) /\ faults' >= faults
      /\ UNCHANGED <<asked, stream>> /\ stage[c] = "send"
      /\ i \in Nat /\ i \in Entries(stream)
  BY DEF AloneInv, Send, SendFails, SendReplyLost, Fault, TypeOK
<1>2. Steady /\ Live(c) = Unacked(stream) /\ i \in Live(c)
  BY <1>1, LiveByStage, PendingUnacked DEF Steady, Extends, HandOK
<1>3. Asked'
  BY <1>1, AskedKept DEF Send, SendFails, SendReplyLost
<1>4. CASE Send(c, i)
  <2>1. Goto(c, "ack") /\ Deliver(i)
    BY <1>4 DEF Send
  <2>2. HandOK(c)' /\ stage'[c] = "ack" /\ hand'[c] = hand[c] /\ First(c, i)'
    BY <1>1, <2>1, GotoHand
  <2>3. Live(c)' = Live(c) \ {i}
    BY <1>1, <1>2, <2>2, LiveByNextStage
  <2> QED
    BY <1>1, <1>2, <1>3, <2>1, <2>2, <2>3, DeliveryBudget DEF AloneInv
<1>5. CASE HandleFailure(c, i)
  <2>1. PICK s \in {"retry", "shelve"} : Goto(c, s)
    BY <1>5 DEF HandleFailure
  <2>2. HandOK(c)' /\ stage'[c] = s /\ hand'[c] = hand[c] /\ First(c, i)'
    BY <1>1, <2>1, GotoHand
  <2>3. Live(c)' = Live(c)
    BY <1>1, <1>2, <2>2, LiveByNextStage
  <2>4. CASE SendFails(c, i)
    BY <1>1, <1>2, <1>3, <2>2, <2>3, <2>4, QuietBudget DEF AloneInv, SendFails
  <2>5. CASE SendReplyLost(c, i)
    BY <1>1, <1>2, <1>3, <2>2, <2>3, <2>5, LostReplyBudget DEF AloneInv, SendReplyLost
  <2> QED
    BY <1>4, <2>4, <2>5
<1> QED
  BY <1>4, <1>5 DEF SendFails, SendReplyLost

\* What the Redis call of a stage does to the stream, for counting.
LEMMA CallTally ==
  ASSUME TypeOK, NEW c \in Consumers, HandOK(c), Asked, UNCHANGED <<asked, sent>>,
         NEW i \in hand[c], Call(c, i) \/ UNCHANGED <<stream, shelved>>
  PROVE  /\ Extends(stream, stream') /\ Asked' /\ i \in Nat
         /\ stream'.cursor = stream.cursor /\ stream.pending \ {i} \subseteq stream'.pending
         /\ UNCHANGED <<stream, shelved>> => Unacked(stream') = Unacked(stream)
         /\ stage[c] = "retry" /\ Call(c, i) =>
              \E k : Unacked(stream') = Unacked(stream) \cup {k} /\ MailOf(k)' = MailOf(i)
         /\ stage[c] = "shelve" => Unacked(stream') = Unacked(stream)
         /\ stage[c] \in {"ack", "done"} => Unacked(stream') \subseteq Unacked(stream)
         /\ stage[c] \in {"ack", "done"} /\ Call(c, i) =>
              Unacked(stream') = Unacked(stream) \ {i}
<1>1. /\ i \in Entries(stream) /\ i \in Nat /\ i <= stream.cursor
      /\ MailOf(i) \in Mails /\ MailOf(i) \in asked /\ AttemptsOf(i) + 1 \in Nat
  BY AtHand DEF TypeOK, HandOK, Asked
<1>2. CASE stage[c] = "retry" /\ Call(c, i)
  <2>1. Push(MailOf(i), AttemptsOf(i) + 1)
    BY <1>2 DEF Call, MailOf, AttemptsOf
  <2>2. Asked'
    BY <1>1, <2>1, AskedKept
  <2> QED
    BY <1>1, <1>2, <2>1, <2>2, PushTally
<1>3. CASE UNCHANGED stream /\ ~(stage[c] \in {"retry", "ack", "done"} /\ Call(c, i))
  <2>1. Asked' /\ Extends(stream, stream')
    BY <1>3, AskedKept DEF Extends
  <2> QED
    BY <1>1, <1>3, <2>1
<1>4. CASE stage[c] \in {"ack", "done"} /\ Call(c, i)
  <2>1. stream' = XAck(stream, i)
    BY <1>4 DEF Call
  <2>2. Asked'
    BY <2>1, AskedKept DEF XAck
  <2> QED
    BY <1>1, <1>4, <2>1, <2>2, AckTally
<1> QED
  BY <1>2, <1>3, <1>4 DEF Call

\* A Redis call that returns.
LEMMA CallReturnsAlone ==
  ASSUME EmailAssumption, TypeOK', NEW c \in Consumers, AloneInv(c),
         NEW i \in hand[c], First(c, i), CallReturns(c, i)
  PROVE  AloneInv(c)'
<1>1. /\ TypeOK /\ HandOK(c) /\ Asked /\ Budget(c) /\ faults' >= faults
      /\ UNCHANGED <<asked, sent>> /\ Call(c, i)
      /\ stage[c] \in {"retry", "shelve", "ack", "done"}
  BY DEF AloneInv, CallReturns, Call, mailVars, TypeOK
<1>2. /\ Extends(stream, stream') /\ Asked' /\ i \in Nat /\ Steady
      /\ stream'.cursor = stream.cursor /\ stream.pending \ {i} \subseteq stream'.pending
  BY <1>1, CallTally DEF Steady
<1>3. CASE stage[c] \in {"ack", "done"}
  <2>1. Unacked(stream') = Unacked(stream) \ {i} /\ Live(c) = Unacked(stream) \ {i}
    BY <1>1, <1>3, CallTally, LiveByStage
  <2>2. /\ hand'[c] = hand[c] \ {i}
        /\ stage'[c] = IF hand[c] = {i} THEN "poll" ELSE "send"
    BY <1>1, <1>3 DEF CallReturns, FinishEntry, TypeOK
  <2>3. \A k \in hand[c] \ {i} : k \in stream.pending
    BY <1>1 DEF HandOK, First, TypeOK
  <2>4. HandOK(c)'
    BY <1>1, <1>2, <2>2, <2>3 DEF HandOK
  <2>5. Live(c)' = Unacked(stream')
    BY <2>2, LiveByNextStage
  <2> QED
    BY <1>1, <1>2, <2>1, <2>4, <2>5, QuietBudget DEF AloneInv
<1>4. CASE stage[c] \in {"retry", "shelve"}
  <2>1. Goto(c, "done")
    BY <1>4 DEF CallReturns
  <2>2. HandOK(c)' /\ stage'[c] = "done" /\ hand'[c] = hand[c] /\ First(c, i)'
    BY <1>1, <1>2, <2>1, GotoHand
  <2>3. Live(c)' = Unacked(stream') \ {i} /\ Live(c) = Unacked(stream) \cup {i}
    BY <1>1, <1>4, <2>2, LiveByStage, LiveByNextStage
  <2>4. CASE stage[c] = "retry"
    <3>1. PICK k : Unacked(stream') = Unacked(stream) \cup {k} /\ MailOf(k)' = MailOf(i)
      BY <1>1, <2>4, CallTally
    <3>2. Live(c)' \subseteq (Live(c) \ {i}) \cup {k} /\ i \in Live(c)
      BY <2>3, <3>1
    <3> QED
      BY <1>1, <1>2, <2>2, <3>1, <3>2, SwapBudget DEF AloneInv
  <2>5. CASE stage[c] = "shelve"
    <3>1. Live(c)' \subseteq Live(c)
      BY <1>1, <2>3, <2>5, CallTally
    <3> QED
      BY <1>1, <1>2, <2>2, <3>1, QuietBudget DEF AloneInv
  <2> QED
    BY <1>4, <2>4, <2>5
<1> QED
  BY <1>1, <1>3, <1>4

\* A Redis call that fails, with or without effect.
LEMMA CallFailsAlone ==
  ASSUME EmailAssumption, TypeOK', NEW c \in Consumers, AloneInv(c),
         NEW i \in hand[c], First(c, i), CallFails(c, i)
  PROVE  AloneInv(c)'
<1>1. /\ TypeOK /\ HandOK(c) /\ Asked /\ Budget(c) /\ Fault /\ faults' >= faults
      /\ UNCHANGED <<asked, sent>> /\ (Call(c, i) \/ UNCHANGED <<stream, shelved>>)
      /\ stage[c] \in {"retry", "shelve", "ack", "done"}
  BY DEF AloneInv, CallFails, Fault, mailVars, TypeOK
<1>2. /\ Extends(stream, stream') /\ Asked' /\ i \in Nat /\ Steady
      /\ stream'.cursor = stream.cursor /\ stream.pending \ {i} \subseteq stream'.pending
  BY <1>1, CallTally DEF Steady
<1>3. HandOK(c)' /\ (Live(c)' \subseteq Unacked(stream') \cup {i})
      /\ (stage[c] # "ack" => Live(c)' = Unacked(stream'))
  <2>1. CASE stage[c] = "ack"
    <3>1. PICK s \in {"retry", "shelve"} : Goto(c, s)
      BY <2>1 DEF CallFails, HandleFailure
    <3>2. HandOK(c)' /\ stage'[c] = s /\ hand'[c] = hand[c] /\ First(c, i)'
      BY <1>1, <1>2, <3>1, GotoHand
    <3> QED
      BY <2>1, <3>2, LiveByNextStage
  <2>2. CASE stage[c] # "ack"
    BY <1>1, <2>2, StopHand, LiveByNextStage DEF CallFails
  <2> QED
    BY <2>1, <2>2
<1>4. \E b : Live(c)' \subseteq Live(c) \cup {b}
  <2>1. CASE stage[c] \in {"ack", "done"}
    <3>1. Live(c) = Unacked(stream) \ {i} /\ Unacked(stream') \subseteq Unacked(stream)
      BY <1>1, <2>1, LiveByStage, CallTally
    <3> QED
      BY <1>3, <3>1
  <2>2. CASE stage[c] \in {"retry", "shelve"}
    <3>1. Live(c) = Unacked(stream) \cup {i} /\ Live(c)' = Unacked(stream')
      BY <1>3, <1>1, <2>2, LiveByStage
    <3>2. \E k : Unacked(stream') \subseteq Unacked(stream) \cup {k}
      BY <1>1, <2>2, CallTally
    <3> QED
      BY <3>1, <3>2
  <2> QED
    BY <1>1, <2>1, <2>2
<1>5. Budget(c)'
  BY <1>1, <1>2, <1>4, FaultBudget
<1> QED
  BY <1>2, <1>3, <1>5 DEF AloneInv

\* A consumer that stops between two entries or in the middle of one.
LEMMA StopAlone ==
  ASSUME EmailAssumption, TypeOK', NEW c \in Consumers, AloneInv(c),
         PollFails(c) \/ Crash(c)
  PROVE  AloneInv(c)'
<1>1. /\ TypeOK /\ HandOK(c) /\ Asked /\ Budget(c) /\ Fault /\ faults' >= faults
      /\ UNCHANGED <<asked, sent>> /\ Stop(c)
  BY DEF AloneInv, PollFails, Crash, Fault, mailVars, TypeOK
<1>2. /\ Extends(stream, stream') /\ Unacked(stream') = Unacked(stream)
      /\ stream'.log = stream.log
  BY <1>1, PollTally DEF PollFails, Crash
<1>3. HandOK(c)' /\ Live(c)' = Unacked(stream) /\ Steady /\ Asked'
  BY <1>1, <1>2, StopHand, LiveByNextStage, AskedKept DEF Steady
<1>4. \E b : Live(c)' \subseteq Live(c) \cup {b}
  <2>1. \A i, k \in Under(c, {"ack", "done"}) : i = k
    <3>1. hand[c] \subseteq Nat
      BY <1>1 DEF TypeOK
    <3> QED
      BY <3>1 DEF Under, First
  <2>2. \E b : Under(c, {"ack", "done"}) \subseteq {b}
    <3>1. CASE Under(c, {"ack", "done"}) = {}
      BY <3>1
    <3>2. ASSUME NEW b \in Under(c, {"ack", "done"})
          PROVE  Under(c, {"ack", "done"}) \subseteq {b}
      BY <2>1
    <3> QED
      BY <3>1, <3>2
  <2> QED
    BY <1>3, <2>2 DEF Live
<1> QED
  BY <1>1, <1>3, <1>4, FaultBudget DEF AloneInv

\* A process that starts again, time that passes, and a step of nobody.
LEMMA ElseAlone ==
  ASSUME EmailAssumption, TypeOK', NEW c \in Consumers, AloneInv(c),
         \/ Restart(c)
         \/ \E i \in stream.pending : EntryTurnsIdle(i)
         \/ UNCHANGED vars
  PROVE  AloneInv(c)'
<1>1. /\ TypeOK /\ HandOK(c) /\ Asked /\ Budget(c) /\ faults' >= faults
      /\ UNCHANGED <<asked, sent, hand>>
  BY DEF AloneInv, Restart, EntryTurnsIdle, Goto, vars, mailVars, consumerVars, TypeOK
<1>2. /\ Extends(stream, stream') /\ Unacked(stream') = Unacked(stream)
      /\ stream'.log = stream.log
  BY <1>1, PollTally DEF Restart, EntryTurnsIdle, vars
<1>3. Steady /\ Asked'
  BY <1>1, <1>2, AskedKept DEF Steady
<1>4. CASE Restart(c)
  <2>1. stage[c] = "down" /\ stage'[c] = "poll" /\ UNCHANGED stream
    BY <1>1, <1>4 DEF Restart, Goto, TypeOK
  <2>2. HandOK(c)' /\ Live(c)' = Live(c)
    BY <1>1, <1>2, <2>1, LiveByStage, LiveByNextStage DEF HandOK
  <2> QED
    BY <1>1, <1>3, <2>2, QuietBudget DEF AloneInv
<1>5. CASE UNCHANGED stage
  <2>1. stream'.cursor = stream.cursor /\ stream'.pending = stream.pending
    BY <1>5, <1>1 DEF Restart, Goto, TypeOK, EntryTurnsIdle, TurnsIdle, vars
  <2>2. HandOK(c)' /\ Live(c)' = Live(c)
    BY <1>1, <1>2, <1>5, <2>1 DEF HandOK, First, Live, Under
  <2> QED
    BY <1>1, <1>3, <2>2, QuietBudget DEF AloneInv
<1> QED
  BY <1>4, <1>5 DEF EntryTurnsIdle, vars, consumerVars

(***************************************************************************)
(* With one consumer, every delivery of a mail beyond the first is paid    *)
(* for by a failed call, a lost reply or a crash: retries after a refusal, *)
(* batches and claims repeat nothing.                                      *)
(***************************************************************************)
THEOREM OneConsumerRepeatsNeedFaults ==
  ASSUME NEW c, Consumers = {c}
  PROVE  Spec => []RepeatsNeedFaults
<1>1. Init => AloneInv(c)
  <2> SUFFICES ASSUME Init PROVE AloneInv(c)
    OBVIOUS
  <2>1. TypeOK /\ Entries(stream) = {} /\ Live(c) = {}
    BY InitIInv, EmailAssumption
       DEF Init, IInv, Entries, EmptyStream, Live, Unacked, Under
  <2>2. HandOK(c) /\ Asked
    BY <2>1 DEF Init, HandOK, Asked
  <2>3. \A m \in Mails : Cardinality(LiveOf(c, m)) = 0
    BY <2>1, FS_EmptySet DEF LiveOf
  <2> QED
    BY <2>1, <2>2, <2>3 DEF AloneInv, Budget, Init
<1>2. TypeOK' /\ AloneInv(c) /\ [Next]_vars => AloneInv(c)'
  BY EmailAssumption, EnqueueAlone, PollAlone, SendAlone, CallReturnsAlone,
     CallFailsAlone, StopAlone, ElseAlone DEF Next, ConsumerStep
<1>3. AloneInv(c) => RepeatsNeedFaults
  <2> SUFFICES ASSUME AloneInv(c), NEW m \in Mails PROVE sent[m] <= 1 + faults
    BY DEF RepeatsNeedFaults
  <2>1. Cardinality(LiveOf(c, m)) \in Nat
    BY LiveEntries, FS_CardinalityType DEF AloneInv
  <2> QED
    BY <2>1 DEF AloneInv, Budget, TypeOK
<1> QED
  BY <1>1, <1>2, <1>3, TypeCorrect, PTL DEF Spec
=============================================================================

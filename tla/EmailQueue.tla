----------------------------- MODULE EmailQueue -----------------------------
(***************************************************************************)
(* The e-mail queue of libs/mailer: the API writes a mail to a stream, and *)
(* a consumer in every API process renders and sends it.  Each Redis call  *)
(* and each delivery to the mail server is a step.  A mail that cannot be  *)
(* sent is written again with one more attempt, and shelved in a dead      *)
(* letter stream when its attempts are used up.                            *)
(***************************************************************************)
EXTENDS RedisStreams

CONSTANTS
  Mails,       \* mails, each queued once
  Consumers,   \* API processes
  MaxRetries,  \* redisEmailQueue.maxRetries
  BatchSize,   \* redisEmailQueue.batchSize
  MaxFaults    \* bound: failed calls, lost replies and crashes

ASSUME EmailAssumption ==
  /\ MaxRetries \in Nat
  /\ BatchSize \in Nat \ {0}
  /\ MaxFaults \in Nat

VARIABLES
  asked,    \* mails whose sender has called enqueue
  stream,   \* the e-mail stream
  shelved,  \* mails with an entry in the dead letter stream
  stage,    \* stage[c]: what consumer c does next
  hand,     \* hand[c]: entries c was given and has not finished
  loop,     \* loop[c]: the call c makes when its hand is empty
  tries,    \* tries[m]: calls of the mail server for m
  sent,     \* sent[m]: deliveries of m to the mail server
  faults    \* failed calls, lost replies and crashes so far

consumerVars == <<stage, hand, loop>>
mailVars     == <<tries, sent>>
vars == <<asked, stream, shelved, consumerVars, mailVars, faults>>

Entry == [mail : Mails, attempts : Nat]

Stages == {"poll", "send", "ack", "retry", "shelve", "done", "down"}

TypeOK ==
  /\ asked \subseteq Mails
  /\ stream \in StreamOf(Entry)
  /\ shelved \subseteq Mails
  /\ stage \in [Consumers -> Stages]
  /\ hand \in [Consumers -> SUBSET Nat]
  /\ \A c \in Consumers : hand[c] \subseteq Entries(stream)
  /\ loop \in [Consumers -> {"claim", "read"}]
  /\ tries \in [Mails -> Nat]
  /\ sent \in [Mails -> Nat]
  /\ faults \in Nat

Init ==
  /\ asked = {}
  /\ stream = EmptyStream
  /\ shelved = {}
  /\ stage = [c \in Consumers |-> "poll"]
  /\ hand = [c \in Consumers |-> {}]
  /\ loop = [c \in Consumers |-> "claim"]
  /\ tries = [m \in Mails |-> 0]
  /\ sent = [m \in Mails |-> 0]
  /\ faults = 0

Fault == faults < MaxFaults /\ faults' = faults + 1

Push(m, attempts) == stream' = XAdd(stream, [mail |-> m, attempts |-> attempts])

Enqueue(m) ==
  /\ m \notin asked
  /\ asked' = asked \cup {m}
  /\ Push(m, 0)
  /\ UNCHANGED <<shelved, consumerVars, mailVars, faults>>

\* The caller gets an error; the entry may be there all the same.
EnqueueFails(m) ==
  /\ m \notin asked
  /\ asked' = asked \cup {m}
  /\ Push(m, 0) \/ UNCHANGED stream
  /\ Fault
  /\ UNCHANGED <<shelved, consumerVars, mailVars>>

-----------------------------------------------------------------------------
(* The consumer.                                                           *)

Goto(c, s) == stage' = [stage EXCEPT ![c] = s] /\ UNCHANGED <<hand, loop>>

First(c, i) == i \in hand[c] /\ \A k \in hand[c] : i <= k

TakeBatch(c, call, ids) ==
  /\ stage[c] = "poll"
  /\ loop[c] = call
  /\ hand' = [hand EXCEPT ![c] = ids]
  /\ stage' = [stage EXCEPT ![c] = IF ids = {} THEN "poll" ELSE "send"]
  /\ loop' = [loop EXCEPT ![c] = IF call = "claim" THEN "read" ELSE "claim"]

Claim(c) ==
  /\ TakeBatch(c, "claim", IdleEntries(stream, BatchSize))
  /\ stream' = XAutoClaim(stream, BatchSize)
  /\ UNCHANGED <<asked, shelved, mailVars, faults>>

Read(c) ==
  /\ TakeBatch(c, "read", NewEntries(stream, BatchSize))
  /\ stream' = XReadGroup(stream, BatchSize)
  /\ UNCHANGED <<asked, shelved, mailVars, faults>>

FinishEntry(c, i) ==
  /\ hand' = [hand EXCEPT ![c] = @ \ {i}]
  /\ stage' = [stage EXCEPT ![c] = IF hand[c] = {i} THEN "poll" ELSE "send"]
  /\ UNCHANGED loop

\* An error that leaves the loop, which has no catch: the rejected promise
\* ends the API process, and its batch is dropped.
Stop(c) ==
  /\ stage' = [stage EXCEPT ![c] = "down"]
  /\ hand' = [hand EXCEPT ![c] = {}]
  /\ loop' = [loop EXCEPT ![c] = "claim"]

\* Mutants: the attempt that just failed is not counted; nothing is shelved.
HandleFailureEarly(c, i) ==
  Goto(c, IF stream.log[i].attempts + 2 > MaxRetries THEN "shelve" ELSE "retry")

HandleFailureDrops(c, i) ==
  Goto(c, IF stream.log[i].attempts + 1 > MaxRetries THEN "done" ELSE "retry")

\* handleFailure, up to its first Redis call.
HandleFailure(c, i) ==
  Goto(c, IF stream.log[i].attempts + 1 > MaxRetries THEN "shelve" ELSE "retry")

Try(i) == tries' = [tries EXCEPT ![stream.log[i].mail] = @ + 1]

Deliver(i) == sent' = [sent EXCEPT ![stream.log[i].mail] = @ + 1]

\* Mutant: a sent mail runs on into the error handling.
SendFallsThrough(c, i) ==
  /\ stage[c] = "send"
  /\ Try(i)
  /\ Deliver(i)
  /\ HandleFailure(c, i)
  /\ UNCHANGED <<asked, stream, shelved, faults>>

Send(c, i) ==
  /\ stage[c] = "send"
  /\ Try(i)
  /\ Deliver(i)
  /\ Goto(c, "ack")
  /\ UNCHANGED <<asked, stream, shelved, faults>>

\* Mutant: a failed mail is taken for sent.
SendFailsSilently(c, i) ==
  /\ stage[c] = "send"
  /\ Try(i)
  /\ Goto(c, "ack")
  /\ UNCHANGED <<asked, stream, shelved, sent, faults>>

\* The template is unknown or cannot be rendered, or the server refuses.
SendFails(c, i) ==
  /\ stage[c] = "send"
  /\ Try(i)
  /\ HandleFailure(c, i)
  /\ UNCHANGED <<asked, stream, shelved, sent, faults>>

\* The server accepted the mail, but its reply did not arrive.
SendReplyLost(c, i) ==
  /\ stage[c] = "send"
  /\ Try(i)
  /\ Deliver(i)
  /\ HandleFailure(c, i)
  /\ Fault
  /\ UNCHANGED <<asked, stream, shelved>>

\* Mutant: the dead letter entry holds the entry's id in place of the mail.
CallShelvesId(c, i) ==
  LET e == stream.log[i] IN
  \/ stage[c] = "retry" /\ Push(e.mail, e.attempts + 1) /\ UNCHANGED shelved
  \/ stage[c] = "shelve" /\ shelved' = shelved \cup {i} /\ UNCHANGED stream
  \/ stage[c] \in {"ack", "done"} /\ stream' = XAck(stream, i) /\ UNCHANGED shelved

\* The Redis call of each stage, its effect only.
Call(c, i) ==
  LET e == stream.log[i] IN
  \/ stage[c] = "retry" /\ Push(e.mail, e.attempts + 1) /\ UNCHANGED shelved
  \/ stage[c] = "shelve" /\ shelved' = shelved \cup {e.mail} /\ UNCHANGED stream
  \/ stage[c] \in {"ack", "done"} /\ stream' = XAck(stream, i) /\ UNCHANGED shelved

CallReturns(c, i) ==
  /\ Call(c, i)
  /\ IF stage[c] \in {"ack", "done"} THEN FinishEntry(c, i) ELSE Goto(c, "done")
  /\ UNCHANGED <<asked, mailVars, faults>>

\* The acknowledgement of a sent mail is inside the try block of the send.
CallFails(c, i) ==
  /\ stage[c] \in {"retry", "shelve", "ack", "done"}
  /\ Call(c, i) \/ UNCHANGED <<stream, shelved>>
  /\ IF stage[c] = "ack" THEN HandleFailure(c, i) ELSE Stop(c)
  /\ Fault
  /\ UNCHANGED <<asked, mailVars>>

PollFails(c) ==
  /\ stage[c] = "poll"
  /\ stream' \in {stream, IF loop[c] = "claim" THEN XAutoClaim(stream, BatchSize)
                                              ELSE XReadGroup(stream, BatchSize)}
  /\ Stop(c)
  /\ Fault
  /\ UNCHANGED <<asked, shelved, mailVars>>

Crash(c) ==
  /\ stage[c] # "down"
  /\ Stop(c)
  /\ Fault
  /\ UNCHANGED <<asked, stream, shelved, mailVars>>

Restart(c) ==
  /\ stage[c] = "down"
  /\ Goto(c, "poll")
  /\ UNCHANGED <<asked, stream, shelved, mailVars, faults>>

EntryTurnsIdle(i) ==
  /\ i \in stream.pending \ stream.idle
  /\ stream' = TurnsIdle(stream, i)
  /\ UNCHANGED <<asked, shelved, consumerVars, mailVars, faults>>

ConsumerStep(c) ==
  \/ Claim(c) \/ Read(c)
  \/ \E i \in hand[c] :
       First(c, i) /\ (Send(c, i) \/ SendFails(c, i) \/ CallReturns(c, i))

Next ==
  \/ \E m \in Mails : Enqueue(m) \/ EnqueueFails(m)
  \/ \E c \in Consumers :
       \/ ConsumerStep(c)
       \/ \E i \in hand[c] : First(c, i) /\ (SendReplyLost(c, i) \/ CallFails(c, i))
       \/ PollFails(c) \/ Crash(c) \/ Restart(c)
  \/ \E i \in stream.pending : EntryTurnsIdle(i)

Spec == Init /\ [][Next]_vars

\* A running consumer goes on, a stopped process is restarted by its container,
\* and an entry nobody touches becomes claimable.
FairSpec ==
  /\ Spec
  /\ \A c \in Consumers : WF_vars(ConsumerStep(c)) /\ WF_vars(Restart(c))
  /\ WF_vars(\E i \in stream.pending : EntryTurnsIdle(i))

-----------------------------------------------------------------------------
(* Properties.                                                             *)

Settled(m) == sent[m] > 0 \/ m \in shelved

(***************************************************************************)
(* No mail is lost: a mail in the stream was sent, or shelved, or one of   *)
(* its entries is still to be acknowledged.  A retry is written before the *)
(* failed entry is acknowledged, and so is the dead letter entry.          *)
(***************************************************************************)
NoMailLost ==
  \A i \in Entries(stream) :
    \/ Settled(stream.log[i].mail)
    \/ \E k \in Unacked(stream) : stream.log[k].mail = stream.log[i].mail

(***************************************************************************)
(* With one consumer a mail is sent twice only after a fault: retries      *)
(* after a refusal repeat nothing.                                         *)
(***************************************************************************)
RepeatsNeedFaults == \A m \in Mails : sent[m] <= 1 + faults

(***************************************************************************)
(* A mail is given up only after MaxRetries retries: the mail server was   *)
(* called MaxRetries + 1 times, failed acknowledgements (which count as    *)
(* attempts) aside.                                                        *)
(***************************************************************************)
ShelvedAfterAllTries == \A m \in shelved : tries[m] > MaxRetries

(***************************************************************************)
(* The queue keeps the promise of a job queue: a queued mail is sent or    *)
(* shelved, once and for all, when the faults stop.                        *)
(***************************************************************************)
Delivery == INSTANCE JobDelivery WITH
  Jobs     <- Mails,
  accepted <- { stream.log[i].mail : i \in Entries(stream) },
  settled  <- { m \in Mails : Settled(m) }

EveryMailSettled == Delivery!Spec
=============================================================================

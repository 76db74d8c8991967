---------------------------- MODULE RedisStreams ----------------------------
(***************************************************************************)
(* The Redis Streams commands that the job, result and e-mail queues use,  *)
(* modelled from the calls the code makes: XADD, XREADGROUP ... ">",       *)
(* XAUTOCLAIM ... 0-0 and XACK, for one stream with one consumer group     *)
(* created at id 0.                                                        *)
(*                                                                         *)
(* A stream never forgets an entry here: trimming (XADD MAXLEN ~) is left  *)
(* out, so an entry is its position in the log.  "pending" is the group's  *)
(* pending entries list and "idle" the part of it that nobody has touched  *)
(* for claimIdleMs, which XAUTOCLAIM may hand to any consumer, even while  *)
(* the consumer that read it first is still busy with it.                  *)
(***************************************************************************)
EXTENDS Naturals, Sequences, FiniteSets

EmptyStream == [log |-> << >>, cursor |-> 0, pending |-> {}, idle |-> {}]

\* The streams whose entries carry a payload of the set P.
StreamOf(P) == { s \in [log : Seq(P), cursor : Nat,
                        pending : SUBSET Nat, idle : SUBSET Nat] :
                   /\ s.cursor <= Len(s.log)
                   /\ s.pending \subseteq 1 .. s.cursor
                   /\ s.idle \subseteq s.pending }

Entries(s) == 1 .. Len(s.log)

\* Entries the group still owes somebody: never delivered, or not acknowledged.
Unacked(s) == { i \in Entries(s) : i > s.cursor \/ i \in s.pending }

XAdd(s, payload) == [log |-> Append(s.log, payload), cursor |-> s.cursor,
                     pending |-> s.pending, idle |-> s.idle]

\* XREADGROUP COUNT n: the next n entries nobody was given yet.
NewEntries(s, n) == { i \in Entries(s) : s.cursor < i /\ i <= s.cursor + n }

XReadGroup(s, n) ==
  [log |-> s.log,
   cursor |-> IF s.cursor + n <= Len(s.log) THEN s.cursor + n ELSE Len(s.log),
   pending |-> s.pending \cup NewEntries(s, n), idle |-> s.idle]

\* XAUTOCLAIM 0-0 COUNT n: the n oldest idle entries; claiming resets idleness.
IdleEntries(s, n) == { i \in s.idle : Cardinality({ j \in s.idle : j < i }) < n }

XAutoClaim(s, n) == [log |-> s.log, cursor |-> s.cursor, pending |-> s.pending,
                     idle |-> s.idle \ IdleEntries(s, n)]

XAck(s, i) == [log |-> s.log, cursor |-> s.cursor,
               pending |-> s.pending \ {i}, idle |-> s.idle \ {i}]

\* claimIdleMs pass without entry i being delivered again or acknowledged.
TurnsIdle(s, i) == [log |-> s.log, cursor |-> s.cursor, pending |-> s.pending,
                    idle |-> s.idle \cup {i}]
=============================================================================

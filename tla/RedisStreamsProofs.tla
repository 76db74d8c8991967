------------------------- MODULE RedisStreamsProofs -------------------------
(***************************************************************************)
(* What each stream command preserves, for streams of any payload set.     *)
(***************************************************************************)
EXTENDS RedisStreams, FiniteSetTheorems, TLAPS

\* Stream t continues stream s: no entry of s changed or disappeared, and an
\* entry that s lacks still has to be acknowledged.
Extends(s, t) ==
  /\ Entries(s) \subseteq Entries(t)
  /\ \A i \in Entries(s) : t.log[i] = s.log[i]
  /\ Entries(t) \ Entries(s) \subseteq Unacked(t)

\* What membership in StreamOf says of each field.
LEMMA StreamFields ==
  ASSUME NEW P, NEW s \in StreamOf(P)
  PROVE  /\ s.log \in Seq(P) /\ Len(s.log) \in Nat
         /\ s.cursor \in Nat /\ s.cursor <= Len(s.log)
         /\ s.pending \subseteq 1 .. s.cursor /\ s.idle \subseteq s.pending
         /\ \A i \in Entries(s) : i \in Nat /\ s.log[i] \in P
         /\ s.pending \subseteq Entries(s)
BY DEF StreamOf, Entries

\* The empty stream is a stream.
LEMMA EmptyStreamType ==
  ASSUME NEW P PROVE EmptyStream \in StreamOf(P)
BY DEF EmptyStream, StreamOf

\* XADD adds exactly one entry, unacknowledged, after all the others.
LEMMA XAddFacts ==
  ASSUME NEW P, NEW s \in StreamOf(P), NEW x \in P
  PROVE  /\ XAdd(s, x) \in StreamOf(P)
         /\ Extends(s, XAdd(s, x))
         /\ Entries(XAdd(s, x)) = Entries(s) \cup {Len(s.log) + 1}
         /\ Unacked(XAdd(s, x)) = Unacked(s) \cup {Len(s.log) + 1}
         /\ XAdd(s, x).log[Len(s.log) + 1] = x
<1> DEFINE l == Append(s.log, x)
<1>1. /\ s.log \in Seq(P) /\ s.cursor \in Nat /\ s.cursor <= Len(s.log)
      /\ s.pending \subseteq 1 .. s.cursor /\ s.idle \subseteq s.pending
      /\ Len(s.log) \in Nat
  BY StreamFields
<1>2. XAdd(s, x) = [log |-> l, cursor |-> s.cursor,
                    pending |-> s.pending, idle |-> s.idle]
  BY DEF XAdd
<1>3. /\ l \in Seq(P)
      /\ Len(l) = Len(s.log) + 1
      /\ \A i \in 1 .. Len(s.log) : l[i] = s.log[i]
      /\ l[Len(s.log) + 1] = x
  BY <1>1
<1> HIDE DEF l
<1>4. XAdd(s, x) \in StreamOf(P)
  BY <1>1, <1>2, <1>3 DEF StreamOf
<1>5. Extends(s, XAdd(s, x))
  BY <1>1, <1>2, <1>3 DEF Extends, Entries, Unacked
<1>6. /\ Entries(XAdd(s, x)) = Entries(s) \cup {Len(s.log) + 1}
      /\ Unacked(XAdd(s, x)) = Unacked(s) \cup {Len(s.log) + 1}
  BY <1>1, <1>2, <1>3 DEF Unacked, Entries
<1> QED
  BY <1>2, <1>3, <1>4, <1>5, <1>6

\* Reading delivers entries without settling any.
LEMMA XReadGroupFacts ==
  ASSUME NEW P, NEW s \in StreamOf(P), NEW n \in Nat
  PROVE  /\ XReadGroup(s, n) \in StreamOf(P)
         /\ Extends(s, XReadGroup(s, n))
         /\ Unacked(XReadGroup(s, n)) = Unacked(s)
         /\ NewEntries(s, n) \subseteq Entries(XReadGroup(s, n))
<1>1. /\ s.log \in Seq(P) /\ s.cursor \in Nat /\ s.cursor <= Len(s.log)
      /\ s.pending \subseteq 1 .. s.cursor /\ s.idle \subseteq s.pending
      /\ Len(s.log) \in Nat
  BY StreamFields
<1>2. XReadGroup(s, n) \in StreamOf(P)
  BY <1>1 DEF StreamOf, NewEntries, Entries, XReadGroup
<1>3. Unacked(XReadGroup(s, n)) = Unacked(s)
  BY <1>1 DEF Unacked, NewEntries, Entries, XReadGroup
<1> QED
  BY <1>1, <1>2, <1>3 DEF Extends, Entries, Unacked, NewEntries, XReadGroup

\* Claiming only restarts the idle clock.
LEMMA XAutoClaimFacts ==
  ASSUME NEW P, NEW s \in StreamOf(P), NEW n
  PROVE  /\ XAutoClaim(s, n) \in StreamOf(P)
         /\ Extends(s, XAutoClaim(s, n))
         /\ Unacked(XAutoClaim(s, n)) = Unacked(s)
         /\ IdleEntries(s, n) \subseteq Entries(XAutoClaim(s, n))
<1>1. /\ s.log \in Seq(P) /\ s.cursor \in Nat /\ s.cursor <= Len(s.log)
      /\ s.pending \subseteq 1 .. s.cursor /\ s.idle \subseteq s.pending
      /\ Len(s.log) \in Nat
  BY StreamFields
<1>2. IdleEntries(s, n) \subseteq s.idle
  BY DEF IdleEntries
<1> QED
  BY <1>1, <1>2 DEF StreamOf, Extends, Unacked, Entries, XAutoClaim

\* An acknowledgement settles one entry and no other.
LEMMA XAckFacts ==
  ASSUME NEW P, NEW s \in StreamOf(P), NEW i
  PROVE  /\ XAck(s, i) \in StreamOf(P)
         /\ Extends(s, XAck(s, i))
         /\ Entries(XAck(s, i)) = Entries(s)
         /\ Unacked(s) \ {i} \subseteq Unacked(XAck(s, i))
<1>1. /\ s.log \in Seq(P) /\ s.cursor \in Nat /\ s.cursor <= Len(s.log)
      /\ s.pending \subseteq 1 .. s.cursor /\ s.idle \subseteq s.pending
      /\ Len(s.log) \in Nat
  BY StreamFields
<1> QED
  BY <1>1 DEF StreamOf, Extends, Unacked, Entries, XAck

\* The passage of time settles nothing.
LEMMA TurnsIdleFacts ==
  ASSUME NEW P, NEW s \in StreamOf(P), NEW i \in s.pending
  PROVE  /\ TurnsIdle(s, i) \in StreamOf(P)
         /\ Extends(s, TurnsIdle(s, i))
         /\ Unacked(TurnsIdle(s, i)) = Unacked(s)
<1>1. /\ s.log \in Seq(P) /\ s.cursor \in Nat /\ s.cursor <= Len(s.log)
      /\ s.pending \subseteq 1 .. s.cursor /\ s.idle \subseteq s.pending
      /\ Len(s.log) \in Nat
  BY StreamFields
<1> QED
  BY <1>1 DEF StreamOf, Extends, Unacked, Entries, TurnsIdle

-----------------------------------------------------------------------------
(* What is owed, exactly, and to whom the group gives it.                  *)

\* Acknowledging an entry that was given out settles it and no other.
LEMMA XAckSettles ==
  ASSUME NEW P, NEW s \in StreamOf(P), NEW i \in Nat, i <= s.cursor
  PROVE  /\ Unacked(XAck(s, i)) = Unacked(s) \ {i}
         /\ XAck(s, i).cursor = s.cursor /\ XAck(s, i).pending = s.pending \ {i}
BY StreamFields DEF XAck, Unacked, Entries

\* An entry that was given out is owed as long as it is pending.
LEMMA PendingIsOwed ==
  ASSUME NEW P, NEW s \in StreamOf(P), NEW i \in Nat, i <= s.cursor
  PROVE  i \in Unacked(s) <=> i \in s.pending
BY StreamFields DEF Unacked, Entries

\* The group gives out entries that are pending from then on.
LEMMA GivenIsPending ==
  ASSUME NEW P, NEW s \in StreamOf(P), NEW n \in Nat
  PROVE  /\ \A i \in IdleEntries(s, n) : i \in XAutoClaim(s, n).pending /\ i <= s.cursor
         /\ XAutoClaim(s, n).cursor = s.cursor
         /\ \A i \in NewEntries(s, n) :
              i \in XReadGroup(s, n).pending /\ i <= XReadGroup(s, n).cursor
<1>1. /\ Len(s.log) \in Nat /\ s.cursor \in Nat
      /\ s.pending \subseteq 1 .. s.cursor /\ s.idle \subseteq s.pending
  BY StreamFields
<1>2. /\ XAutoClaim(s, n).pending = s.pending /\ XAutoClaim(s, n).cursor = s.cursor
      /\ XReadGroup(s, n).pending = s.pending \cup NewEntries(s, n)
      /\ XReadGroup(s, n).cursor
           = IF s.cursor + n <= Len(s.log) THEN s.cursor + n ELSE Len(s.log)
  BY DEF XAutoClaim, XReadGroup
<1>3. IdleEntries(s, n) \subseteq s.idle
  BY DEF IdleEntries
<1> QED
  BY <1>1, <1>2, <1>3 DEF NewEntries, Entries

-----------------------------------------------------------------------------
(* Counting entries.                                                       *)

\* The entries of a stream are finitely many.
LEMMA EntriesFinite ==
  ASSUME NEW P, NEW s \in StreamOf(P)
  PROVE  IsFiniteSet(Entries(s))
BY StreamFields, FS_Interval DEF Entries

\* One element more adds at most one to the size of a set.
LEMMA OneMore ==
  ASSUME NEW S, IsFiniteSet(S), NEW b
  PROVE  /\ Cardinality(S) \in Nat
         /\ IsFiniteSet(S \cup {b}) /\ Cardinality(S \cup {b}) \in Nat
         /\ Cardinality(S \cup {b}) <= Cardinality(S) + 1
<1>1. Cardinality(S) \in Nat
  BY FS_CardinalityType
<1>2. /\ IsFiniteSet(S \cup {b})
      /\ Cardinality(S \cup {b}) = IF b \in S THEN Cardinality(S) ELSE Cardinality(S) + 1
  BY FS_AddElement
<1> QED
  BY <1>1, <1>2

\* The size of a set that lost at most a and gained at most b.
LEMMA Tally ==
  ASSUME NEW S, IsFiniteSet(S), NEW T, NEW a, NEW b
  PROVE  /\ Cardinality(S) \in Nat
         /\ T \subseteq S => Cardinality(T) \in Nat /\ Cardinality(T) <= Cardinality(S)
         /\ T \subseteq S \cup {b} =>
              Cardinality(T) \in Nat /\ Cardinality(T) <= Cardinality(S) + 1
         /\ a \in S /\ T \subseteq S \ {a} =>
              Cardinality(T) \in Nat /\ Cardinality(T) + 1 <= Cardinality(S)
         /\ a \in S /\ T \subseteq (S \ {a}) \cup {b} =>
              Cardinality(T) \in Nat /\ Cardinality(T) <= Cardinality(S)
<1>1. /\ Cardinality(S) \in Nat
      /\ IsFiniteSet(S \cup {b}) /\ Cardinality(S \cup {b}) \in Nat
      /\ Cardinality(S \cup {b}) <= Cardinality(S) + 1
  BY OneMore
<1>2. /\ IsFiniteSet(S \ {a}) /\ Cardinality(S \ {a}) \in Nat
      /\ a \in S => Cardinality(S \ {a}) = Cardinality(S) - 1
  BY <1>1, FS_CardinalityType, FS_RemoveElement
<1>3. /\ IsFiniteSet((S \ {a}) \cup {b}) /\ Cardinality((S \ {a}) \cup {b}) \in Nat
      /\ Cardinality((S \ {a}) \cup {b}) <= Cardinality(S \ {a}) + 1
  BY <1>2, OneMore
<1>4. ASSUME NEW U, IsFiniteSet(U), T \subseteq U
      PROVE  Cardinality(T) \in Nat /\ Cardinality(T) <= Cardinality(U)
  BY <1>4, FS_Subset, FS_CardinalityType
<1>5. T \subseteq S => Cardinality(T) \in Nat /\ Cardinality(T) <= Cardinality(S)
  BY <1>4
<1>6. T \subseteq S \cup {b} =>
        Cardinality(T) \in Nat /\ Cardinality(T) <= Cardinality(S) + 1
  BY <1>1, <1>4
<1>7. a \in S /\ T \subseteq S \ {a} =>
        Cardinality(T) \in Nat /\ Cardinality(T) + 1 <= Cardinality(S)
  BY <1>1, <1>2, <1>4
<1>8. a \in S /\ T \subseteq (S \ {a}) \cup {b} =>
        Cardinality(T) \in Nat /\ Cardinality(T) <= Cardinality(S)
  BY <1>1, <1>2, <1>3, <1>4
<1> QED
  BY <1>1, <1>5, <1>6, <1>7, <1>8
=============================================================================

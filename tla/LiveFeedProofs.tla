--------------------------- MODULE LiveFeedProofs ---------------------------
(***************************************************************************)
(* Proofs about LiveFeed, for any number of candles and faults: its types, *)
(* that a reliable feed is complete, that the lab is given what the stream *)
(* offered, in order, and the safety part of the two progress properties:  *)
(* an engine that waits without a notice has nothing to read, and a queued *)
(* candle always has someone who will deliver it.                          *)
(***************************************************************************)
EXTENDS LiveFeed, FiniteSetTheorems, SequenceTheorems, WellFoundedInduction, TLAPS

USE ClosesAssumption, MaxFaultsAssumption
-----------------------------------------------------------------------------
\* A non-empty set of naturals has a least element, which Min chooses.
LEMMA MinIsLeast ==
    ASSUME NEW S \in SUBSET Nat, S # {}
    PROVE  Min(S) \in S
<1> DEFINE R == {ss \in Nat \X Nat : ss[1] < ss[2]}
<1>1. IsWellFoundedOn(R, Nat)
    BY NatLessThanWellFounded DEF OpToRel
<1>2. PICK x \in S : \A y \in S : <<y, x>> \notin R
    BY <1>1, WFMin, Zenon
<1>3. ASSUME NEW y \in S PROVE x <= y
    <2>1. x \in Nat /\ y \in Nat /\ ~(y < x)
        BY <1>2
    <2> QED
        BY <2>1
<1> QED
    BY <1>3 DEF Min

\* Nothing is known that the venue has not closed.
Closed ==
    /\ bars \subseteq 0 .. venue
    /\ unread \subseteq 1 .. venue
    /\ rows \subseteq 0 .. venue

\* The steps of the stream, the hub and the engine, each with what it leaves alone.
LEMMA StepKinds ==
    ASSUME [Next]_vars
    PROVE  \/ ReaderStep /\ UNCHANGED <<hub, loop>>
           \/ (VenueCloses \/ RestFails \/ Drops) /\ UNCHANGED <<hub, loop>>
           \/ Delivers
           \/ (HolderStep \/ TriesLock \/ TimerFires) /\ UNCHANGED <<stream, loop>>
           \/ (Fetches \/ Wakes \/ Clears \/ Polls) /\ UNCHANGED <<stream, hub, faults>>
           \/ UNCHANGED vars
<1>1. HolderStep \/ TriesLock \/ TimerFires => UNCHANGED stream
    BY DEF HolderStep, Takes, SinkAccepts, SinkRefuses, ArmsTimer, Leaves, TriesLock, TimerFires
<1>2. Fetches \/ Wakes \/ Clears \/ Polls => UNCHANGED <<stream, hub, faults>>
    BY DEF Fetches, Wakes, Clears, Polls
<1> QED
    BY <1>1, <1>2 DEF Next, StreamStep, EngineStep

\* A fault stays within the bound.
LEMMA FaultCounts == ASSUME StreamTypeOK, Fault PROVE faults' \in 0 .. MaxFaults
    BY DEF StreamTypeOK, Fault

\* The stream knows no more than the venue has closed.
LEMMA ClosedStep ==
    ASSUME StreamTypeOK, Closed,
           ReaderStep \/ VenueCloses \/ RestFails \/ Drops
    PROVE  Closed' /\ venue' \in 0 .. Closes /\ venue <= venue'
<1>0. venue \in Nat /\ venue \in 0 .. Closes
    BY DEF StreamTypeOK
<1>1. CASE Connects \/ Unproven \/ RestFails \/ Drops
    <2>1. /\ UNCHANGED <<venue, bars, rows>>
          /\ unread' = unread \/ unread' = {}
        BY <1>1 DEF Connects, Unproven, RestFails, Drops
    <2>2. Closed'
        BY <2>1 DEF Closed
    <2> QED
        BY <1>0, <2>1, <2>2
<1>2. CASE RestAnswers
    <2>1. UNCHANGED <<venue, bars, unread>>
        BY <1>2 DEF RestAnswers
    <2>2. rows' = 0 .. venue \/ rows' = 0 .. venue - 1
        BY <1>2 DEF RestAnswers
    <2>3. 0 .. venue - 1 \subseteq 0 .. venue
        BY <1>0
    <2> QED
        BY <1>0, <2>1, <2>2, <2>3 DEF Closed
<1>3. CASE MergesRow
    <2>1. rows \ bars \in SUBSET Nat
        BY DEF StreamTypeOK
    <2>2. Min(rows \ bars) \in rows
        BY <1>3, <2>1, MinIsLeast DEF MergesRow
    <2>3. bars' = bars \union {Min(rows \ bars)} /\ UNCHANGED <<venue, unread, rows>>
        BY <1>3 DEF MergesRow
    <2>4. Closed'
        BY <2>2, <2>3 DEF Closed
    <2> QED
        BY <1>0, <2>3, <2>4
<1>4. CASE Reconciled
    <2>1. rows' = {} /\ UNCHANGED <<venue, bars, unread>>
        BY <1>4 DEF Reconciled
    <2> QED
        BY <1>0, <2>1 DEF Closed
<1>5. CASE Reads
    <2>1. unread \in SUBSET Nat
        BY DEF StreamTypeOK
    <2>2. Min(unread) \in unread
        BY <1>5, <2>1, MinIsLeast DEF Reads
    <2>3. Min(unread) \in 0 .. venue
        <3>1. 1 .. venue \subseteq 0 .. venue
            BY <1>0
        <3> QED
            BY <2>2, <3>1 DEF Closed
    <2>4. /\ UNCHANGED <<venue, rows>>
          /\ unread' \subseteq unread
          /\ bars' \subseteq bars \union {Min(unread)}
        BY <1>5 DEF Reads
    <2> QED
        BY <1>0, <2>3, <2>4 DEF Closed
<1>6. CASE VenueCloses
    <2>1. venue < Closes /\ venue' = venue + 1 /\ UNCHANGED <<bars, rows>>
        BY <1>6 DEF VenueCloses
    <2>2. unread' \subseteq unread \union {venue + 1}
        BY <1>6 DEF VenueCloses
    <2>3. venue' \in 0 .. Closes /\ venue <= venue'
        BY <1>0, <2>1
    <2>4. 0 .. venue \subseteq 0 .. venue' /\ 1 .. venue \subseteq 1 .. venue' /\ venue + 1 \in 1 .. venue'
        BY <1>0, <2>1
    <2> QED
        BY <2>1, <2>2, <2>3, <2>4 DEF Closed
<1> QED
    BY <1>1, <1>2, <1>3, <1>4, <1>5, <1>6 DEF ReaderStep

\* The stream's own steps keep its types.
LEMMA StreamTypes ==
    ASSUME StreamTypeOK, Closed,
           ReaderStep \/ VenueCloses \/ RestFails \/ Drops
    PROVE  StreamTypeOK'
<1>1. Closed' /\ venue' \in 0 .. Closes
    BY ClosedStep
<1>2. bars' \subseteq 0 .. Closes /\ unread' \subseteq 1 .. Closes /\ rows' \subseteq 0 .. Closes
    BY <1>1 DEF Closed
<1>3. state' \in {"CONNECTING", "CONNECTED", "DELAYED", "RECONNECTING"} /\ complete' \in BOOLEAN
    BY DEF StreamTypeOK, ReaderStep, Connects, Unproven, RestAnswers, RestFails, MergesRow, Reconciled,
       Reads, VenueCloses, Drops, Transport
<1>4. reader' \in {"connect", "connected", "ask", "merge", "read"} /\ late' \in BOOLEAN
    BY DEF StreamTypeOK, ReaderStep, Connects, Unproven, RestAnswers, RestFails, MergesRow, Reconciled,
       Reads, VenueCloses, Drops, AfterClosed
<1>5. faults' \in 0 .. MaxFaults
    <2>1. faults' = faults \/ Fault
        BY DEF ReaderStep, Connects, Unproven, RestAnswers, RestFails, MergesRow, Reconciled,
           Reads, VenueCloses, Drops
    <2> QED
        BY <2>1, FaultCounts DEF StreamTypeOK
<1>6. fresh' \in 0 .. Closes
    <2>1. fresh' = fresh \/ fresh' \in bars'
        <3>1. CASE MergesRow
            BY <3>1 DEF MergesRow
        <3>2. CASE Reads
            BY <3>2 DEF Reads
        <3>3. CASE ~MergesRow /\ ~Reads
            BY <3>3 DEF ReaderStep, Connects, Unproven, RestAnswers, RestFails, Reconciled, VenueCloses, Drops
        <3> QED
            BY <3>1, <3>2, <3>3
    <2> QED
        BY <1>2, <2>1 DEF StreamTypeOK
<1> QED
    BY <1>1, <1>2, <1>3, <1>4, <1>5, <1>6 DEF StreamTypeOK

\* The deliveries keep the hub's types: one candle at a time is in hand.
LEMMA HubTypes ==
    ASSUME StreamTypeOK, HubTypeOK, [Next]_vars
    PROVE  HubTypeOK'
<1> USE DEF HubTypeOK
<1>1. CASE Delivers
    <2>1. fresh \in 1 .. Closes
        BY <1>1 DEF Delivers, Delivered, StreamTypeOK
    <2>2. OnBar(fresh)
        BY <1>1 DEF Delivers
    <2>3. Append(offered, fresh) \in Seq(1 .. Closes) /\ Append(pending, fresh) \in Seq(1 .. Closes)
        BY <2>1
    <2>4. offered' \in Seq(1 .. Closes) /\ pending' \in Seq(1 .. Closes)
        BY <2>2, <2>3 DEF OnBar
    <2>5. UNCHANGED <<got, hand, holder, timer>> /\ calls' = calls + 1
        BY <2>2 DEF OnBar
    <2>6. calls' \in Nat
        BY <2>5
    <2> QED
        BY <2>4, <2>5, <2>6
<1>2. CASE HolderStep \/ TriesLock \/ TimerFires
    <2>1. CASE Takes
        <3>1. CASE pending = <<>>
            <4>1. /\ UNCHANGED <<offered, pending, got, hand, calls, timer>>
                  /\ holder' = "leave"
                BY <2>1, <3>1 DEF Takes
            <4> QED
                BY <4>1
        <3>2. CASE pending # <<>>
            <4>1. Head(pending) \in 1 .. Closes /\ Tail(pending) \in Seq(1 .. Closes)
                BY <3>2
            <4>2. <<Head(pending)>> \in Seq(1 .. Closes) /\ Len(<<Head(pending)>>) = 1
                BY <4>1
            <4>3. /\ UNCHANGED <<offered, got, calls, timer>>
                  /\ hand' = <<Head(pending)>> /\ pending' = Tail(pending) /\ holder' = "sink"
                BY <2>1, <3>2 DEF Takes
            <4> QED
                BY <4>1, <4>2, <4>3
        <3> QED
            BY <3>1, <3>2
    <2>2. CASE SinkAccepts
        <3>1. got \o hand \in Seq(1 .. Closes)
            OBVIOUS
        <3>2. <<>> \in Seq(1 .. Closes) /\ Len(<<>>) = 0
            OBVIOUS
        <3>3. /\ UNCHANGED <<offered, pending, calls, timer>>
              /\ got' = got \o hand /\ hand' = <<>> /\ holder' = "take"
            BY <2>2 DEF SinkAccepts
        <3> QED
            BY <3>1, <3>2, <3>3
    <2>3. CASE SinkRefuses
        <3>1. hand \o pending \in Seq(1 .. Closes)
            OBVIOUS
        <3>2. <<>> \in Seq(1 .. Closes) /\ Len(<<>>) = 0
            OBVIOUS
        <3>3. /\ UNCHANGED <<offered, got, calls, timer>>
              /\ pending' = hand \o pending /\ hand' = <<>> /\ holder' = "refused"
            BY <2>3 DEF SinkRefuses
        <3> QED
            BY <3>1, <3>2, <3>3
    <2>4. CASE ArmsTimer \/ Leaves \/ TriesLock \/ TimerFires
        <3>1. UNCHANGED <<offered, pending, got, hand>>
            BY <2>4 DEF ArmsTimer, Leaves, TriesLock, TimerFires
        <3>2. calls' \in Nat
            <4>1. CASE ArmsTimer \/ Leaves
                BY <4>1 DEF ArmsTimer, Leaves
            <4>2. CASE TriesLock
                BY <4>2 DEF TriesLock
            <4>3. CASE TimerFires
                BY <4>3 DEF TimerFires
            <4> QED
                BY <2>4, <4>1, <4>2, <4>3
        <3>3. holder' \in {"none", "take", "sink", "refused", "leave"}
            BY <2>4 DEF ArmsTimer, Leaves, TriesLock, TimerFires
        <3>4. timer' \in BOOLEAN
            BY <2>4 DEF ArmsTimer, Leaves, TriesLock, TimerFires
        <3> QED
            BY <3>1, <3>2, <3>3, <3>4
    <2> QED
        BY <1>2, <2>1, <2>2, <2>3, <2>4 DEF HolderStep
<1>3. CASE UNCHANGED hub
    <2>1. UNCHANGED offered /\ UNCHANGED pending /\ UNCHANGED calls /\ UNCHANGED holder
          /\ UNCHANGED hand /\ UNCHANGED timer /\ UNCHANGED got
        BY <1>3 DEF hub
    <2> QED
        BY <2>1
<1> HIDE DEF HubTypeOK
<1> QED
    BY <1>1, <1>2, <1>3, StepKinds DEF vars

\* Without a gap the engine's fetch ends at a candle the venue has closed.
LEMMA CursorStep ==
    ASSUME TypeOK, Closed, Fetches
    PROVE  cursor' \in 0 .. venue
<1>1. venue \in Nat /\ cursor \in 0 .. venue
    BY DEF TypeOK, StreamTypeOK
<1>2. Unseen \subseteq 0 .. venue
    BY DEF Unseen, Closed
<1>3. IsFiniteSet(Unseen)
    <2>1. IsFiniteSet(0 .. venue)
        BY <1>1, FS_Interval
    <2> QED
        BY <1>2, <2>1, FS_Subset
<1>4. Cardinality(Unseen) \in Nat
    BY <1>3, FS_CardinalityType
<1>5. Unseen = cursor + 1 .. cursor + Cardinality(Unseen)
    BY DEF Fetches, Continuous
<1>6. cursor' = cursor + Cardinality(Unseen)
    BY DEF Fetches
<1>7. CASE Cardinality(Unseen) = 0
    BY <1>1, <1>6, <1>7
<1>8. CASE Cardinality(Unseen) # 0
    <2>1. cursor + Cardinality(Unseen) \in Unseen
        BY <1>1, <1>4, <1>5, <1>8
    <2> QED
        BY <1>2, <1>6, <2>1
<1> QED
    BY <1>7, <1>8

\* Every step keeps the types and knows nothing that is not closed yet.
LEMMA TypeStep ==
    ASSUME TypeOK, Closed, [Next]_vars
    PROVE  TypeOK' /\ Closed'
<1> USE DEF TypeOK
<1>1. HubTypeOK'
    BY HubTypes
<1>2. CASE (ReaderStep \/ VenueCloses \/ RestFails \/ Drops) /\ UNCHANGED <<hub, loop>>
    <2>1. StreamTypeOK' /\ Closed' /\ venue' \in 0 .. Closes /\ venue <= venue'
        BY <1>2, StreamTypes, ClosedStep
    <2>2. cursor' \in 0 .. venue'
        BY <1>2, <2>1 DEF loop, StreamTypeOK
    <2> QED
        BY <1>1, <1>2, <2>1, <2>2 DEF loop
<1>3. CASE Delivers
    <2>1. /\ UNCHANGED <<venue, unread, bars, state, complete, rows, faults, late, engine, cursor>>
          /\ fresh' = 0
          /\ ready' = TRUE
          /\ reader' \in {"ask", "read", reader}
        BY <1>3 DEF Delivers, Delivered, AfterClosed
    <2>2. StreamTypeOK'
        BY <2>1 DEF StreamTypeOK
    <2>3. Closed'
        BY <2>1 DEF Closed
    <2> QED
        BY <1>1, <2>1, <2>2, <2>3
<1>4. CASE (HolderStep \/ TriesLock \/ TimerFires) /\ UNCHANGED <<stream, loop>>
    <2>1. faults' = faults \/ Fault
        BY <1>4 DEF HolderStep, Takes, SinkAccepts, SinkRefuses, ArmsTimer, Leaves, TriesLock, TimerFires
    <2>2. faults' \in 0 .. MaxFaults
        BY <2>1, FaultCounts DEF StreamTypeOK
    <2>3. StreamTypeOK'
        BY <1>4, <2>2 DEF StreamTypeOK, stream
    <2>4. Closed'
        BY <1>4 DEF Closed, stream
    <2> QED
        BY <1>1, <1>4, <2>3, <2>4 DEF loop, stream
<1>5. CASE (Fetches \/ Wakes \/ Clears \/ Polls) /\ UNCHANGED <<stream, hub, faults>>
    <2>1. cursor' \in 0 .. venue
        BY <1>5, CursorStep DEF Wakes, Clears, Polls
    <2>2. engine' \in {"fetch", "wait", "clear"} /\ ready' \in BOOLEAN
        BY <1>5 DEF Fetches, Wakes, Clears, Polls
    <2>3. StreamTypeOK' /\ Closed' /\ venue' = venue
        BY <1>5 DEF StreamTypeOK, Closed, stream
    <2> QED
        BY <1>1, <2>1, <2>2, <2>3
<1>6. CASE UNCHANGED vars
    BY <1>6 DEF vars, stream, hub, loop, StreamTypeOK, HubTypeOK, Closed
<1> QED
    BY <1>2, <1>3, <1>4, <1>5, <1>6, StepKinds

\* A run starts with the bootstrapped candle and nothing else.
LEMMA TypeInit ==
    ASSUME Init
    PROVE  TypeOK /\ Closed
<1>1. <<>> \in Seq(1 .. Closes) /\ Len(<<>>) = 0 /\ 0 \in Nat /\ 0 \in 0 .. Closes /\ 0 \in 0 .. MaxFaults
    OBVIOUS
<1>2. HubTypeOK
    <2>1. /\ offered = <<>> /\ pending = <<>> /\ got = <<>> /\ hand = <<>>
          /\ calls = 0 /\ holder = "none" /\ timer = FALSE
        BY DEF Init, HubInit
    <2>2. timer \in BOOLEAN /\ holder \in {"none", "take", "sink", "refused", "leave"}
        BY <2>1
    <2> QED
        BY <1>1, <2>1, <2>2 DEF HubTypeOK
<1>3. StreamTypeOK
    BY <1>1 DEF Init, StreamInit, StreamTypeOK
<1>4. Closed /\ 0 \in 0 .. venue
    BY DEF Init, StreamInit, Closed
<1> QED
    BY <1>2, <1>3, <1>4 DEF Init, TypeOK

\* What the stream, the hub and the engine keep has its type, and no candle is
\* known before the venue closed it.
THEOREM TypeCorrect == Spec => []TypeOK
<1>1. Init => TypeOK /\ Closed
    BY TypeInit
<1>2. TypeOK /\ Closed /\ [Next]_vars => (TypeOK /\ Closed)'
    BY TypeStep
<1> QED
    BY <1>1, <1>2, PTL DEF Spec
-----------------------------------------------------------------------------
\* A delayed stream, and one that has asked REST, is not complete; one that is
\* connecting does not say it is connected; and unless REST was late, whatever
\* the venue has closed is in the answer, among the candles or in the socket
\* from the answer on.
Accounted ==
    /\ state = "DELAYED" => ~complete
    /\ reader \in {"ask", "merge"} => ~complete
    /\ reader = "connect" => state \in {"CONNECTING", "RECONNECTING"}
    /\ reader = "merge" /\ ~late => 0 .. venue \subseteq rows \union bars \union unread
    /\ reader = "read" /\ complete /\ ~late => 0 .. venue \subseteq bars \union unread

\* The reader's own steps lose no candle while they call the stream complete.
LEMMA AccountedReader ==
    ASSUME TypeOK, Accounted, ReaderStep
    PROVE  Accounted'
<1> USE DEF Accounted
<1>1. CASE Connects
    BY <1>1 DEF Connects, Transport
<1>2. CASE Unproven
    BY <1>2 DEF Unproven
<1>3. CASE RestAnswers
    <2>1. late' \/ rows' = 0 .. venue
        BY <1>3 DEF RestAnswers
    <2> QED
        BY <1>3, <2>1 DEF RestAnswers
<1>4. CASE MergesRow
    BY <1>4 DEF MergesRow
<1>5. CASE Reconciled
    BY <1>5 DEF Reconciled, Transport
<1>6. CASE Reads
    <2>1. bars \union unread \subseteq bars' \union unread'
        BY <1>6 DEF Reads
    <2>2. UNCHANGED <<venue, rows, late>> /\ reader = "read"
        BY <1>6 DEF Reads
    <2>3. \/ UNCHANGED <<state, complete>> /\ reader' = (IF state = "DELAYED" THEN "ask" ELSE "read")
          \/ complete' = FALSE /\ state' = "DELAYED" /\ reader' = "read"
          \/ UNCHANGED <<state, complete, reader>>
        BY <1>6 DEF Reads, AfterClosed
    <2> QED
        BY <2>1, <2>2, <2>3
<1> QED
    BY <1>1, <1>2, <1>3, <1>4, <1>5, <1>6 DEF ReaderStep

\* Every step keeps the account.
LEMMA AccountedStep ==
    ASSUME TypeOK, Accounted, [Next]_vars
    PROVE  Accounted'
<1>1. CASE ReaderStep
    BY <1>1, AccountedReader
<1>2. CASE VenueCloses
    <2>1. venue \in Nat /\ venue' = venue + 1
        BY <1>2 DEF VenueCloses, TypeOK, StreamTypeOK
    <2>2. 0 .. venue' \subseteq (0 .. venue) \union {venue + 1}
        BY <2>1
    <2>3. reader # "connect" => unread' = unread \union {venue + 1}
        BY <1>2 DEF VenueCloses
    <2>4. UNCHANGED <<bars, state, complete, reader, rows, late>>
        BY <1>2 DEF VenueCloses
    <2> QED
        BY <2>2, <2>3, <2>4 DEF Accounted
<1>3. CASE RestFails
    BY <1>3 DEF RestFails, Accounted
<1>4. CASE Drops
    BY <1>4 DEF Drops, Accounted
<1>5. CASE Delivers
    BY <1>5 DEF Delivers, Delivered, AfterClosed, Accounted
<1>6. CASE UNCHANGED stream
    BY <1>6 DEF stream, Accounted
<1> QED
    BY <1>1, <1>2, <1>3, <1>4, <1>5, <1>6, StepKinds DEF vars

\* A feed that reports itself reliable has every candle the venue has closed, or
\* it is still in the socket, whatever was dropped, missed or repaired before.
THEOREM ReliableIsCompleteTheorem == Spec => []ReliableIsComplete
<1>1. Init => TypeOK /\ Accounted
    BY TypeInit DEF Init, StreamInit, Accounted
<1>2. TypeOK /\ Accounted /\ [Next]_vars => Accounted'
    BY AccountedStep
<1>3. TypeOK /\ Accounted => ReliableIsComplete
    BY DEF TypeOK, StreamTypeOK, Accounted, ReliableIsComplete, Reliable
<1> QED
    BY <1>1, <1>2, <1>3, TypeCorrect, PTL DEF Spec
-----------------------------------------------------------------------------
\* What the stream offers is a candle it has, once: a candle on its way to the
\* hub has not been offered, and only the sink's caller has a candle in hand.
Offers ==
    /\ FanOutKeepsOrder
    /\ holder # "sink" => hand = <<>>
    /\ \A i \in 1 .. Len(offered) : offered[i] \in bars /\ offered[i] # fresh
    /\ fresh # 0 => fresh \in bars

\* What waits for the lab has been offered.
LEMMA PendingOffered ==
    ASSUME HubTypeOK, FanOutKeepsOrder
    PROVE  \A i \in 1 .. Len(pending) : \E j \in 1 .. Len(offered) : pending[i] = offered[j]
<1> DEFINE before == got \o hand
<1>1. before \in Seq(1 .. Closes) /\ pending \in Seq(1 .. Closes) /\ offered = before \o pending
    <2>1. got \in Seq(1 .. Closes) /\ hand \in Seq(1 .. Closes) /\ pending \in Seq(1 .. Closes)
        BY DEF HubTypeOK
    <2> QED
        BY <2>1 DEF FanOutKeepsOrder
<1> HIDE DEF before
<1>2. Len(before) \in Nat /\ Len(pending) \in Nat
    BY <1>1
<1>3. Len(offered) = Len(before) + Len(pending)
    BY <1>1, ConcatProperties
<1>4. ASSUME NEW i \in 1 .. Len(pending)
      PROVE  \E j \in 1 .. Len(offered) : pending[i] = offered[j]
    <2>1. Len(before) + i \in 1 .. Len(offered)
        BY <1>2, <1>3
    <2>2. offered[Len(before) + i] = pending[i]
        BY <1>1, <1>2
    <2> QED
        BY <2>1, <2>2
<1> QED
    BY <1>4

\* The stream's own steps offer nothing; the candle they find is a new one.
LEMMA OffersStream ==
    ASSUME TypeOK, Offers, ReaderStep \/ VenueCloses \/ RestFails \/ Drops, UNCHANGED <<hub, loop>>
    PROVE  Offers'
<1>1. UNCHANGED <<offered, pending, got, hand, holder>>
    BY DEF hub
<1>2. FanOutKeepsOrder' /\ (holder' # "sink" => hand' = <<>>)
    BY <1>1 DEF Offers, FanOutKeepsOrder
<1>3. bars \subseteq bars'
    BY DEF ReaderStep, Connects, Unproven, RestAnswers, RestFails, MergesRow, Reconciled,
       Reads, VenueCloses, Drops
<1>4. fresh' = fresh \/ (fresh' \in bars' /\ fresh' \notin bars)
    <2>1. CASE MergesRow
        <3>1. rows \ bars \in SUBSET Nat /\ rows \ bars # {}
            BY <2>1 DEF MergesRow, TypeOK, StreamTypeOK
        <3>2. Min(rows \ bars) \in rows \ bars
            BY <3>1, MinIsLeast
        <3> QED
            BY <2>1, <3>2 DEF MergesRow
    <2>2. CASE Reads
        BY <2>2 DEF Reads
    <2>3. CASE ~MergesRow /\ ~Reads
        BY <2>3 DEF ReaderStep, Connects, Unproven, RestAnswers, RestFails, Reconciled, VenueCloses, Drops
    <2> QED
        BY <2>1, <2>2, <2>3
<1>5. \A i \in 1 .. Len(offered') : offered'[i] \in bars' /\ offered'[i] # fresh'
    BY <1>1, <1>3, <1>4 DEF Offers
<1>6. fresh' # 0 => fresh' \in bars'
    BY <1>3, <1>4 DEF Offers
<1> QED
    BY <1>2, <1>5, <1>6 DEF Offers

\* on_bar() appends the candle both to what was offered and to what waits.
LEMMA OffersBar ==
    ASSUME TypeOK, Offers, Delivers
    PROVE  Offers'
<1>1. fresh \in 1 .. Closes /\ fresh' = 0 /\ UNCHANGED bars /\ OnBar(fresh)
    BY DEF Delivers, Delivered, TypeOK, StreamTypeOK
<1>2. got \in Seq(1 .. Closes) /\ hand \in Seq(1 .. Closes) /\ pending \in Seq(1 .. Closes)
      /\ offered \in Seq(1 .. Closes)
    BY DEF TypeOK, HubTypeOK
<1>3. fresh \notin ToSet(pending)
    <2>1. \A i \in 1 .. Len(pending) : pending[i] # fresh
        BY PendingOffered DEF Offers, TypeOK
    <2> QED
        BY <1>2, <2>1 DEF ToSet
<1>4. /\ offered' = Append(offered, fresh) /\ pending' = Append(pending, fresh)
      /\ UNCHANGED <<got, hand, holder>>
    BY <1>1, <1>3 DEF OnBar
<1>5. (got \o hand) \o Append(pending, fresh) = Append((got \o hand) \o pending, fresh)
    <2> DEFINE before == got \o hand
    <2>1. before \in Seq(1 .. Closes)
        BY <1>2
    <2> HIDE DEF before
    <2>2. before \o Append(pending, fresh) = Append(before \o pending, fresh)
        BY <1>1, <1>2, <2>1
    <2> QED
        BY <2>2 DEF before
<1>6. FanOutKeepsOrder'
    BY <1>4, <1>5 DEF Offers, FanOutKeepsOrder
<1>7. \A i \in 1 .. Len(offered') : offered'[i] \in bars' /\ offered'[i] # fresh'
    <2> SUFFICES ASSUME NEW i \in 1 .. Len(offered') PROVE offered'[i] \in bars /\ offered'[i] # 0
        BY <1>1
    <2>1. CASE i \in 1 .. Len(offered)
        <3>1. offered'[i] = offered[i] /\ offered[i] \in 1 .. Closes
            BY <1>1, <1>2, <1>4, <2>1
        <3> QED
            BY <2>1, <3>1 DEF Offers
    <2>2. CASE i = Len(offered) + 1
        <3>1. offered'[i] = fresh
            BY <1>1, <1>2, <1>4, <2>2
        <3> QED
            BY <1>1, <3>1 DEF Offers
    <2>3. Len(offered') = Len(offered) + 1 /\ Len(offered) \in Nat
        BY <1>1, <1>2, <1>4
    <2> QED
        BY <2>1, <2>2, <2>3
<1>8. holder' # "sink" => hand' = <<>>
    BY <1>4 DEF Offers
<1> QED
    BY <1>1, <1>6, <1>7, <1>8 DEF Offers

\* A delivery moves the first candle from the queue to the hand, and from there
\* to the lab or back to where it was.
LEMMA OffersHub ==
    ASSUME TypeOK, Offers, HolderStep \/ TriesLock \/ TimerFires, UNCHANGED <<stream, loop>>
    PROVE  Offers'
<1>1. got \in Seq(1 .. Closes) /\ hand \in Seq(1 .. Closes) /\ pending \in Seq(1 .. Closes)
    BY DEF TypeOK, HubTypeOK
<1>2. offered' = offered /\ UNCHANGED <<bars, fresh>>
    BY DEF stream, HolderStep, Takes, SinkAccepts, SinkRefuses, ArmsTimer, Leaves, TriesLock, TimerFires
<1>3. (got \o hand \o pending)' = got \o hand \o pending /\ (holder' # "sink" => hand' = <<>>)
    <2>1. CASE Takes /\ pending # <<>>
        <3>1. hand = <<>> /\ got' = got /\ hand' = <<Head(pending)>> /\ pending' = Tail(pending) /\ holder' = "sink"
            BY <2>1 DEF Takes, Offers
        <3>2. (got \o <<Head(pending)>>) \o Tail(pending) = (got \o <<>>) \o pending
            BY <1>1, <2>1
        <3> QED
            BY <3>1, <3>2
    <2>2. CASE Takes /\ pending = <<>>
        <3>1. UNCHANGED <<got, hand, pending>> /\ hand = <<>>
            BY <2>2 DEF Takes, Offers
        <3> QED
            BY <3>1
    <2>3. CASE SinkAccepts
        <3>1. got' = got \o hand /\ hand' = <<>> /\ pending' = pending
            BY <2>3 DEF SinkAccepts
        <3>2. ((got \o hand) \o <<>>) \o pending = (got \o hand) \o pending
            BY <1>1
        <3> QED
            BY <3>1, <3>2
    <2>4. CASE SinkRefuses
        <3>1. got' = got /\ hand' = <<>> /\ pending' = hand \o pending
            BY <2>4 DEF SinkRefuses
        <3>2. (got \o <<>>) \o (hand \o pending) = (got \o hand) \o pending
            <4>1. got \o <<>> = got
                BY <1>1
            <4>2. got \o (hand \o pending) = (got \o hand) \o pending
                <5> DEFINE S == Seq(1 .. Closes)
                <5>1. \A s, t, u \in S : (s \o t) \o u = s \o (t \o u)
                    BY ConcatAssociative
                <5> QED
                    BY <1>1, <5>1, Zenon
            <4> QED
                BY <4>1, <4>2
        <3> QED
            BY <3>1, <3>2
    <2>5. CASE ArmsTimer \/ Leaves
        <3>1. UNCHANGED <<got, hand, pending>> /\ hand = <<>>
            BY <2>5 DEF ArmsTimer, Leaves, Offers
        <3> QED
            BY <3>1
    <2>6. CASE TriesLock \/ TimerFires
        <3>1. UNCHANGED <<got, hand, pending>> /\ holder' \in {"take", holder}
            BY <2>6 DEF TriesLock, TimerFires
        <3>2. holder' = "take" => hand = <<>>
            BY <2>6 DEF TriesLock, TimerFires, Offers
        <3> QED
            BY <3>1, <3>2 DEF Offers
    <2> QED
        BY <2>1, <2>2, <2>3, <2>4, <2>5, <2>6 DEF HolderStep
<1> QED
    BY <1>2, <1>3 DEF Offers, FanOutKeepsOrder

\* Every step keeps the offers.
LEMMA OffersStep ==
    ASSUME TypeOK, Offers, [Next]_vars
    PROVE  Offers'
<1>1. CASE UNCHANGED <<offered, pending, got, hand, holder, bars, fresh>>
    BY <1>1 DEF Offers, FanOutKeepsOrder
<1> QED
    BY <1>1, StepKinds, OffersStream, OffersBar, OffersHub DEF vars, hub, stream

\* The lab is given each candle once and in the order the stream offered them,
\* through raising sinks, retries and deliveries that race.
THEOREM FanOutTheorem == Spec => []FanOutKeepsOrder
<1>1. Init => Offers
    <2> SUFFICES ASSUME Init PROVE Offers
        OBVIOUS
    <2>1. offered = <<>> /\ pending = <<>> /\ got = <<>> /\ hand = <<>> /\ fresh = 0
        BY DEF Init, HubInit, StreamInit
    <2>2. <<>> \o <<>> \o <<>> = <<>> /\ Len(<<>>) = 0
        OBVIOUS
    <2> QED
        BY <2>1, <2>2 DEF Offers, FanOutKeepsOrder
<1>2. TypeOK /\ Offers /\ [Next]_vars => Offers'
    BY OffersStep
<1>3. Offers => FanOutKeepsOrder
    BY DEF Offers
<1> QED
    BY <1>1, <1>2, <1>3, TypeCorrect, PTL DEF Spec
-----------------------------------------------------------------------------
\* An engine that waits without a notice has read every candle there is, except
\* one whose notice is still on its way.  This is what clearing the event before
\* the fetch, and setting it after the candle is there, is for.
NoLostNotice == engine = "wait" /\ ~ready => Unseen \subseteq {fresh}

\* A queued candle has a delivery on its way: a call that has not tried the lock,
\* the retry timer, or a holder of the lock that looks at the queue again.
NoStrandedCandle ==
    pending # <<>> => calls > 0 \/ timer \/ holder \in {"take", "sink", "refused"}

\* The fetch leaves nothing unread.
LEMMA FetchReadsAll ==
    ASSUME TypeOK, Closed, Fetches
    PROVE  Unseen' = {}
<1>1. cursor \in Nat /\ bars \subseteq Nat /\ Cardinality(Unseen) \in Nat
    <2>1. venue \in Nat /\ cursor \in 0 .. venue /\ bars \subseteq 0 .. venue
        BY DEF TypeOK, StreamTypeOK, Closed
    <2>2. IsFiniteSet(0 .. venue)
        BY <2>1, FS_Interval
    <2>3. Unseen \subseteq 0 .. venue
        BY <2>1 DEF Unseen
    <2>4. Cardinality(Unseen) \in Nat
        BY <2>2, <2>3, FS_Subset, FS_CardinalityType
    <2> QED
        BY <2>1, <2>4
<1>2. Unseen = cursor + 1 .. cursor + Cardinality(Unseen)
    BY DEF Fetches, Continuous
<1>3. cursor' = cursor + Cardinality(Unseen) /\ bars' = bars
    BY DEF Fetches, stream
<1>4. ASSUME NEW c \in bars, c > cursor' PROVE FALSE
    <2>1. c \in Unseen
        BY <1>1, <1>3, <1>4 DEF Unseen
    <2> QED
        BY <1>1, <1>2, <1>3, <1>4, <2>1
<1> QED
    BY <1>3, <1>4 DEF Unseen

\* A candle joins the stream's history together with its delivery, and the notice
\* comes before the delivery is over.
LEMMA NoticeStep ==
    ASSUME TypeOK, Closed, NoLostNotice, [Next]_vars
    PROVE  NoLostNotice'
<1>1. CASE (ReaderStep \/ VenueCloses \/ RestFails \/ Drops) /\ UNCHANGED <<hub, loop>>
    <2>1. \/ bars' = bars /\ fresh' = fresh
          \/ fresh = 0 /\ bars' = bars \union {fresh'}
        BY <1>1 DEF ReaderStep, Connects, Unproven, RestAnswers, RestFails, MergesRow, Reconciled,
           Reads, VenueCloses, Drops
    <2>2. UNCHANGED <<engine, cursor, ready>> /\ cursor \in Nat
        BY <1>1 DEF loop, TypeOK, StreamTypeOK
    <2>3. 0 \notin Unseen
        BY <2>2 DEF Unseen
    <2> QED
        BY <2>1, <2>2, <2>3 DEF NoLostNotice, Unseen
<1>2. CASE Delivers
    BY <1>2 DEF Delivers, NoLostNotice
<1>3. CASE (HolderStep \/ TriesLock \/ TimerFires) /\ UNCHANGED <<stream, loop>>
    BY <1>3 DEF stream, loop, NoLostNotice, Unseen
<1>4. CASE Fetches
    BY <1>4, FetchReadsAll DEF NoLostNotice
<1>5. CASE Wakes \/ Clears \/ Polls
    BY <1>5 DEF Wakes, Clears, Polls, NoLostNotice
<1>6. CASE UNCHANGED vars
    BY <1>6 DEF vars, stream, loop, NoLostNotice, Unseen
<1> QED
    BY <1>1, <1>2, <1>3, <1>4, <1>5, <1>6, StepKinds

\* However the fetch, the wait, the clearing of the event and the deliveries fall,
\* no candle is left to the next poll.
THEOREM NoLostNoticeTheorem == Spec => []NoLostNotice
<1>1. Init => TypeOK /\ Closed /\ NoLostNotice
    BY TypeInit DEF Init, NoLostNotice
<1>2. TypeOK /\ Closed /\ NoLostNotice /\ [Next]_vars => (TypeOK /\ Closed /\ NoLostNotice)'
    BY TypeStep, NoticeStep
<1> QED
    BY <1>1, <1>2, PTL DEF Spec

\* A call that finds the lock taken arms the timer before it returns, and a holder
\* leaves with an empty queue or an armed timer.
LEMMA StrandedStep ==
    ASSUME TypeOK, NoStrandedCandle, [Next]_vars
    PROVE  NoStrandedCandle'
<1>0. calls \in Nat
    BY DEF TypeOK, HubTypeOK
<1>1. CASE Delivers
    <2>1. calls' = calls + 1
        BY <1>1 DEF Delivers, OnBar
    <2> QED
        BY <1>0, <2>1 DEF NoStrandedCandle
<1>2. CASE Takes
    BY <1>2 DEF Takes, NoStrandedCandle
<1>3. CASE SinkAccepts
    BY <1>3 DEF SinkAccepts, NoStrandedCandle
<1>4. CASE SinkRefuses
    BY <1>4 DEF SinkRefuses, NoStrandedCandle
<1>5. CASE ArmsTimer
    BY <1>5 DEF ArmsTimer, NoStrandedCandle
<1>6. CASE Leaves
    BY <1>6 DEF Leaves, NoStrandedCandle
<1>7. CASE TriesLock
    BY <1>7 DEF TriesLock, NoStrandedCandle
<1>8. CASE TimerFires
    BY <1>0, <1>8 DEF TimerFires, NoStrandedCandle
<1>9. CASE UNCHANGED hub
    BY <1>9 DEF hub, NoStrandedCandle
<1> QED
    BY <1>1, <1>2, <1>3, <1>4, <1>5, <1>6, <1>7, <1>8, <1>9, StepKinds DEF HolderStep, vars

\* No candle stays in the lab's queue with nobody to deliver it, whatever calls,
\* timer and raising sinks race.
THEOREM NoStrandedCandleTheorem == Spec => []NoStrandedCandle
<1>1. Init => NoStrandedCandle
    BY DEF Init, HubInit, NoStrandedCandle
<1>2. TypeOK /\ NoStrandedCandle /\ [Next]_vars => NoStrandedCandle'
    BY StrandedStep
<1> QED
    BY <1>1, <1>2, TypeCorrect, PTL DEF Spec
=============================================================================

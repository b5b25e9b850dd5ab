-------------------------- MODULE CandleLoopProofs --------------------------
(***************************************************************************)
(* Proofs about CandleLoop for any number of candles and faults: types, no *)
(* decision without a row, that engine, pipeline, executor and ledger      *)
(* together implement AccountBook, and that only a fault ends the worker.  *)
(***************************************************************************)
EXTENDS CandleLoop, TLAPS

USE LastAssumption, MaxFaultsAssumption

Signals == {"none", "buy", "sell", "flatten"}
Entering == {"claim", "open", "snap", "save", "promote", "refused"}
Ordering == Entering \union {"process", "reject"}

\* What is being processed belongs to the candle after the cursor.
CallOfCandle ==
    /\ pc \notin {"idle", "error"} => cursor < closed
    /\ pc \in Ordering => call = <<candle, signal[candle]>>
    /\ pc \in {"closing", "closed"} =>
          call = <<candle, "close">> \/ call = <<candle, signal[candle]>>
    /\ pc \in Entering => side \in Sides

\* The row an entry signal leaves.
RowOf(c) == \E s \in Statuses \ {"filled"} : <<<<c, signal[c]>>, s>> \in events

\* A candle about to be checkpointed was a hold, was logged by a gate, or has its row.
DoneLeavesRow ==
    pc = "done" /\ signal[candle] \in Sides /\ candle \notin held \union gated => RowOf(candle)

\* A filled intent is there until its fill is recorded.
FilledHasIntent == quote = "filled" => intent # NoIntent

OnePosition == \A p, q \in book : p = q

-----------------------------------------------------------------------------
(* Types. *)

LEMMA CallTypes ==
  ASSUME TypeOK, NEW c \in Candles
  PROVE  /\ <<c, "close">> \in Alerts
         /\ signal[c] # "none" => <<c, signal[c]>> \in Alerts
<1>1. signal[c] \in Signals
  BY DEF TypeOK, Signals
<1>2. QED
  BY <1>1 DEF Alerts, Signals

\* The pipeline's and the executor's steps keep the types they touch.
LEMMA InsertTypes ==
  ASSUME TypeOK, NEW st \in Statuses, NEW next \in Steps, Insert(st, next)
  PROVE  events' \subseteq Alerts \X Statuses /\ pc' \in Steps
<1>1. call \in Alerts /\ events \subseteq Alerts \X Statuses
  BY DEF TypeOK, PipelineTypeOK, LedgerTypeOK
<1>2. "error" \in Steps
  BY DEF Steps
<1>3. QED
  BY <1>1, <1>2 DEF Insert

LEMMA PipelineTypes ==
  ASSUME TypeOK, CallOfCandle, PipelineStep
  PROVE  LedgerTypeOK' /\ ExecutionTypeOK' /\ PipelineTypeOK'
<1> USE DEF ledger, execution, counts
<1>0. /\ call \in Alerts /\ events \subseteq Alerts \X Statuses
      /\ book \subseteq [alert : Alerts, side : Sides] /\ executions \subseteq Alerts
      /\ intent \in Intents \union {NoIntent} /\ saved \in Intents \union {NoIntent}
      /\ snap \in Intents \union {NoIntent} /\ copied \in Intents \union {NoIntent}
  BY DEF TypeOK, PipelineTypeOK, LedgerTypeOK, ExecutionTypeOK
<1>1. ASSUME Process PROVE LedgerTypeOK' /\ ExecutionTypeOK' /\ PipelineTypeOK'
  <2>1. events' \subseteq Alerts \X Statuses /\ pc' \in Steps
    <3>1. CASE UNCHANGED events /\ pc' \in {"closing", "claim"}
      BY <1>0, <3>1 DEF Steps
    <3>2. CASE Insert("rejected", "done")
      BY <3>2, InsertTypes DEF Steps, Statuses
    <3>3. CASE Insert("duplicate", "done")
      BY <3>3, InsertTypes DEF Steps, Statuses
    <3>4. QED
      BY <1>1, <3>1, <3>2, <3>3
      DEF Process, EntryGate, DuplicateGate, AccountGates, SizingGates, Approved, Refuse
  <2>2. QED
    BY <1>1, <2>1 DEF Process, TypeOK, LedgerTypeOK, ExecutionTypeOK, PipelineTypeOK
<1>2. ASSUME Claim \/ Promoted \/ Refused PROVE LedgerTypeOK' /\ ExecutionTypeOK' /\ PipelineTypeOK'
  <2>1. events' \subseteq Alerts \X Statuses
    BY <1>0, <1>2 DEF Claim, Promoted, Promote, Refused, Release, Statuses
  <2>2. QED
    BY <1>2, <2>1 DEF Claim, Promoted, Refused, Steps, TypeOK, LedgerTypeOK, ExecutionTypeOK, PipelineTypeOK
<1>3. ASSUME Open PROVE LedgerTypeOK' /\ ExecutionTypeOK' /\ PipelineTypeOK'
  <2>1. CASE Park(call, side)
    <3>1. intent' \in Intents \union {NoIntent}
      <4>1. CASE intent = NoIntent
        <5>1. side \in Sides
          BY <1>3 DEF Open, CallOfCandle, Entering
        <5>2. QED
          BY <1>0, <2>1, <4>1, <5>1 DEF Park, Intents
      <4>2. QED
        BY <1>0, <2>1, <4>1 DEF Park
    <3>2. QED
      BY <1>3, <2>1, <3>1 DEF Open, Park, Steps, TypeOK, LedgerTypeOK, ExecutionTypeOK, PipelineTypeOK
  <2>2. CASE UNCHANGED <<ledger, execution>>
    BY <1>3, <2>2 DEF Open, Steps, TypeOK, LedgerTypeOK, ExecutionTypeOK, PipelineTypeOK
  <2>3. QED
    BY <1>3, <2>1, <2>2 DEF Open
<1>4. ASSUME Snapshot \/ Save PROVE LedgerTypeOK' /\ ExecutionTypeOK' /\ PipelineTypeOK'
  BY <1>4 DEF Snapshot, Save, Steps, TypeOK, LedgerTypeOK, ExecutionTypeOK, PipelineTypeOK
<1>5. ASSUME SaveRaises PROVE LedgerTypeOK' /\ ExecutionTypeOK' /\ PipelineTypeOK'
  BY <1>5 DEF SaveRaises, Release, Steps, TypeOK, LedgerTypeOK, ExecutionTypeOK, PipelineTypeOK
<1>6. ASSUME Reject \/ Closed PROVE LedgerTypeOK' /\ ExecutionTypeOK' /\ PipelineTypeOK'
  <2>1. events' \subseteq Alerts \X Statuses /\ pc' \in Steps
    BY <1>6, InsertTypes DEF Reject, Closed, Steps, Statuses
  <2>2. QED
    BY <1>6, <2>1 DEF Reject, Closed, TypeOK, LedgerTypeOK, ExecutionTypeOK, PipelineTypeOK
<1>7. ASSUME Close PROVE LedgerTypeOK' /\ ExecutionTypeOK' /\ PipelineTypeOK'
  BY <1>0, <1>7 DEF Close, CommitClose, Steps, TypeOK, LedgerTypeOK, ExecutionTypeOK, PipelineTypeOK
<1>8. QED
  BY <1>1, <1>2, <1>3, <1>4, <1>5, <1>6, <1>7 DEF PipelineStep

LEMMA QuoteTypes ==
  ASSUME TypeOK, FilledHasIntent, QuoteStep \/ QuoteSaveFails
  PROVE  LedgerTypeOK' /\ ExecutionTypeOK'
<1>0. /\ events \subseteq Alerts \X Statuses
      /\ book \subseteq [alert : Alerts, side : Sides] /\ executions \subseteq Alerts
      /\ intent \in Intents \union {NoIntent} /\ saved \in Intents \union {NoIntent}
      /\ copied \in Intents \union {NoIntent}
  BY DEF TypeOK, LedgerTypeOK, ExecutionTypeOK
<1>1. intent # NoIntent => intent.alert \in Alerts /\ intent.side \in Sides
  BY <1>0 DEF Intents
<1>2. CASE QuoteFills
  BY <1>0, <1>1, <1>2 DEF QuoteFills, CommitOpen, TypeOK, LedgerTypeOK, ExecutionTypeOK
<1>3. CASE QuoteRecords
  <2>1. <<intent.alert, "filled">> \in Alerts \X Statuses
    BY <1>1, <1>3 DEF QuoteRecords, FilledHasIntent, Statuses
  <2>2. events' \subseteq Alerts \X Statuses
    BY <1>0, <1>3, <2>1 DEF QuoteRecords
  <2>3. QED
    BY <1>0, <1>3, <2>2 DEF QuoteRecords, LedgerTypeOK, ExecutionTypeOK
<1>4. CASE QuoteRecovers \/ QuoteCopies \/ QuoteSaves \/ QuoteSaveFails
  BY <1>4 DEF QuoteRecovers, QuoteCopies, QuoteSaves, QuoteSaveFails, ledger, TypeOK, LedgerTypeOK, ExecutionTypeOK
<1>5. QED
  BY <1>2, <1>3, <1>4 DEF QuoteStep

LEMMA ReloadTypes ==
  ASSUME TypeOK, Reload
  PROVE  ExecutionTypeOK'
BY DEF Reload, TypeOK, ExecutionTypeOK

LEMMA StepTypes ==
  ASSUME TypeOK, CallOfCandle, FilledHasIntent, [Next]_vars
  PROVE  TypeOK'
<1> USE DEF loop, counts
<1>0. /\ signal \in [Candles -> Signals] /\ closed \in 0 .. Last /\ cursor \in 0 .. closed
      /\ held \subseteq Candles /\ gated \subseteq Candles /\ faults \in 0 .. MaxFaults /\ unsaved \in BOOLEAN
  BY DEF TypeOK, PipelineTypeOK, Signals
<1>1. CASE CandleCloses
  BY <1>0, <1>1 DEF CandleCloses, ledger, execution, TypeOK, LedgerTypeOK, ExecutionTypeOK, PipelineTypeOK
<1>2. CASE TakeCandle \/ Restart \/ PauseOrResume
  BY <1>0, <1>2
  DEF TakeCandle, Restart, Reload, PauseOrResume, ledger, execution, Steps,
      TypeOK, LedgerTypeOK, ExecutionTypeOK, PipelineTypeOK
<1>3. ASSUME CheckExit PROVE TypeOK'
  <2>1. cursor < closed
    BY <1>3 DEF CheckExit, CallOfCandle
  <2>2. candle \in Candles
    BY <1>0, <2>1 DEF candle, Candles
  <2>3. call' \in Alerts
    BY <1>3, <2>2, CallTypes DEF CheckExit, TypeOK, PipelineTypeOK
  <2>4. QED
    BY <1>3, <2>3
    DEF CheckExit, ledger, execution, Steps, TypeOK, LedgerTypeOK, ExecutionTypeOK, PipelineTypeOK
<1>4. ASSUME OnSignal PROVE TypeOK'
  <2>1. cursor < closed
    BY <1>4 DEF OnSignal, CallOfCandle
  <2>2. candle \in Candles
    BY <1>0, <2>1 DEF candle, Candles
  <2>3. call' \in Alerts /\ held' \subseteq Candles
    BY <1>0, <1>4, <2>2, CallTypes DEF OnSignal, TypeOK, PipelineTypeOK
  <2>4. QED
    BY <1>4, <2>3
    DEF OnSignal, ledger, execution, Steps, TypeOK, LedgerTypeOK, ExecutionTypeOK, PipelineTypeOK
<1>41. ASSUME GateRejects PROVE TypeOK'
  <2>1. candle \in Candles
    BY <1>0, <1>41 DEF GateRejects, AtGates, CallOfCandle, candle, Candles
  <2>2. QED
    BY <1>0, <1>41, <2>1
    DEF GateRejects, ledger, execution, Steps, TypeOK, LedgerTypeOK, ExecutionTypeOK, PipelineTypeOK
<1>5. ASSUME Checkpoint PROVE TypeOK'
  <2>1. cursor < closed
    BY <1>5 DEF Checkpoint, CallOfCandle
  <2>2. cursor' \in 0 .. closed
    BY <1>0, <1>5, <2>1 DEF Checkpoint, candle
  <2>3. QED
    BY <1>5, <2>2
    DEF Checkpoint, ledger, execution, Steps, TypeOK, LedgerTypeOK, ExecutionTypeOK, PipelineTypeOK
<1>6. ASSUME PipelineStep /\ UNCHANGED loop PROVE TypeOK'
  BY <1>0, <1>6, PipelineTypes DEF Signals, TypeOK
<1>7. ASSUME CheckpointFails \/ Crash PROVE TypeOK'
  <2>1. faults' \in 0 .. MaxFaults
    BY <1>0, <1>7 DEF CheckpointFails, Crash
  <2>2. QED
    BY <1>7, <2>1
    DEF CheckpointFails, Crash, Reload, ledger, execution, Steps,
        TypeOK, LedgerTypeOK, ExecutionTypeOK, PipelineTypeOK
<1>8. ASSUME Quote \/ QuoteFails PROVE TypeOK'
  <2>1. LedgerTypeOK' /\ ExecutionTypeOK'
    BY <1>8, QuoteTypes DEF Quote, QuoteFails
  <2>2. faults' \in 0 .. MaxFaults
    BY <1>0, <1>8 DEF Quote, QuoteFails
  <2>3. QED
    BY <1>8, <2>1, <2>2 DEF Quote, QuoteFails, TypeOK, PipelineTypeOK
<1>9. CASE UNCHANGED vars
  BY <1>9 DEF vars, TypeOK, LedgerTypeOK, ExecutionTypeOK, PipelineTypeOK
<1>10. QED
  BY <1>1, <1>2, <1>3, <1>4, <1>41, <1>5, <1>6, <1>7, <1>8, <1>9 DEF Next, EngineStep

-----------------------------------------------------------------------------
(* The call in progress. *)

LEMMA StepCall ==
  ASSUME TypeOK, CallOfCandle, [Next]_vars
  PROVE  CallOfCandle'
<1> USE DEF loop, Entering, Ordering
<1>0. /\ signal \in [Candles -> Signals] /\ closed \in 0 .. Last /\ cursor \in 0 .. closed
  BY DEF TypeOK, Signals
<1>1. ASSUME PipelineStep, UNCHANGED loop PROVE CallOfCandle'
  <2>1. UNCHANGED call
    BY <1>1 DEF PipelineStep, Process, Claim, Open, Snapshot, Save, SaveRaises, Promoted,
                Refused, Reject, Close, Closed
  <2>2. pc \notin {"idle", "error"}
    BY <1>1 DEF PipelineStep, Process, Claim, Open, Snapshot, Save, SaveRaises, Promoted,
                Refused, Reject, Close, Closed
  <2>3. pc' \in Ordering => pc \in Ordering
    BY <1>1 DEF PipelineStep, Process, Claim, Open, Snapshot, Save, SaveRaises, Promoted,
                Refused, Reject, Close, Closed, Insert, EntryGate, DuplicateGate, AccountGates,
                SizingGates, Approved, Refuse
  <2>4. pc' \in {"closing", "closed"} => pc \in {"process", "closing"}
    BY <1>1 DEF PipelineStep, Process, Claim, Open, Snapshot, Save, SaveRaises, Promoted,
                Refused, Reject, Close, Closed, Insert, EntryGate, DuplicateGate, AccountGates,
                SizingGates, Approved, Refuse
  <2>5. pc' \in Entering => pc \in Entering \/ ~IsClose
    BY <1>1 DEF PipelineStep, Process, Claim, Open, Snapshot, Save, SaveRaises, Promoted,
                Refused, Reject, Close, Closed, Insert, EntryGate, DuplicateGate, AccountGates,
                SizingGates, Approved, Refuse
  <2>6. ~IsClose => side \in Sides
    <3>1. side \in {"buy", "sell", "flatten", "close"}
      BY DEF side, Alerts, TypeOK, PipelineTypeOK
    <3>2. QED
      BY <3>1 DEF IsClose, Sides
  <2>7. QED
    BY <1>1, <2>1, <2>2, <2>3, <2>4, <2>5, <2>6 DEF CallOfCandle, candle, side
<1>2. ASSUME Next, ~(PipelineStep /\ UNCHANGED loop) PROVE CallOfCandle'
  <2>1. CASE CandleCloses
    BY <1>0, <2>1 DEF CandleCloses, CallOfCandle, candle, side
  <2>2. CASE TakeCandle \/ CheckExit \/ OnSignal \/ GateRejects \/ Checkpoint
    BY <1>0, <2>2 DEF TakeCandle, CheckExit, OnSignal, GateRejects, AtGates, Checkpoint,
         CallOfCandle, candle, side
  <2>3. CASE CheckpointFails \/ Restart \/ Crash
    BY <2>3 DEF CheckpointFails, Restart, Crash, CallOfCandle
  <2>4. CASE PauseOrResume \/ Quote \/ QuoteFails
    BY <2>4 DEF PauseOrResume, Quote, QuoteFails, CallOfCandle, candle, side
  <2>5. QED
    BY <1>2, <2>1, <2>2, <2>3, <2>4 DEF Next, EngineStep
<1>3. CASE UNCHANGED vars
  BY <1>3 DEF vars, CallOfCandle, candle, side
<1>4. QED
  BY <1>1, <1>2, <1>3

LEMMA StepFilled ==
  ASSUME FilledHasIntent, [Next]_vars
  PROVE  FilledHasIntent'
<1>1. CASE PipelineStep
  BY <1>1 DEF PipelineStep, Process, Claim, Open, Park, Snapshot, Save, SaveRaises, Promoted, LockFree,
              Refused, Reject, Close, Closed, FilledHasIntent, execution, ledger
<1>2. CASE Quote \/ QuoteFails
  BY <1>2 DEF Quote, QuoteFails, QuoteStep, QuoteFills, QuoteRecords, QuoteRecovers, QuoteCopies,
              QuoteSaves, QuoteSaveFails, FilledHasIntent
<1>3. CASE Restart \/ Crash
  BY <1>3 DEF Restart, Crash, Reload, FilledHasIntent
<1>4. CASE CandleCloses \/ TakeCandle \/ CheckExit \/ OnSignal \/ GateRejects \/ Checkpoint
           \/ CheckpointFails
           \/ PauseOrResume
  BY <1>4 DEF CandleCloses, TakeCandle, CheckExit, OnSignal, GateRejects, Checkpoint,
       CheckpointFails,
              PauseOrResume, execution, FilledHasIntent
<1>5. CASE UNCHANGED vars
  BY <1>5 DEF vars, FilledHasIntent
<1>6. QED
  BY <1>1, <1>2, <1>3, <1>4, <1>5 DEF Next, EngineStep

-----------------------------------------------------------------------------
(* The account. *)

\* What a step may do to the account.
LEMMA StepAccount ==
  ASSUME [Next]_vars
  PROVE  \/ UNCHANGED <<executions, book>>
         \/ /\ intent # NoIntent
            /\ book = {}
            /\ CommitOpen(intent.alert, intent.side)
         \/ \E p \in book : CommitClose(call, p)
<1>1. CASE PipelineStep
  BY <1>1 DEF PipelineStep, Process, Claim, Open, Park, Snapshot, Save, SaveRaises, Promoted,
              Refused, Reject, Close, Closed, execution, ledger
<1>2. CASE Quote \/ QuoteFails
  BY <1>2 DEF Quote, QuoteFails, QuoteStep, QuoteFills, QuoteRecords, QuoteRecovers, QuoteCopies,
              QuoteSaves, QuoteSaveFails, ledger
<1>3. CASE CandleCloses \/ TakeCandle \/ CheckExit \/ OnSignal \/ GateRejects \/ Checkpoint
           \/ CheckpointFails
           \/ PauseOrResume \/ Restart \/ Crash
  BY <1>3 DEF CandleCloses, TakeCandle, CheckExit, OnSignal, GateRejects, Checkpoint,
       CheckpointFails,
              PauseOrResume, Restart, Crash, ledger
<1>4. CASE UNCHANGED vars
  BY <1>4 DEF vars
<1>5. QED
  BY <1>1, <1>2, <1>3, <1>4 DEF Next, EngineStep

LEMMA StepOnePosition ==
  ASSUME OnePosition, [Next]_vars
  PROVE  OnePosition'
BY StepAccount DEF OnePosition, CommitOpen, CommitClose

-----------------------------------------------------------------------------
(* Rows and the cursor. *)

\* Only the claim of the call in progress ever loses its row.
LEMMA StepRows ==
  ASSUME [Next]_vars
  PROVE  \/ events \subseteq events'
         \/ /\ pc \in {"save", "promote", "refused"}
            /\ events \ {<<call, "claimed">>} \subseteq events'
            /\ UNCHANGED <<call, loop>>
<1>1. CASE PipelineStep /\ UNCHANGED loop
  <2>1. CASE Process \/ Claim \/ Open \/ Snapshot \/ Save \/ Reject \/ Close \/ Closed
    BY <2>1 DEF Process, Claim, Open, Park, Snapshot, Save, Reject, Close, Closed, Insert,
                EntryGate, DuplicateGate, AccountGates, SizingGates, Approved, Refuse, ledger
  <2>2. CASE SaveRaises \/ Promoted \/ Refused
    BY <1>1, <2>2 DEF SaveRaises, Promoted, Refused, Release, Promote
  <2>3. QED
    BY <1>1, <2>1, <2>2 DEF PipelineStep
<1>2. CASE Quote \/ QuoteFails
  BY <1>2 DEF Quote, QuoteFails, QuoteStep, QuoteFills, QuoteRecords, QuoteRecovers, QuoteCopies,
              QuoteSaves, QuoteSaveFails, ledger
<1>3. CASE CandleCloses \/ TakeCandle \/ CheckExit \/ OnSignal \/ GateRejects \/ Checkpoint
           \/ CheckpointFails
           \/ PauseOrResume \/ Restart \/ Crash
  BY <1>3 DEF CandleCloses, TakeCandle, CheckExit, OnSignal, GateRejects, Checkpoint,
       CheckpointFails,
              PauseOrResume, Restart, Crash, ledger
<1>4. CASE UNCHANGED vars
  BY <1>4 DEF vars
<1>5. QED
  BY <1>1, <1>2, <1>3, <1>4 DEF Next, EngineStep

\* The signals never change, and candles are held, logged and passed for good.
LEMMA StepLoop ==
  ASSUME [Next]_vars
  PROVE  /\ signal' = signal
         /\ held \subseteq held' /\ gated \subseteq gated'
         /\ \/ cursor' = cursor
            \/ cursor' = candle /\ pc = "done" /\ UNCHANGED <<events, held, gated>>
<1>1. CASE PipelineStep /\ UNCHANGED loop
  BY <1>1 DEF loop
<1>2. CASE Quote \/ QuoteFails \/ Restart \/ Crash \/ PauseOrResume \/ CheckpointFails
  BY <1>2 DEF Quote, QuoteFails, Restart, Crash, PauseOrResume, CheckpointFails, loop
<1>3. CASE CandleCloses \/ TakeCandle \/ CheckExit \/ OnSignal \/ GateRejects \/ Checkpoint
  BY <1>3 DEF CandleCloses, TakeCandle, CheckExit, OnSignal, GateRejects, Checkpoint, loop, ledger
<1>4. CASE UNCHANGED vars
  BY <1>4 DEF vars
<1>5. QED
  BY <1>1, <1>2, <1>3, <1>4 DEF Next, EngineStep

\* A row of a candle the cursor has passed stays.
LEMMA StepKeepsRows ==
  ASSUME TypeOK, CallOfCandle, [Next]_vars, NEW c \in 1 .. cursor, RowOf(c)
  PROVE  RowOf(c)'
<1>0. cursor \in Nat
  BY DEF TypeOK
<1>1. signal' = signal
  BY StepLoop
<1>2. PICK s \in Statuses \ {"filled"} : <<<<c, signal[c]>>, s>> \in events
  BY DEF RowOf
<1>3. CASE events \subseteq events'
  BY <1>1, <1>2, <1>3 DEF RowOf
<1>4. CASE /\ pc \in {"save", "promote", "refused"}
           /\ events \ {<<call, "claimed">>} \subseteq events'
  <2>1. call = <<candle, signal[candle]>>
    BY <1>4 DEF CallOfCandle, Ordering, Entering
  <2>2. c # candle
    BY <1>0 DEF candle
  <2>3. <<<<c, signal[c]>>, s>> # <<call, "claimed">>
    BY <2>1, <2>2
  <2>4. QED
    BY <1>1, <1>2, <1>4, <2>3 DEF RowOf
<1>5. QED
  BY <1>3, <1>4, StepRows

\* A step that ends a candle leaves its row.
LEMMA StepDone ==
  ASSUME TypeOK, CallOfCandle, DoneLeavesRow, [Next]_vars
  PROVE  DoneLeavesRow'
<1>0. signal \in [Candles -> Signals] /\ cursor \in 0 .. Last
  BY DEF TypeOK, Signals
<1>1. ASSUME PipelineStep, UNCHANGED loop, pc' = "done", signal[candle] \in Sides
      PROVE  RowOf(candle)'
  <2>1. call = <<candle, signal[candle]>> =>
          \A s \in Statuses \ {"filled"} : <<call, s>> \in events' => RowOf(candle)'
    BY <1>1 DEF RowOf, loop, candle
  <2>2. CASE Process
    <3>1. \E s \in {"rejected", "duplicate"} : <<call, s>> \in events'
      BY <1>1, <2>2 DEF Process, Insert, EntryGate, DuplicateGate, AccountGates, SizingGates,
                        Approved, Refuse
    <3>2. QED
      BY <2>1, <2>2, <3>1 DEF Process, CallOfCandle, Ordering, Statuses
  <2>3. CASE Claim
    <3>1. <<call, "claimed">> \in events'
      BY <1>1, <2>3 DEF Claim
    <3>2. QED
      BY <2>1, <2>3, <3>1 DEF Claim, CallOfCandle, Ordering, Entering, Statuses
  <2>4. CASE Promoted
    <3>1. <<call, "pending">> \in events'
      BY <2>4 DEF Promoted, Promote
    <3>2. QED
      BY <2>1, <2>4, <3>1 DEF Promoted, CallOfCandle, Ordering, Entering, Statuses
  <2>5. CASE Reject
    <3>1. <<call, "rejected">> \in events'
      BY <1>1, <2>5 DEF Reject, Insert
    <3>2. QED
      BY <2>1, <2>5, <3>1 DEF Reject, CallOfCandle, Ordering, Statuses
  <2>6. CASE Closed
    <3>1. <<call, "accepted">> \in events' /\ side # "close"
      BY <1>1, <2>6 DEF Closed, Insert
    <3>2. call = <<candle, signal[candle]>>
      BY <2>6, <3>1 DEF Closed, CallOfCandle, side
    <3>3. QED
      BY <2>1, <3>1, <3>2 DEF Statuses
  <2>7. CASE Open \/ Snapshot \/ Save \/ SaveRaises \/ Refused \/ Close
    BY <1>1, <2>7 DEF Open, Snapshot, Save, SaveRaises, Refused, Close
  <2>8. QED
    BY <1>1, <2>2, <2>3, <2>4, <2>5, <2>6, <2>7 DEF PipelineStep
<1>2. CASE PipelineStep /\ UNCHANGED loop
  BY <1>1, <1>2 DEF DoneLeavesRow, loop, candle
<1>3. CASE OnSignal \/ GateRejects
  BY <1>0, <1>3 DEF OnSignal, GateRejects, DoneLeavesRow, candle
<1>4. CASE TakeCandle \/ CheckExit \/ Checkpoint \/ CheckpointFails \/ Restart \/ Crash
  BY <1>4 DEF TakeCandle, CheckExit, Checkpoint, CheckpointFails, Restart, Crash, DoneLeavesRow
<1>5. CASE CandleCloses \/ PauseOrResume
  BY <1>5 DEF CandleCloses, PauseOrResume, ledger, loop, DoneLeavesRow, RowOf, candle
<1>6. CASE Quote \/ QuoteFails
  <2>1. events \subseteq events' /\ UNCHANGED <<pc, loop>>
    BY <1>6 DEF Quote, QuoteFails, QuoteStep, QuoteFills, QuoteRecords, QuoteRecovers, QuoteCopies,
                QuoteSaves, QuoteSaveFails, ledger
  <2>2. QED
    BY <2>1 DEF loop, DoneLeavesRow, RowOf, candle
<1>7. CASE UNCHANGED vars
  BY <1>7 DEF vars, DoneLeavesRow, RowOf, candle
<1>8. QED
  BY <1>2, <1>3, <1>4, <1>5, <1>6, <1>7 DEF Next, EngineStep

LEMMA StepDecisions ==
  ASSUME TypeOK, CallOfCandle, DoneLeavesRow, DecisionsLeaveRows, [Next]_vars
  PROVE  DecisionsLeaveRows'
<1>0. cursor \in Nat /\ cursor' \in Nat
  <2>1. cursor \in Nat
    BY DEF TypeOK
  <2>2. QED
    BY <2>1, StepLoop DEF candle
<1>1. SUFFICES ASSUME NEW c \in 1 .. cursor', signal[c] \in Sides, c \notin held' \union gated'
               PROVE  RowOf(c)'
  BY StepLoop DEF DecisionsLeaveRows, RowOf
<1>2. CASE c \in 1 .. cursor
  <2>1. RowOf(c)
    BY <1>1, <1>2, StepLoop DEF DecisionsLeaveRows, RowOf
  <2>2. QED
    BY <1>2, <2>1, StepKeepsRows
<1>3. CASE c \notin 1 .. cursor
  <2>1. c = candle /\ pc = "done" /\ UNCHANGED <<events, held, gated>>
    BY <1>0, <1>1, <1>3, StepLoop DEF candle
  <2>2. RowOf(candle)
    BY <1>1, <2>1 DEF DoneLeavesRow
  <2>3. QED
    BY <2>1, <2>2, StepLoop DEF RowOf
<1>4. QED
  BY <1>2, <1>3

-----------------------------------------------------------------------------
(* Claims and parked intents. *)

Claiming == {"open", "snap", "save", "promote", "refused"}

\* Wherever an intent is kept.
Kept == {intent, saved, snap, copied} \ {NoIntent}

\* A kept intent has a row that bars its candle; the claim of the call in progress
\* stands, and until it is parked it is the claim of no kept intent, because a
\* call is claimed only when its alert is neither claimed nor pending.
KeptIsClaimed ==
    /\ pc = "claim" => <<call, "pending">> \notin events
    /\ ~unsaved =>
          /\ pc \in Claiming => <<call, "claimed">> \in events
          /\ pc \in {"open", "refused"} => \A i \in Kept : i.alert # call
          /\ \A i \in Kept : \E s \in {"claimed", "pending"} : <<i.alert, s>> \in events

\* The steps of the engine that change neither an intent nor a claim.
LEMMA QuietClaims ==
  ASSUME KeptIsClaimed, events \subseteq events', UNCHANGED unsaved, Kept' \subseteq Kept,
         pc' = "claim" => <<call', "pending">> \notin events',
         pc' \in Claiming => call' = call /\ pc \in Claiming,
         pc' \in {"open", "refused"} => pc \in {"open", "refused"}
  PROVE  KeptIsClaimed'
BY DEF KeptIsClaimed, Claiming

LEMMA StepKept ==
  ASSUME KeptIsClaimed, [Next]_vars
  PROVE  KeptIsClaimed'
<1> USE DEF counts, loop, ledger, execution
<1>1. CASE PipelineStep /\ UNCHANGED loop
  <2>1. CASE Process
    <3>1. pc' = "claim" => <<call', "pending">> \notin events'
      BY <2>1 DEF Process, Approved, Seen, Insert, EntryGate, DuplicateGate, AccountGates,
                  SizingGates, Refuse
    <3>2. events \subseteq events' /\ pc' \notin Claiming /\ Kept' = Kept /\ UNCHANGED unsaved
      BY <2>1 DEF Process, Approved, Insert, EntryGate, DuplicateGate, AccountGates,
                  SizingGates, Refuse, Claiming, Kept
    <3>3. QED
      BY <3>1, <3>2, QuietClaims DEF Claiming
  <2>2. CASE Claim
    <3>1. CASE <<call, "claimed">> \in events
      <4>1. events' = events /\ pc' = "done" /\ Kept' = Kept /\ UNCHANGED unsaved
        BY <2>2, <3>1 DEF Claim, Kept
      <4>2. QED
        BY <4>1, QuietClaims DEF Claiming
    <3>2. CASE <<call, "claimed">> \notin events
      <4>1. /\ events' = events \union {<<call, "claimed">>} /\ pc' = "open" /\ call' = call
            /\ Kept' = Kept /\ unsaved' = unsaved
        BY <2>2, <3>2 DEF Claim, Kept
      <4>2. <<call, "pending">> \notin events
        BY <2>2 DEF Claim, KeptIsClaimed
      <4>3. ~unsaved => \A i \in Kept : i.alert # call
        BY <3>2, <4>2 DEF KeptIsClaimed
      <4>4. QED
        BY <4>1, <4>3 DEF KeptIsClaimed, Claiming
    <3>3. QED
      BY <3>1, <3>2
  <2>3. CASE Open
    <3>1. CASE pc' \in {"snap", "promote"} /\ Park(call, side)
      <4>1. /\ UNCHANGED <<events, call, unsaved>>
            /\ <<call, "claimed">> \in events \/ unsaved
        BY <2>3, <3>1 DEF Open, Park, KeptIsClaimed, Claiming
      <4>2. \A i \in Kept' : i \in Kept \/ i.alert = call
        BY <2>3, <3>1 DEF Open, Park, Kept
      <4>3. QED
        BY <3>1, <4>1, <4>2 DEF KeptIsClaimed, Claiming
    <3>2. CASE pc' = "refused" /\ UNCHANGED <<ledger, execution>>
      <4>1. Kept' = Kept /\ pc = "open" /\ UNCHANGED <<events, call, unsaved>>
        BY <2>3, <3>2 DEF Open, Kept
      <4>2. QED
        BY <3>2, <4>1 DEF KeptIsClaimed, Claiming
    <3>3. QED
      BY <2>3, <3>1, <3>2 DEF Open
  <2>4. CASE Snapshot \/ Save
    <3>1. Kept' \subseteq Kept
      BY <2>4 DEF Snapshot, Save, Kept
    <3>2. /\ UNCHANGED <<events, call, unsaved>> /\ pc' \in {"save", "promote"} /\ pc \in Claiming
      BY <2>4 DEF Snapshot, Save, Claiming
    <3>3. QED
      BY <3>1, <3>2, QuietClaims DEF Claiming
  <2>5. CASE SaveRaises
    BY <2>5 DEF SaveRaises, KeptIsClaimed
  <2>6. CASE Promoted
    <3>1. /\ events' = (events \ {<<call, "claimed">>}) \union {<<call, "pending">>}
          /\ pc' = "done" /\ Kept' = Kept /\ unsaved' = unsaved
      BY <2>6 DEF Promoted, Promote, Kept
    <3>2. \A a : (\E s \in {"claimed", "pending"} : <<a, s>> \in events)
                 => \E s \in {"claimed", "pending"} : <<a, s>> \in events'
      BY <3>1
    <3>3. QED
      BY <3>1, <3>2 DEF KeptIsClaimed, Claiming
  <2>7. CASE Refused
    <3>1. /\ events' = events \ {<<call, "claimed">>} /\ pc = "refused"
          /\ pc' = "reject" /\ Kept' = Kept /\ unsaved' = unsaved
      BY <2>7 DEF Refused, Release, Kept
    <3>2. QED
      BY <3>1 DEF KeptIsClaimed, Claiming
  <2>8. CASE Reject \/ Close \/ Closed
    <3>1. /\ events \subseteq events' /\ pc' \notin Claiming \union {"claim"} /\ Kept' = Kept
          /\ UNCHANGED unsaved
      BY <2>8 DEF Reject, Close, Closed, Insert, Claiming, Kept
    <3>2. QED
      BY <3>1, QuietClaims DEF Claiming
  <2>9. QED
    BY <1>1, <2>1, <2>2, <2>3, <2>4, <2>5, <2>6, <2>7, <2>8 DEF PipelineStep
<1>2. CASE Quote \/ QuoteFails
  <2>1. Kept' \subseteq Kept
    BY <1>2 DEF Quote, QuoteFails, QuoteStep, QuoteFills, QuoteRecords, QuoteRecovers, QuoteCopies,
                QuoteSaves, QuoteSaveFails, Kept
  <2>2. /\ events \subseteq events' /\ UNCHANGED <<pc, call, unsaved>>
        /\ <<call, "pending">> \in events' => <<call, "pending">> \in events
    BY <1>2 DEF Quote, QuoteFails, QuoteStep, QuoteFills, QuoteRecords, QuoteRecovers, QuoteCopies,
                QuoteSaves, QuoteSaveFails
  <2>3. QED
    BY <2>1, <2>2, QuietClaims DEF KeptIsClaimed
<1>3. CASE Restart \/ Crash \/ TakeCandle \/ CheckExit \/ OnSignal \/ GateRejects
           \/ Checkpoint \/ CheckpointFails
  <2>1. Kept' \subseteq Kept
    BY <1>3 DEF Restart, Crash, Reload, TakeCandle, CheckExit, OnSignal, GateRejects, Checkpoint,
                CheckpointFails, Kept
  <2>2. UNCHANGED <<events, unsaved>> /\ pc' \notin Claiming \union {"claim"}
    BY <1>3 DEF Restart, Crash, TakeCandle, CheckExit, OnSignal, GateRejects, Checkpoint,
         CheckpointFails, Claiming
  <2>3. QED
    BY <2>1, <2>2, QuietClaims DEF Claiming
<1>4. CASE CandleCloses \/ PauseOrResume \/ UNCHANGED vars
  BY <1>4 DEF CandleCloses, PauseOrResume, vars, KeptIsClaimed, Kept
<1>5. QED
  BY <1>1, <1>2, <1>3, <1>4 DEF Next, EngineStep

\* Without a fault only the call in progress holds a claim.
LEMMA StepTransient ==
  ASSUME TypeOK, ClaimsAreTransient, [Next]_vars
  PROVE  ClaimsAreTransient'
<1> USE DEF counts, loop, ledger, execution
<1>0. faults \in Nat
  BY DEF TypeOK, PipelineTypeOK
<1>1. CASE PipelineStep /\ UNCHANGED loop
  <2>1. CASE Process \/ Reject \/ Closed
    <3>1. /\ \A a : <<a, "claimed">> \in events' => <<a, "claimed">> \in events
          /\ UNCHANGED faults
      BY <2>1 DEF Process, Reject, Closed, Insert, EntryGate, DuplicateGate, AccountGates,
                  SizingGates, Approved, Refuse
    <3>2. pc \notin Claiming
      BY <2>1 DEF Process, Reject, Closed, Claiming
    <3>3. QED
      BY <3>1, <3>2 DEF ClaimsAreTransient, Claiming
  <2>2. CASE Claim \/ Open \/ Snapshot \/ Save \/ Close
    BY <2>2 DEF Claim, Open, Park, Snapshot, Save, Close, ClaimsAreTransient
  <2>3. CASE Promoted \/ Refused
    BY <2>3 DEF Promoted, Promote, Refused, Release, ClaimsAreTransient
  <2>4. CASE SaveRaises
    BY <1>0, <2>4 DEF SaveRaises, ClaimsAreTransient
  <2>5. QED
    BY <1>1, <2>1, <2>2, <2>3, <2>4 DEF PipelineStep
<1>2. CASE Quote
  BY <1>2 DEF Quote, QuoteStep, QuoteFills, QuoteRecords, QuoteRecovers, QuoteCopies,
              QuoteSaves, ClaimsAreTransient
<1>3. CASE QuoteFails \/ Crash \/ CheckpointFails
  BY <1>0, <1>3 DEF QuoteFails, Crash, CheckpointFails, ClaimsAreTransient
<1>4. CASE TakeCandle \/ CheckExit \/ OnSignal \/ GateRejects \/ Checkpoint \/ Restart
  BY <1>4 DEF TakeCandle, CheckExit, OnSignal, GateRejects, AtGates, Checkpoint, Restart,
       ClaimsAreTransient
<1>5. CASE CandleCloses \/ PauseOrResume \/ UNCHANGED vars
  BY <1>5 DEF CandleCloses, PauseOrResume, vars, ClaimsAreTransient
<1>6. QED
  BY <1>1, <1>2, <1>3, <1>4, <1>5 DEF Next, EngineStep

-----------------------------------------------------------------------------
(* A run without faults. *)

\* The worker ends in an error only when a write failed or the process died.
OnlyFaultsEndWorker == faults = 0 => pc # "error"

\* An alert that has a row, an execution or an intent.
Touched(a) ==
    \/ a \in executions
    \/ \E s \in Statuses : <<a, s>> \in events
    \/ \E i \in Kept : i.alert = a

\* The alerts of its candle the worker may have touched so far.
TouchedNow ==
    LET exit == <<candle, "close">>
    IN  IF pc \in {"idle", "exit"} THEN {}
        ELSE IF pc \in {"signal", "process", "claim"} THEN {exit}
        ELSE IF pc = "closing" THEN {exit} \ {call}
        ELSE IF pc = "closed" THEN {exit, call}
        ELSE {exit, <<candle, signal[candle]>>}

\* Each candle is worked once: nothing of a later one exists, and of the current
\* one only what its call has written, so that no row is ever written twice.
WorkedOnce ==
    /\ pc # "error"
    /\ \A a \in Alerts : Touched(a) => a[1] <= cursor \/ a \in TouchedNow
    /\ pc \in {"open", "refused", "reject"} => <<call, "rejected">> \notin events
    /\ pc = "closed" => <<call, "accepted">> \notin events

NothingRepeats == faults = 0 => WorkedOnce

\* What a step touches was touched before, or is the call in progress.
LEMMA StepTouches ==
  ASSUME TypeOK, FilledHasIntent, [Next]_vars, NEW a \in Alerts, Touched(a)'
  PROVE  \/ Touched(a)
         \/ a = call /\ PipelineStep /\ UNCHANGED loop
<1> USE DEF Touched
<1>1. CASE PipelineStep /\ UNCHANGED loop
  <2>1. CASE Process \/ Reject \/ Closed
    <3>1. /\ Kept' = Kept /\ executions' = executions
          /\ \A s : <<a, s>> \in events' => <<a, s>> \in events \/ a = call
      BY <2>1 DEF Process, Reject, Closed, Insert, EntryGate, DuplicateGate, AccountGates,
                  SizingGates, Approved, Refuse, execution, Kept
    <3>2. QED
      BY <1>1, <3>1
  <2>2. CASE Claim \/ Promoted \/ Refused
    <3>1. /\ Kept' = Kept /\ executions' = executions
          /\ \A s : <<a, s>> \in events' => <<a, s>> \in events \/ a = call
      BY <2>2 DEF Claim, Promoted, Promote, Refused, Release, execution, Kept
    <3>2. QED
      BY <1>1, <3>1
  <2>3. CASE Open
    <3>1. UNCHANGED <<events, executions>> /\ \A i \in Kept' : i \in Kept \/ i.alert = call
      BY <2>3 DEF Open, Park, Kept, ledger, execution
    <3>2. QED
      BY <1>1, <3>1
  <2>4. CASE Snapshot \/ Save \/ SaveRaises
    <3>1. executions' = executions /\ events' \subseteq events /\ Kept' \subseteq Kept
      BY <2>4 DEF Snapshot, Save, SaveRaises, Release, Kept, ledger, execution
    <3>2. QED
      BY <3>1
  <2>5. CASE Close
    <3>1. /\ Kept' = Kept /\ events' = events
          /\ executions' \subseteq executions \union {call}
      BY <2>5 DEF Close, CommitClose, Kept, execution
    <3>2. QED
      BY <1>1, <3>1
  <2>6. QED
    BY <1>1, <2>1, <2>2, <2>3, <2>4, <2>5 DEF PipelineStep
<1>2. CASE Quote \/ QuoteFails
  <2>1. CASE QuoteFills
    <3>1. intent \in Kept
      BY <2>1 DEF QuoteFills, Kept
    <3>2. Kept' \subseteq Kept /\ events' = events /\ executions' = executions \union {intent.alert}
      BY <1>2, <2>1 DEF QuoteFills, CommitOpen, Kept, Quote, QuoteFails, QuoteSaveFails
    <3>3. QED
      BY <3>1, <3>2
  <2>2. CASE QuoteRecords
    <3>1. intent \in Kept
      BY <2>2 DEF QuoteRecords, FilledHasIntent, Kept
    <3>2. Kept' \subseteq Kept /\ executions' = executions
          /\ events' = events \union {<<intent.alert, "filled">>}
      BY <1>2, <2>2 DEF QuoteRecords, Kept, Quote, QuoteFails, QuoteSaveFails
    <3>3. QED
      BY <3>1, <3>2
  <2>3. CASE QuoteRecovers \/ QuoteCopies \/ QuoteSaves \/ QuoteSaveFails
    <3>1. Kept' \subseteq Kept /\ executions' = executions /\ events' = events
      BY <1>2, <2>3 DEF QuoteRecovers, QuoteCopies, QuoteSaves, QuoteSaveFails, Kept, ledger,
                        Quote, QuoteFails
    <3>2. QED
      BY <3>1
  <2>4. QED
    BY <1>2, <2>1, <2>2, <2>3 DEF Quote, QuoteFails, QuoteStep
<1>3. CASE Restart \/ Crash
  <2>1. Kept' \subseteq Kept /\ executions' = executions /\ events' = events
    BY <1>3 DEF Restart, Crash, Reload, Kept, ledger
  <2>2. QED
    BY <2>1
<1>4. CASE CandleCloses \/ TakeCandle \/ CheckExit \/ OnSignal \/ GateRejects \/ Checkpoint
           \/ CheckpointFails
           \/ PauseOrResume
  BY <1>4 DEF CandleCloses, TakeCandle, CheckExit, OnSignal, GateRejects, Checkpoint,
       CheckpointFails,
              PauseOrResume, execution, ledger, Kept
<1>5. CASE UNCHANGED vars
  BY <1>5 DEF vars, Kept
<1>6. QED
  BY <1>1, <1>2, <1>3, <1>4, <1>5 DEF Next, EngineStep

\* Faults only add up.
LEMMA StepFaults ==
  ASSUME TypeOK, [Next]_vars, faults' = 0
  PROVE  faults = 0 /\ ~SaveRaises /\ ~CheckpointFails /\ ~Crash /\ ~QuoteFails
<1>0. faults \in Nat
  BY DEF TypeOK, PipelineTypeOK
<1>1. CASE SaveRaises \/ CheckpointFails \/ Crash \/ QuoteFails
  BY <1>0, <1>1 DEF SaveRaises, CheckpointFails, Crash, QuoteFails
<1>2. CASE ~SaveRaises /\ PipelineStep
  BY <1>0, <1>2 DEF PipelineStep, Process, Claim, Open, Snapshot, Save, Promoted, Refused, Reject,
     Close, Closed, SaveRaises, CheckpointFails, Crash, QuoteFails, counts
<1>3. CASE CandleCloses \/ TakeCandle \/ CheckExit \/ OnSignal \/ GateRejects \/ Checkpoint
           \/ PauseOrResume \/ Restart \/ Quote
  BY <1>0, <1>3 DEF CandleCloses, TakeCandle, CheckExit, OnSignal, GateRejects, Checkpoint,
       PauseOrResume, Restart, Quote,
     SaveRaises, CheckpointFails, Crash, QuoteFails, counts
<1>4. CASE UNCHANGED vars
  BY <1>0, <1>4 DEF vars, SaveRaises, CheckpointFails, Crash, QuoteFails
<1>5. QED
  BY <1>1, <1>2, <1>3, <1>4 DEF Next, EngineStep

\* An alert that is neither touched nor allowed to be has no row and no execution.
LEMMA UntouchedCall ==
  ASSUME TypeOK, CallOfCandle, WorkedOnce, pc \in {"process", "claim", "closing"}
  PROVE  ~Touched(call)
<1>1. cursor \in Nat /\ candle \in Candles /\ call \in Alerts
  BY DEF TypeOK, PipelineTypeOK, CallOfCandle, candle, Candles
<1>2. call[1] = candle /\ ~(candle <= cursor)
  BY <1>1 DEF CallOfCandle, candle, Ordering, Entering
<1>3. signal[candle] # "close"
  BY <1>1 DEF TypeOK
<1>4. call \notin TouchedNow
  <2>1. CASE pc = "closing"
    BY <2>1 DEF TouchedNow
  <2>2. CASE pc \in {"process", "claim"}
    BY <1>3, <2>2 DEF TouchedNow, CallOfCandle, Ordering, Entering
  <2>3. QED
    BY <2>1, <2>2
<1>5. QED
  BY <1>1, <1>2, <1>4 DEF WorkedOnce

\* The pipeline touches the call's alert once per status, so no insert finds its
\* row and no close its execution.
LEMMA PipelineWorksOnce ==
  ASSUME TypeOK, CallOfCandle, FilledHasIntent, WorkedOnce, PipelineStep, UNCHANGED loop, ~SaveRaises
  PROVE  WorkedOnce'
<1> USE DEF loop
<1>0. UNCHANGED <<call, candle>> /\ cursor' = cursor /\ signal' = signal
  BY DEF PipelineStep, Process, Claim, Open, Snapshot, Save, SaveRaises, Promoted,
         Refused, Reject, Close, Closed, candle
<1>1. pc \in {"process", "claim", "closing"} =>
        \A s \in Statuses : <<call, s>> \notin events /\ call \notin executions
  BY UntouchedCall DEF Touched
<1>2. \/ pc = "process" /\ pc' \in {"claim", "closing"} /\ events' = events /\ executions' = executions /\ Kept' = Kept
      \/ pc = "process" /\ pc' = "done"
      \/ pc = "claim" /\ pc' = "open" /\ events' = events \union {<<call, "claimed">>}
      \/ pc = "open" /\ pc' \in {"snap", "promote", "refused"} /\ events' = events
      \/ pc \in {"snap", "save", "promote"} /\ pc' \in {"save", "promote", "done"}
      \/ pc = "refused" /\ pc' = "reject" /\ events' \subseteq events
      \/ pc = "reject" /\ pc' = "done"
      \/ pc = "closing" /\ pc' = "closed" /\ events' = events
      \/ pc = "closed" /\ pc' = (IF side = "close" THEN "signal" ELSE "done")
  <2>1. CASE Process
    <3>1. <<call, "rejected">> \notin events /\ <<call, "duplicate">> \notin events
      BY <1>1, <2>1 DEF Process, Statuses
    <3>2. QED
      BY <2>1, <3>1 DEF Process, Insert, EntryGate, DuplicateGate, AccountGates, SizingGates,
                        Approved, Refuse, execution, Kept
  <2>2. CASE Claim
    BY <1>1, <2>2 DEF Claim, Statuses
  <2>3. CASE Open
    BY <2>3 DEF Open, Park, ledger
  <2>4. CASE Snapshot \/ Save \/ Promoted
    BY <2>4 DEF Snapshot, Save, Promoted
  <2>5. CASE Refused
    BY <2>5 DEF Refused, Release
  <2>6. CASE Reject
    BY <2>6 DEF Reject, Insert, WorkedOnce
  <2>7. CASE Close
    BY <1>1, <2>7 DEF Close, Unused, Statuses
  <2>8. CASE Closed
    BY <2>8 DEF Closed, Insert, WorkedOnce
  <2>9. QED
    BY <2>1, <2>2, <2>3, <2>4, <2>5, <2>6, <2>7, <2>8 DEF PipelineStep
<1>3. pc' # "error"
  BY <1>2
<1>4. ASSUME NEW a \in Alerts, Touched(a)'
      PROVE  a[1] <= cursor' \/ a \in TouchedNow'
  <2>1. CASE pc' \in {"claim", "closing"}
    <3>1. pc = "process" /\ Touched(a)
      BY <1>2, <1>4, <2>1 DEF Touched
    <3>2. signal[candle] # "close" /\ call = <<candle, signal[candle]>>
      BY <3>1 DEF TypeOK, CallOfCandle, Ordering, candle, Candles
    <3>3. TouchedNow \subseteq TouchedNow'
      BY <1>0, <2>1, <3>1, <3>2 DEF TouchedNow
    <3>4. QED
      BY <1>0, <3>1, <3>3 DEF WorkedOnce
  <2>2. CASE pc' \notin {"claim", "closing"}
    <3>1. pc \in Ordering => call = <<candle, signal[candle]>>
      BY DEF CallOfCandle
    <3>2. pc \in {"closing", "closed"} => call = <<candle, "close">> \/ call = <<candle, signal[candle]>>
      BY DEF CallOfCandle
    <3>3. side = call[2]
      BY DEF side
    <3>4. signal[candle] # "close"
      BY <1>2 DEF TypeOK, CallOfCandle, candle, Candles
    <3>5. TouchedNow \subseteq TouchedNow' /\ call \in TouchedNow'
      BY <1>0, <1>2, <2>2, <3>1, <3>2, <3>3, <3>4 DEF TouchedNow, Ordering, Entering
    <3>6. Touched(a) \/ a = call
      BY <1>4, StepTouches DEF Next, EngineStep
    <3>7. QED
      BY <1>0, <3>5, <3>6 DEF WorkedOnce
  <2>3. QED
    BY <2>1, <2>2
<1>5. pc' \in {"open", "refused", "reject"} => <<call', "rejected">> \notin events'
  <2>1. pc = "claim" => <<call, "rejected">> \notin events
    BY <1>1 DEF Statuses
  <2>2. QED
    BY <1>0, <1>2, <2>1 DEF WorkedOnce
<1>6. pc' = "closed" => <<call', "accepted">> \notin events'
  <2>1. pc = "closing" => <<call, "accepted">> \notin events
    BY <1>1 DEF Statuses
  <2>2. QED
    BY <1>0, <1>2, <2>1
<1>7. QED
  BY <1>3, <1>4, <1>5, <1>6 DEF WorkedOnce

\* Every step of a run without faults leaves each candle worked once.
LEMMA StepRepeats ==
  ASSUME TypeOK, CallOfCandle, FilledHasIntent, NothingRepeats, [Next]_vars
  PROVE  NothingRepeats'
<1> SUFFICES ASSUME faults' = 0 PROVE WorkedOnce'
  BY DEF NothingRepeats
<1>0. WorkedOnce /\ ~SaveRaises /\ ~CheckpointFails /\ ~Crash /\ ~QuoteFails
  BY StepFaults DEF NothingRepeats
<1>1. CASE PipelineStep /\ UNCHANGED loop
  BY <1>0, <1>1, PipelineWorksOnce
<1>2. ASSUME Next, ~(PipelineStep /\ UNCHANGED loop) PROVE WorkedOnce'
  <2>0. cursor \in Nat /\ \A a \in Alerts : a[1] \in Nat
    BY DEF TypeOK, Alerts, Candles
  <2>1. \A a \in Alerts : Touched(a)' => a[1] <= cursor \/ a \in TouchedNow
    BY <1>0, <1>2, StepTouches DEF WorkedOnce
  <2>2. CASE TakeCandle \/ CheckExit
    <3>1. pc \in {"idle", "exit"} /\ pc' \in {"exit", "closing", "signal"} /\ cursor' = cursor
      BY <2>2 DEF TakeCandle, CheckExit, loop
    <3>2. TouchedNow = {}
      BY <3>1 DEF TouchedNow
    <3>3. QED
      BY <2>1, <3>1, <3>2 DEF WorkedOnce
  <2>3. CASE OnSignal \/ GateRejects
    <3>1. pc = "signal" /\ pc' \in {"done", "process"} /\ cursor' = cursor
      BY <2>3 DEF OnSignal, GateRejects, AtGates
    <3>2. TouchedNow \subseteq TouchedNow'
      BY <3>1 DEF TouchedNow, candle
    <3>3. QED
      BY <2>1, <3>1, <3>2 DEF WorkedOnce
  <2>4. CASE Checkpoint
    <3>1. pc = "done" /\ pc' = "idle" /\ cursor' = cursor + 1
      BY <2>4 DEF Checkpoint, candle
    <3>2. \A a \in TouchedNow : a[1] = cursor'
      BY <3>1 DEF TouchedNow, candle
    <3>3. QED
      BY <2>0, <2>1, <3>1, <3>2 DEF WorkedOnce
  <2>5. CASE CandleCloses \/ PauseOrResume
    <3>1. UNCHANGED <<pc, call, cursor, signal, events>>
      BY <2>5 DEF CandleCloses, PauseOrResume, loop, ledger
    <3>2. TouchedNow' = TouchedNow
      BY <3>1 DEF TouchedNow, candle
    <3>3. QED
      BY <1>0, <2>1, <3>1, <3>2 DEF WorkedOnce
  <2>6. CASE Quote
    <3>1. /\ UNCHANGED <<pc, call, cursor, signal>>
          /\ \A a : \A s \in Statuses \ {"filled"} : <<a, s>> \in events' => <<a, s>> \in events
      BY <2>6 DEF Quote, loop, QuoteStep, QuoteFills, QuoteRecords, QuoteRecovers, QuoteCopies,
                  QuoteSaves, ledger
    <3>2. TouchedNow' = TouchedNow
      BY <3>1 DEF TouchedNow, candle
    <3>3. QED
      BY <1>0, <2>1, <3>1, <3>2 DEF WorkedOnce, Statuses
  <2>7. QED
    BY <1>0, <1>2, <2>2, <2>3, <2>4, <2>5, <2>6 DEF Next, EngineStep, Restart, WorkedOnce
<1>3. CASE UNCHANGED vars
  BY <1>0, <1>3 DEF vars, WorkedOnce, Touched, TouchedNow, Kept, candle
<1>4. QED
  BY <1>1, <1>2, <1>3 DEF Next, EngineStep

-----------------------------------------------------------------------------
IInv == TypeOK /\ CallOfCandle /\ FilledHasIntent /\ OnePosition /\ DoneLeavesRow
        /\ DecisionsLeaveRows /\ KeptIsClaimed /\ ClaimsAreTransient /\ NothingRepeats

LEMMA InitIInv == Init => IInv
<1> SUFFICES ASSUME Init PROVE IInv
  OBVIOUS
<1>1. <<1, "close">> \in Alerts
  BY DEF Alerts, Candles
<1>2. TypeOK
  <2>1. LedgerTypeOK /\ ExecutionTypeOK
    BY DEF Init, LedgerInit, ExecutionInit, LedgerTypeOK, ExecutionTypeOK
  <2>2. PipelineTypeOK
    <3>1. pc \in Steps /\ call \in Alerts
      BY <1>1 DEF Init, Steps
    <3>2. faults \in 0 .. MaxFaults
      BY DEF Init
    <3>3. snap \in Intents \union {NoIntent} /\ paused \in BOOLEAN /\ unsaved \in BOOLEAN
      BY DEF Init
    <3>4. QED
      BY <3>1, <3>2, <3>3 DEF PipelineTypeOK
  <2>3. QED
    BY <2>1, <2>2 DEF Init, TypeOK
<1>3. CallOfCandle /\ FilledHasIntent /\ OnePosition /\ DoneLeavesRow
  BY DEF Init, LedgerInit, ExecutionInit, CallOfCandle, FilledHasIntent, OnePosition,
         DoneLeavesRow, Ordering, Entering
<1>4. DecisionsLeaveRows /\ KeptIsClaimed /\ ClaimsAreTransient
  BY DEF Init, LedgerInit, ExecutionInit, DecisionsLeaveRows, KeptIsClaimed, Kept, Claiming,
         ClaimsAreTransient
<1>5. NothingRepeats
  BY DEF Init, LedgerInit, ExecutionInit, NothingRepeats, WorkedOnce, Touched, Kept
<1>6. QED
  BY <1>2, <1>3, <1>4, <1>5 DEF IInv

LEMMA Invariance == Spec => []IInv
<1>1. IInv /\ [Next]_vars => IInv'
  BY StepTypes, StepCall, StepFilled, StepOnePosition, StepDone, StepDecisions,
     StepKept, StepTransient, StepRepeats DEF IInv
<1>2. QED
  BY InitIInv, <1>1, PTL DEF Spec

\* Every variable keeps its type, for any number of candles and faults.
THEOREM TypeCorrect == Spec => []TypeOK
<1>1. IInv => TypeOK
  BY DEF IInv
<1>2. QED
  BY <1>1, Invariance, PTL

\* However often a candle is cut short and replayed, the cursor does not pass an
\* entry signal that left neither a row nor the log line of a gate.
THEOREM DecisionsLeaveRowsTheorem == Spec => []DecisionsLeaveRows
<1>1. IInv => DecisionsLeaveRows
  BY DEF IInv
<1>2. QED
  BY <1>1, Invariance, PTL

\* What is parked has a row that keeps its candle from being ordered again.
THEOREM ParkedIsClaimedTheorem == Spec => []ParkedIsClaimed
<1>1. IInv => ParkedIsClaimed
  BY DEF IInv, KeptIsClaimed, Kept, ParkedIsClaimed
<1>2. QED
  BY <1>1, Invariance, PTL

\* No claim outlives its call unless a fault cut it short.
THEOREM ClaimsAreTransientTheorem == Spec => []ClaimsAreTransient
<1>1. IInv => ClaimsAreTransient
  BY DEF IInv
<1>2. QED
  BY <1>1, Invariance, PTL

\* As long as nothing crashes and no write fails, the worker works each candle
\* once, never meets a row or an execution of its own, and never ends in an error.
THEOREM OnlyFaultsEndWorkerTheorem == Spec => []OnlyFaultsEndWorker
<1>1. IInv => OnlyFaultsEndWorker
  BY DEF IInv, NothingRepeats, WorkedOnce, OnlyFaultsEndWorker
<1>2. QED
  BY <1>1, Invariance, PTL

LEMMA AccountStep ==
  ASSUME IInv, [Next]_vars
  PROVE  [Orders!Next]_<<executions, {p.alert : p \in book}>>
<1>0. call \in Alerts /\ (intent # NoIntent => intent.alert \in Alerts)
  BY DEF IInv, TypeOK, PipelineTypeOK, ExecutionTypeOK, Intents
<1>1. CASE UNCHANGED <<executions, book>>
  BY <1>1
<1>2. CASE intent # NoIntent /\ book = {} /\ CommitOpen(intent.alert, intent.side)
  <2>1. /\ {p.alert : p \in book} = {}
        /\ {p.alert : p \in book'} = {intent.alert}
    BY <1>2 DEF CommitOpen
  <2>2. /\ intent.alert \in Alerts
        /\ intent.alert \notin executions
        /\ executions' = executions \union {intent.alert}
    BY <1>0, <1>2 DEF CommitOpen, Unused
  <2>3. Orders!Next
    BY <2>1, <2>2 DEF Orders!Next, Orders!Enter, Orders!Leave
  <2>4. QED
    BY <2>3
<1>3. CASE \E p \in book : CommitClose(call, p)
  <2>1. PICK p \in book : CommitClose(call, p)
    BY <1>3
  <2>2. book' = {}
    BY <2>1 DEF IInv, OnePosition, CommitClose
  <2>3. /\ {q.alert : q \in book} # {}
        /\ {q.alert : q \in book'} = {}
    BY <2>1, <2>2
  <2>4. /\ call \notin executions
        /\ executions' = executions \union {call}
    BY <2>1 DEF CommitClose, Unused
  <2>5. Orders!Next
    BY <1>0, <2>3, <2>4 DEF Orders!Next, Orders!Enter, Orders!Leave
  <2>6. QED
    BY <2>5
<1>4. QED
  BY <1>1, <1>2, <1>3, StepAccount

\* Engine, pipeline, executor and ledger together are an account that executes
\* an alert at most once and never has two open positions.
THEOREM ExecutesOnceTheorem == Spec => ExecutesOnce
<1>1. Init => Orders!Init
  BY DEF Init, LedgerInit, Orders!Init
<1>2. QED
  BY <1>1, AccountStep, Invariance, PTL DEF Spec, ExecutesOnce, Orders!Spec
=============================================================================

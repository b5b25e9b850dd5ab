---------------------- MODULE PriceActionAccountProofs ----------------------
(***************************************************************************)
(* Proofs about PriceActionAccount, for any proposals and any bounds: its  *)
(* types, that a decision is one order, that the strategy has at most one  *)
(* exposure, and that no thread is stuck with the lab's lock.              *)
(***************************************************************************)
EXTENDS PriceActionAccount, FiniteSetTheorems, WellFoundedInduction, TLAPS

USE AccountAssumption
-----------------------------------------------------------------------------
\* A non-empty set of naturals has a least element, which Min chooses.
LEMMA MinIsLeast ==
    ASSUME NEW S \in SUBSET Nat, S # {}
    PROVE  Min(S) \in S
<1> DEFINE R == {ss \in Nat \X Nat : ss[1] < ss[2]}
<1>1. IsWellFoundedOn(R, Nat)
    BY NatLessThanWellFounded DEF OpToRel
<1>2. PICK x \in S : \A y \in S : <<y, x>> \notin R
    BY <1>1, WFMin, Zenon
<1>3. ASSUME NEW y \in S PROVE x <= y
    <2>1. x \in Nat /\ y \in Nat /\ ~(y < x)
        BY <1>2
    <2> QED
        BY <2>1
<1> QED
    BY <1>3 DEF Min

\* The next order of the broker is one it does not have yet.
LEMMA NextOrder ==
    ASSUME Free # {}
    PROVE  Min(Free) \in Orders /\ by[Min(Free)] = "none"
<1>1. Free \in SUBSET Nat
    BY DEF Free, Orders
<1>2. Min(Free) \in Free
    BY <1>1, MinIsLeast
<1> QED
    BY <1>2 DEF Free

Statuses == {"none", "open", "partial", "filled", "ended"}

\* A trade opens no order again and puts none into the position that did not work.
LEMMA TradesShrink ==
    ASSUME TypeOK, NEW F \in SUBSET Book, NEW P \in SUBSET F, NEW exit \in BOOLEAN, Trades(F, P, exit)
    PROVE  /\ status' \in [Orders -> Statuses]
           /\ Book' \subseteq Book
           /\ position' \subseteq position \cup F
           /\ position' \subseteq Orders
           /\ by' = by
<1>0. F \subseteq Orders /\ status \in [Orders -> Statuses] /\ position \subseteq Orders
    BY DEF Book, TypeOK, Statuses
<1>1. PICK R \in SUBSET (Book \ F) : status' = StatusAfter(F, P, R)
    BY DEF Trades
<1>2. ASSUME NEW o \in Orders
      PROVE  /\ status'[o] \in Statuses
             /\ Working(status'[o]) => Working(status[o])
    <2>1. status'[o] = CASE o \in P -> "partial"
                         [] o \in F \ P -> "filled"
                         [] o \in R -> "ended"
                         [] OTHER -> status[o]
        BY <1>1 DEF StatusAfter
    <2>2. o \in F => Working(status[o])
        BY DEF Book
    <2> QED
        BY <1>0, <2>1, <2>2 DEF Statuses, Working
<1>3. status' \in [Orders -> Statuses]
    <2>1. status' = [o \in Orders |-> status'[o]]
        BY <1>1 DEF StatusAfter
    <2> QED
        BY <1>2, <2>1
<1>4. Book' \subseteq Book
    BY <1>2 DEF Book
<1>5. position' \subseteq position \cup F
    BY DEF Trades, PositionsAfter
<1> QED
    BY <1>0, <1>3, <1>4, <1>5 DEF Trades
-----------------------------------------------------------------------------
\* Ending an order keeps the types.
LEMMA CancelledTypes ==
    ASSUME TypeOK, NEW o \in Orders
    PROVE  /\ Cancelled(o) \in [Orders -> Statuses]
           /\ \A q \in Orders : Working(Cancelled(o)[q]) => Working(status[q])
    BY DEF TypeOK, Cancelled, Statuses, Working

\* A thread's step keeps every variable in its type.
LEMMA StepTypes == ASSUME TypeOK, NEW t \in Threads, Step(t) PROVE TypeOK'
<1> USE DEF TypeOK, Goes
<1>0. t \in {"runtime", "http"}
    BY DEF Threads
<1>1. ASSUME todo[t] # {} PROVE Min(todo[t]) \in todo[t] /\ Min(todo[t]) \in Orders
    <2>1. todo[t] \in SUBSET Nat /\ todo[t] \subseteq Orders
        BY DEF Orders
    <2> QED
        BY <1>1, <2>1, MinIsLeast
<1>2. CASE TakesLock(t)
    <2>1. todo' \in [Threads -> SUBSET Orders]
        <3>1. {o \in Orders : meta[o] # "none"} \subseteq Orders
            OBVIOUS
        <3> QED
            BY <1>2, <3>1 DEF TakesLock
    <2> QED
        BY <1>2, <2>1 DEF TakesLock, broker, lab, news
<1>3. CASE Judges(t)
    <2> DEFINE o == Min(todo[t])
    <2>1. o \in Orders
        BY <1>1, <1>3 DEF Judges
    <2>2. Settled(t, o) \in {"none", "pending", "entered", "completed", "cancelled"}
        BY DEF Settled
    <2>3. meta' \in [Orders -> {"none", "pending", "entered", "completed", "cancelled"}]
        BY <1>3, <2>1, <2>2 DEF Judges
    <2>4. todo' \in [Threads -> SUBSET Orders]
        BY <1>3 DEF Judges
    <2>5. pc' \in [Threads -> {"idle", "record", "read", "lock", "judge", "kill", "cancel",
                               "propose", "submit", "insert", "mark"}]
        BY <1>3 DEF Judges
    <2> HIDE DEF o
    <2> QED
        BY <1>3, <2>3, <2>4, <2>5 DEF Judges, broker, news
<1>4. CASE Kills(t)
    <2>1. PICK o : /\ status' = Cancelled(o)
                   /\ meta' = IF Unfinished(meta[o]) THEN [meta EXCEPT ![o] = "cancelled"] ELSE meta
                   /\ todo' = [todo EXCEPT ![t] = @ \ {o}]
        BY <1>4 DEF Kills
    <2>2. Cancelled(o) \in [Orders -> Statuses]
        BY DEF Cancelled, Statuses
    <2>3. status' \in [Orders -> {"none", "open", "partial", "filled", "ended"}]
        BY <2>1, <2>2 DEF Statuses
    <2>4. meta' \in [Orders -> {"none", "pending", "entered", "completed", "cancelled"}]
        BY <2>1
    <2>5. todo' \in [Threads -> SUBSET Orders]
        BY <2>1
    <2> QED
        BY <1>4, <2>3, <2>4, <2>5 DEF Kills, news
<1>5. CASE Repairs(t)
    <2>1. {o \in Orders : status[o] = "open" /\ position # {}} \subseteq Orders
        OBVIOUS
    <2>2. lock' \in Threads \cup {"none"}
        BY <1>5 DEF Repairs, LeavesLoop
    <2>3. todo' \in [Threads -> SUBSET Orders]
        BY <1>5, <2>1 DEF Repairs
    <2>4. pc' \in [Threads -> {"idle", "record", "read", "lock", "judge", "kill", "cancel",
                               "propose", "submit", "insert", "mark"}]
        BY <1>5 DEF Repairs, LeavesLoop
    <2> QED
        BY <1>5, <2>2, <2>3, <2>4 DEF Repairs, broker, lab, news
<1>6. CASE CancelsListed(t)
    <2>1. PICK o : /\ status' = Cancelled(o)
                   /\ meta' = IF meta[o] = "none" THEN meta ELSE [meta EXCEPT ![o] = "cancelled"]
                   /\ todo' = [todo EXCEPT ![t] = @ \ {o}]
                   /\ IF todo[t] = {o} THEN LeavesLoop(t) ELSE UNCHANGED <<lock, pc>>
        BY <1>6 DEF CancelsListed
    <2>2. Cancelled(o) \in [Orders -> Statuses]
        BY DEF Cancelled, Statuses
    <2>3. status' \in [Orders -> {"none", "open", "partial", "filled", "ended"}]
        BY <2>1, <2>2 DEF Statuses
    <2>4. meta' \in [Orders -> {"none", "pending", "entered", "completed", "cancelled"}]
        BY <2>1
    <2>5. todo' \in [Threads -> SUBSET Orders]
        BY <2>1
    <2>6. lock' \in Threads \cup {"none"}
        BY <2>1 DEF LeavesLoop
    <2>7. pc' \in [Threads -> {"idle", "record", "read", "lock", "judge", "kill", "cancel",
                               "propose", "submit", "insert", "mark"}]
        BY <2>1 DEF LeavesLoop
    <2> QED
        BY <1>6, <2>3, <2>4, <2>5, <2>6, <2>7 DEF CancelsListed, news
<1>7. CASE CancelRaises(t)
    BY <1>7 DEF CancelRaises, broker, lab, news
<1>8. CASE Submits(t)
    <2>1. PICK known \in SUBSET Orders :
              \/ /\ todo' = [todo EXCEPT ![t] = known]
                 /\ UNCHANGED <<by, status>>
              \/ /\ Free # {}
                 /\ by' = [by EXCEPT ![Min(Free)] = item[t]]
                 /\ status' = [status EXCEPT ![Min(Free)] = "open"]
                 /\ todo' = [todo EXCEPT ![t] = {Min(Free)}]
        BY <1>8 DEF Submits
    <2>2. by' \in [Orders -> Proposals \cup {"manual", "none"}]
        BY <2>1
    <2>3. status' \in [Orders -> {"none", "open", "partial", "filled", "ended"}]
        BY <2>1
    <2>4. todo' \in [Threads -> SUBSET Orders]
        BY <2>1, NextOrder
    <2> QED
        BY <1>8, <2>2, <2>3, <2>4 DEF Submits, lab, news
<1>9. CASE NotSubmitted(t)
    BY <1>9, <1>0 DEF NotSubmitted, LeavesPlacing, broker, lab, news
<1>10. CASE Inserts(t)
    <2>1. PICK o : meta' = [meta EXCEPT ![o] = "pending"]
        BY <1>10 DEF Inserts
    <2>2. meta' \in [Orders -> {"none", "pending", "entered", "completed", "cancelled"}]
        BY <2>1
    <2> QED
        BY <1>10, <1>0, <2>2 DEF Inserts, LeavesPlacing, broker, news
<1> QED
    BY <1>2, <1>3, <1>4, <1>5, <1>6, <1>7, <1>8, <1>9, <1>10 DEF Step

\* The account starts without orders, positions or sections under way.
LEMMA TypeInit == Init => TypeOK
<1> SUFFICES ASSUME Init PROVE TypeOK
    OBVIOUS
<1>1. /\ by \in [Orders -> Proposals \cup {"manual", "none"}]
      /\ status \in [Orders -> {"none", "open", "partial", "filled", "ended"}]
      /\ meta \in [Orders -> {"none", "pending", "entered", "completed", "cancelled"}]
    BY DEF Init
<1>2. /\ pc \in [Threads -> {"idle", "record", "read", "lock", "judge", "kill", "cancel",
                              "propose", "submit", "insert", "mark"}]
      /\ flat \in [Threads -> BOOLEAN]
      /\ todo \in [Threads -> SUBSET Orders]
      /\ item \in [Threads -> Proposals \cup {"none"}]
    BY DEF Init
<1>3. /\ position \subseteq Orders /\ awaiting \subseteq Proposals /\ offered \subseteq Proposals
      /\ lock \in Threads \cup {"none"} /\ filled \subseteq Orders
      /\ exited \in BOOLEAN /\ checked \in BOOLEAN
    BY DEF Init
<1>4. faults \in 0 .. MaxFaults
    <2>1. MaxFaults \in Nat /\ faults = 0
        BY AccountAssumption DEF Init
    <2> QED
        BY <2>1
<1> QED
    BY <1>1, <1>2, <1>3, <1>4 DEF TypeOK

\* Every action keeps every variable in its type.
LEMMA TypeStep == TypeOK /\ [Next]_vars => TypeOK'
<1> SUFFICES ASSUME TypeOK, [Next]_vars PROVE TypeOK'
    OBVIOUS
<1> USE DEF Goes
<1>0. "runtime" \in Threads /\ "http" \in Threads
    BY DEF Threads
<1>1. CASE Quote
    <2>1. PICK F \in SUBSET Book, exit \in BOOLEAN :
              /\ Trades(F, {}, exit)
              /\ filled' = F
              /\ exited' = exit
              /\ IF F # {} \/ exit THEN Goes("runtime", "record") ELSE UNCHANGED pc
        BY <1>1 DEF Quote
    <2>2. /\ status' \in [Orders -> Statuses]
          /\ position' \subseteq Orders
          /\ by' = by
        BY <2>1, TradesShrink
    <2>3. F \subseteq Orders
        BY DEF Book
    <2> QED
        BY <1>1, <2>1, <2>2, <2>3 DEF Quote, TypeOK, Statuses, lab, loop
<1>2. CASE BarCloses \/ HttpReads
    BY <1>2 DEF BarCloses, HttpReads, ReadsPositions, TypeOK, broker, lab, news
<1>3. CASE HttpReconciles
    BY <1>3 DEF HttpReconciles, TypeOK, broker, lab, loop, news
<1>4. CASE RecordsFill
    BY <1>4 DEF RecordsFill, TypeOK, broker, loop
<1>5. CASE RecordsExit
    <2>1. meta' \in [Orders -> {"none", "pending", "entered", "completed", "cancelled"}]
        BY <1>5 DEF RecordsExit, TypeOK
    <2> QED
        BY <1>5, <2>1 DEF RecordsExit, TypeOK, broker, loop
<1>6. CASE Proposes
    <2>1. awaiting' \subseteq Proposals /\ offered' \subseteq Proposals
        BY <1>6 DEF Proposes, TypeOK
    <2>2. lock' \in Threads \cup {"none"} /\ item' \in [Threads -> Proposals \cup {"none"}]
        BY <1>0, <1>6 DEF Proposes, Places, TypeOK
    <2>3. pc' \in [Threads -> {"idle", "record", "read", "lock", "judge", "kill", "cancel",
                               "propose", "submit", "insert", "mark"}]
        BY <1>6 DEF Proposes, Places, TypeOK
    <2> QED
        BY <1>6, <2>1, <2>2, <2>3 DEF Proposes, TypeOK, broker, news
<1>7. CASE Approves
    BY <1>0, <1>7 DEF Approves, Places, TypeOK, broker, lab, news
<1>8. CASE Marks
    BY <1>8 DEF Marks, TypeOK, lab, loop, news
<1>9. ASSUME NEW t \in Threads, Step(t) PROVE TypeOK'
    BY <1>9, StepTypes
<1>10. CASE ProcessesCandle
    <2>0. PICK F \in SUBSET Book, exit \in BOOLEAN : \E P \in SUBSET F : Trades(F, P, exit)
        BY <1>10 DEF ProcessesCandle
    <2>1. PICK P \in SUBSET F : Trades(F, P, exit)
        BY <2>0
    <2>2. /\ status' \in [Orders -> Statuses]
          /\ position' \subseteq Orders
          /\ by' = by
        BY <2>1, TradesShrink
    <2> QED
        BY <1>10, <2>2 DEF ProcessesCandle, TypeOK, Statuses, lab, loop, news
<1>11. CASE ManualCancels
    <2>1. PICK o \in Orders : status' = Cancelled(o)
        BY <1>11 DEF ManualCancels, Book
    <2>2. status' \in [Orders -> Statuses]
        BY <2>1, CancelledTypes
    <2> QED
        BY <1>11, <2>2 DEF ManualCancels, TypeOK, Statuses, lab, loop, news
<1>12. CASE ManualChecks
    BY <1>12 DEF ManualChecks, TypeOK, broker, lab, loop, news
<1>13. CASE ManualSubmits
    BY <1>13 DEF ManualSubmits, TypeOK, broker, lab, loop, news
<1>14. CASE Crashes
    <2>1. /\ pc' \in [Threads -> {"idle", "record", "read", "lock", "judge", "kill", "cancel",
                                  "propose", "submit", "insert", "mark"}]
          /\ flat' \in [Threads -> BOOLEAN]
          /\ todo' \in [Threads -> SUBSET Orders]
          /\ item' \in [Threads -> Proposals \cup {"none"}]
        BY <1>14 DEF Crashes
    <2>2. faults' \in 0 .. MaxFaults
        BY <1>14 DEF Crashes, TypeOK
    <2> QED
        BY <1>14, <2>1, <2>2 DEF Crashes, TypeOK, broker, lab
<1>15. CASE UNCHANGED vars
    BY <1>15 DEF TypeOK, vars, broker, lab, loop, news
<1> QED
    BY <1>0, <1>1, <1>2, <1>3, <1>4, <1>5, <1>6, <1>7, <1>8, <1>9, <1>10, <1>11, <1>12, <1>13,
       <1>14, <1>15 DEF Next, RuntimeStep

\* The type invariant.
THEOREM TypeCorrect == Spec => []TypeOK
    BY TypeInit, TypeStep, PTL DEF Spec
-----------------------------------------------------------------------------
\* The strategy's orders that work or are in the position.
Exposed == {o \in Book \cup position : by[o] \in Proposals}

\* The lab's lock is held by the thread that is in one of its sections.
Locked ==
    \A t \in Threads : pc[t] \in {"judge", "kill", "cancel", "submit", "insert"} => lock = t

\* From the check to the submission nothing of the strategy is exposed: whatever else
\* may happen at the broker in between adds no exposure of the strategy's.
Vacant == \A t \in Threads : pc[t] = "submit" => Exposed = {}

Single == \A o \in Exposed, q \in Exposed : o = q

\* An order stands for one proposal, and a proposal for one order.
Once == \A o \in Orders, q \in Orders : by[o] \in Proposals /\ by[o] = by[q] => o = q

IInv == TypeOK /\ Locked /\ Vacant /\ Single /\ Once

\* No order of the broker is given to another proposal, and no proposal gets two.
LEMMA OnceStep == TypeOK /\ Once /\ [Next]_vars => Once'
<1> SUFFICES ASSUME TypeOK, Once, [Next]_vars PROVE Once'
    OBVIOUS
<1>0. by \in [Orders -> Proposals \cup {"manual", "none"}]
    BY DEF TypeOK
<1>1. CASE UNCHANGED by
    BY <1>1 DEF Once
<1>2. CASE ManualSubmits
    <2>1. CASE Free = {}
        BY <1>1, <1>2, <2>1 DEF ManualSubmits, broker
    <2>2. CASE Free # {}
        <3>1. Min(Free) \in Orders /\ by' = [by EXCEPT ![Min(Free)] = "manual"]
            BY <1>2, <2>2, NextOrder DEF ManualSubmits
        <3> QED
            BY <1>0, <3>1, AccountAssumption DEF Once
    <2> QED
        BY <2>1, <2>2
<1>3. ASSUME NEW t \in Threads, Submits(t) PROVE Once'
    <2>1. CASE by' = by
        BY <1>1, <2>1
    <2>2. CASE by' # by
        <3>1. \A o \in Orders : by[o] # item[t]
            BY <1>3, <2>2 DEF Submits
        <3>2. Min(Free) \in Orders /\ by' = [by EXCEPT ![Min(Free)] = item[t]]
            BY <1>3, <2>2, NextOrder DEF Submits
        <3> QED
            BY <1>0, <3>1, <3>2 DEF Once
    <2> QED
        BY <2>1, <2>2
<1>4. ManualSubmits \/ (\E t \in Threads : Submits(t)) \/ UNCHANGED by
    <2>1. ASSUME NEW t \in Threads, Step(t) PROVE Submits(t) \/ UNCHANGED by
        BY <2>1 DEF Step, TakesLock, Judges, Kills, Repairs, CancelsListed, CancelRaises,
           NotSubmitted, Inserts, broker
    <2>2. "runtime" \in Threads /\ "http" \in Threads
        BY DEF Threads
    <2>3. CASE Quote \/ ProcessesCandle
        BY <2>3 DEF Quote, ProcessesCandle, Trades
    <2>4. CASE BarCloses \/ HttpReconciles \/ HttpReads \/ Approves \/ RecordsFill
               \/ RecordsExit \/ Proposes \/ Marks \/ ManualCancels \/ ManualChecks \/ Crashes
        BY <2>4 DEF BarCloses, HttpReconciles, HttpReads, ReadsPositions, Approves, RecordsFill,
           RecordsExit, Proposes, Marks, ManualCancels, ManualChecks, Crashes, broker
    <2>5. CASE UNCHANGED vars
        BY <2>5 DEF vars, broker
    <2> QED
        BY <2>1, <2>2, <2>3, <2>4, <2>5 DEF Next, RuntimeStep
<1> QED
    BY <1>1, <1>2, <1>3, <1>4

\* A section is entered with the lock and left with it given up.
LEMMA LockedStep == TypeOK /\ Locked /\ [Next]_vars => Locked'
<1> SUFFICES ASSUME TypeOK, Locked, [Next]_vars PROVE Locked'
    OBVIOUS
<1> DEFINE Inside == {"judge", "kill", "cancel", "submit", "insert"}
<1>0. /\ pc \in [Threads -> {"idle", "record", "read", "lock", "judge", "kill", "cancel",
                              "propose", "submit", "insert", "mark"}]
      /\ "none" \notin Threads
      /\ "runtime" \in Threads /\ "http" \in Threads
    BY DEF TypeOK, Threads
<1>1. ASSUME NEW t \in Threads, NEW place,
             pc' = [pc EXCEPT ![t] = place],
             \/ place \notin Inside /\ lock' = lock
             \/ lock = "none" /\ lock' = t
             \/ lock = t /\ lock' = t
             \/ lock = t /\ place \notin Inside
      PROVE  Locked'
    BY <1>0, <1>1 DEF Locked
<1>2. CASE UNCHANGED <<pc, lock>>
    BY <1>2 DEF Locked
<1>3. ASSUME NEW t \in Threads, Step(t) PROVE Locked'
    <2>1. CASE TakesLock(t)
        BY <1>1, <2>1 DEF TakesLock, Goes
    <2>2. CASE Judges(t)
        <3>1. lock = t
            BY <2>2 DEF Locked, Judges
        <3>2. lock' = t /\ (pc' = [pc EXCEPT ![t] = "kill"] \/ pc' = pc)
            BY <2>2, <3>1 DEF Judges, Goes
        <3> QED
            BY <1>1, <1>2, <3>1, <3>2
    <2>3. CASE Kills(t)
        <3>1. lock = t
            BY <2>3 DEF Locked, Kills
        <3> QED
            BY <1>1, <2>3, <3>1 DEF Kills, Goes
    <2>4. CASE Repairs(t)
        <3>1. lock = t
            BY <2>4 DEF Locked, Repairs
        <3>2. \/ pc' = [pc EXCEPT ![t] = "cancel"] /\ lock' = lock
              \/ pc' = [pc EXCEPT ![t] = "propose"]
              \/ pc' = [pc EXCEPT ![t] = "idle"]
            BY <2>4 DEF Repairs, LeavesLoop, Goes
        <3> QED
            BY <1>1, <3>1, <3>2
    <2>5. CASE CancelsListed(t)
        <3>1. lock = t
            BY <2>5 DEF Locked, CancelsListed
        <3>2. \/ UNCHANGED <<pc, lock>>
              \/ pc' = [pc EXCEPT ![t] = "propose"]
              \/ pc' = [pc EXCEPT ![t] = "idle"]
            BY <2>5 DEF CancelsListed, LeavesLoop, Goes
        <3> QED
            BY <1>1, <1>2, <3>1, <3>2
    <2>6. CASE CancelRaises(t)
        <3>1. lock = t
            BY <2>6 DEF Locked, CancelRaises
        <3> QED
            BY <1>1, <2>6, <3>1 DEF CancelRaises, Goes
    <2>7. CASE Submits(t)
        <3>1. lock = t
            BY <2>7 DEF Locked, Submits
        <3> QED
            BY <1>1, <2>7, <3>1 DEF Submits, Goes, lab
    <2>8. CASE NotSubmitted(t) \/ Inserts(t)
        <3>1. lock = t
            BY <2>8 DEF Locked, NotSubmitted, Inserts
        <3>2. pc' = [pc EXCEPT ![t] = "mark"] \/ pc' = [pc EXCEPT ![t] = "idle"]
            BY <2>8 DEF NotSubmitted, Inserts, LeavesPlacing, Goes
        <3> QED
            BY <1>1, <3>1, <3>2
    <2> QED
        BY <1>3, <2>1, <2>2, <2>3, <2>4, <2>5, <2>6, <2>7, <2>8 DEF Step
<1>4. CASE Approves
    BY <1>0, <1>1, <1>4 DEF Approves, Places, Goes
<1>5. CASE Proposes
    <2>1. \/ pc' = [pc EXCEPT !["runtime"] = "mark"] /\ lock' = lock
          \/ pc' = [pc EXCEPT !["runtime"] = "submit"] /\ lock = "none" /\ lock' = "runtime"
        BY <1>5 DEF Proposes, Places, Goes
    <2> QED
        BY <1>0, <1>1, <2>1
<1>6. CASE BarCloses \/ HttpReads \/ HttpReconciles
    <2>1. PICK t \in Threads, place \in {"lock", "read"} :
              pc' = [pc EXCEPT ![t] = place] /\ lock' = lock
        BY <1>0, <1>6 DEF BarCloses, HttpReads, HttpReconciles, ReadsPositions, Goes
    <2> QED
        BY <1>1, <2>1
<1>7. CASE Quote \/ RecordsFill \/ RecordsExit \/ Marks
    <2>1. /\ lock' = lock
          /\ \/ pc' = pc
             \/ pc' = [pc EXCEPT !["runtime"] = "record"]
             \/ pc' = [pc EXCEPT !["runtime"] = "idle"]
        BY <1>7 DEF Quote, RecordsFill, RecordsExit, Marks, Goes, lab
    <2> QED
        BY <1>0, <1>1, <1>2, <2>1
<1>8. CASE ProcessesCandle \/ ManualCancels \/ ManualChecks \/ ManualSubmits \/ UNCHANGED vars
    BY <1>2, <1>8 DEF ProcessesCandle, ManualCancels, ManualChecks, ManualSubmits, vars
<1>9. CASE Crashes
    BY <1>9 DEF Crashes, Locked
<1> QED
    BY <1>0, <1>3, <1>4, <1>5, <1>6, <1>7, <1>8, <1>9 DEF Next, RuntimeStep

\* A step that exposes nothing new keeps what is said of the exposure.
LEMMA Keeps ==
    ASSUME Vacant, Single, Exposed' \subseteq Exposed,
           \A t \in Threads : pc'[t] = "submit" => pc[t] = "submit" \/ Exposed = {}
    PROVE  Vacant' /\ Single'
    BY DEF Vacant, Single

\* What only ends orders exposes nothing new.
LEMMA Ends ==
    ASSUME by' = by, Book' \subseteq Book, position' \subseteq position \cup Book
    PROVE  Exposed' \subseteq Exposed
    BY DEF Exposed

\* The broker may fill, end or liquidate, but only a submission under the lock, after
\* the check under the same lock, exposes an order of the strategy.
LEMMA AloneStep == TypeOK /\ Locked /\ Vacant /\ Single /\ [Next]_vars => Vacant' /\ Single'
<1> SUFFICES ASSUME TypeOK, Locked, Vacant, Single, [Next]_vars PROVE Vacant' /\ Single'
    OBVIOUS
<1>0. /\ pc \in [Threads -> {"idle", "record", "read", "lock", "judge", "kill", "cancel",
                              "propose", "submit", "insert", "mark"}]
      /\ "runtime" \in Threads /\ "http" \in Threads
      /\ by \in [Orders -> Proposals \cup {"manual", "none"}]
    BY DEF TypeOK, Threads
<1>1. ASSUME UNCHANGED broker,
             \A t \in Threads : pc'[t] = "submit" => pc[t] = "submit" \/ Exposed = {}
      PROVE  Vacant' /\ Single'
    <2>1. Exposed' = Exposed
        BY <1>1 DEF Exposed, Book, broker
    <2> QED
        BY <1>1, <2>1, Keeps
<1>2. ASSUME NEW F \in SUBSET Book, NEW P \in SUBSET F, NEW exit \in BOOLEAN, Trades(F, P, exit)
      PROVE  Exposed' \subseteq Exposed
    <2>1. Book' \subseteq Book /\ position' \subseteq position \cup F /\ by' = by
        BY <1>2, TradesShrink
    <2> QED
        BY <2>1, Ends
<1>3. ASSUME NEW o, status' = Cancelled(o), UNCHANGED <<by, position>>
      PROVE  Exposed' \subseteq Exposed
    <2>1. ASSUME NEW q \in Orders PROVE Working(status'[q]) => Working(status[q])
        BY <1>3 DEF TypeOK, Cancelled, Working
    <2>2. Book' \subseteq Book
        BY <2>1 DEF Book
    <2> QED
        BY <1>3, <2>2, Ends
<1>4. ASSUME NEW t \in Threads, Step(t), ~Submits(t) PROVE Vacant' /\ Single'
    <2>1. \A u \in Threads : pc'[u] = "submit" => pc[u] = "submit"
        BY <1>0, <1>4 DEF Step, TakesLock, Judges, Kills, Repairs, LeavesLoop, CancelsListed,
           CancelRaises, NotSubmitted, Inserts, LeavesPlacing, Goes
    <2>2. CASE Kills(t) \/ CancelsListed(t)
        <3>1. PICK o : status' = Cancelled(o)
            BY <2>2 DEF Kills, CancelsListed
        <3>2. UNCHANGED <<by, position>>
            BY <2>2 DEF Kills, CancelsListed
        <3> QED
            BY <1>3, <2>1, <3>1, <3>2, Keeps
    <2>3. CASE TakesLock(t) \/ Judges(t) \/ Repairs(t) \/ CancelRaises(t) \/ NotSubmitted(t) \/ Inserts(t)
        <3>1. UNCHANGED broker
            BY <2>3 DEF TakesLock, Judges, Repairs, CancelRaises, NotSubmitted, Inserts
        <3> QED
            BY <1>1, <2>1, <3>1
    <2> QED
        BY <1>4, <2>2, <2>3 DEF Step
<1>5. ASSUME NEW t \in Threads, Submits(t) PROVE Vacant' /\ Single'
    <2>1. Exposed = {} /\ lock = t
        BY <1>5 DEF Submits, Vacant, Locked
    <2>2. \A u \in Threads : pc'[u] # "submit"
        BY <1>0, <1>5, <2>1 DEF Submits, Goes, Locked
    <2>3. PICK x : \A o \in Orders : o # x => by'[o] = by[o] /\ status'[o] = status[o]
        BY <1>0, <1>5 DEF Submits, TypeOK
    <2>4. position' = position
        BY <1>5 DEF Submits
    <2>5. Exposed' \subseteq {x}
        BY <2>1, <2>3, <2>4 DEF Exposed, Book, TypeOK
    <2> QED
        BY <2>2, <2>5 DEF Vacant, Single
<1>6. CASE Approves
    <2>1. Book = {} /\ position = {} /\ UNCHANGED broker
        BY <1>6 DEF Approves, Places, Placeable
    <2> QED
        BY <1>1, <2>1 DEF Exposed
<1>7. CASE Proposes
    <2>1. UNCHANGED broker
        BY <1>7 DEF Proposes
    <2>2. CASE pc' = [pc EXCEPT !["runtime"] = "mark"]
        BY <1>0, <1>1, <2>1, <2>2
    <2>3. CASE pc' # [pc EXCEPT !["runtime"] = "mark"]
        <3>1. Book = {} /\ position = {}
            BY <1>7, <2>3 DEF Proposes, Places, Placeable, Goes
        <3> QED
            BY <1>1, <2>1, <3>1 DEF Exposed
    <2> QED
        BY <2>2, <2>3
<1>8. CASE BarCloses \/ HttpReads \/ HttpReconciles \/ RecordsFill \/ RecordsExit \/ ManualChecks \/ Crashes
    <2>1. UNCHANGED broker
        BY <1>8 DEF BarCloses, HttpReads, HttpReconciles, ReadsPositions, RecordsFill, RecordsExit, ManualChecks, Crashes
    <2>2. \A u \in Threads : pc'[u] = "submit" => pc[u] = "submit"
        BY <1>0, <1>8 DEF BarCloses, HttpReads, HttpReconciles, ReadsPositions, RecordsFill, RecordsExit,
           ManualChecks, Crashes, Goes
    <2> QED
        BY <1>1, <2>1, <2>2
<1>9. CASE Quote
    <2>1. PICK F \in SUBSET Book, exit \in BOOLEAN : Trades(F, {}, exit)
        BY <1>9 DEF Quote
    <2>2. \A u \in Threads : pc'[u] = "submit" => pc[u] = "submit"
        BY <1>0, <1>9 DEF Quote, Goes
    <2> QED
        BY <1>2, <2>1, <2>2, Keeps
<1>10. CASE ProcessesCandle
    <2>0. PICK F \in SUBSET Book, exit \in BOOLEAN : \E P \in SUBSET F : Trades(F, P, exit)
        BY <1>10 DEF ProcessesCandle
    <2>1. PICK P \in SUBSET F : Trades(F, P, exit)
        BY <2>0
    <2>2. pc' = pc
        BY <1>10 DEF ProcessesCandle
    <2> QED
        BY <1>2, <2>1, <2>2, Keeps
<1>11. CASE ManualCancels
    <2>1. PICK o : status' = Cancelled(o)
        BY <1>11 DEF ManualCancels
    <2>2. UNCHANGED <<by, position, pc>>
        BY <1>11 DEF ManualCancels
    <2> QED
        BY <1>3, <2>1, <2>2, Keeps
<1>12. CASE ManualSubmits
    <2>1. pc' = pc
        BY <1>12 DEF ManualSubmits
    <2>2. CASE UNCHANGED broker
        BY <1>1, <2>1, <2>2
    <2>3. CASE ~UNCHANGED broker
        <3>1. Free # {} /\ UNCHANGED position
            BY <1>12, <2>3 DEF ManualSubmits
        <3>2. /\ by' = [by EXCEPT ![Min(Free)] = "manual"]
              /\ status' = [status EXCEPT ![Min(Free)] = "open"]
            BY <1>12, <2>3 DEF ManualSubmits
        <3>3. Min(Free) \in Orders
            BY <3>1, NextOrder
        <3>4. Exposed' \subseteq Exposed
            BY <1>0, <3>1, <3>2, <3>3, AccountAssumption DEF Exposed, Book, TypeOK
        <3> QED
            BY <2>1, <3>4, Keeps
    <2> QED
        BY <2>2, <2>3
<1>13. CASE Marks
    <2>1. by' = by /\ Book' = Book /\ position' \subseteq position
        BY <1>13 DEF Marks, Book
    <2>2. \A u \in Threads : pc'[u] = "submit" => pc[u] = "submit"
        BY <1>0, <1>13 DEF Marks, Goes
    <2> QED
        BY <2>1, <2>2, Ends, Keeps
<1>14. CASE UNCHANGED vars
    BY <1>1, <1>14 DEF vars, broker
<1> QED
    BY <1>0, <1>4, <1>5, <1>6, <1>7, <1>8, <1>9, <1>10, <1>11, <1>12, <1>13, <1>14 DEF Next, RuntimeStep

\* The inductive invariant.
THEOREM Invariance == Spec => []IInv
<1>1. Init => IInv
    <2>1. Init => Exposed = {} /\ \A t \in Threads : pc[t] = "idle"
        BY AccountAssumption DEF Init, Exposed, Book, Working
    <2> QED
        BY <2>1, TypeInit DEF Init, IInv, Locked, Vacant, Single, Once
<1>2. IInv /\ [Next]_vars => IInv'
    BY TypeStep, OnceStep, LockedStep, AloneStep DEF IInv
<1> QED
    BY <1>1, <1>2, PTL DEF Spec

\* A set without two different elements has at most one.
LEMMA AtMostOne ==
    ASSUME NEW S, \A a \in S, b \in S : a = b
    PROVE  Cardinality(S) <= 1
<1>1. CASE S = {}
    BY <1>1, FS_EmptySet
<1>2. CASE S # {}
    <2>1. PICK a : S = {a}
        BY <1>2
    <2> QED
        BY <2>1, FS_Singleton
<1> QED
    BY <1>1, <1>2

\* A decision is one order at the broker, however it is submitted again.
THEOREM PlacedOnceTheorem == Spec => []PlacedOnce
<1>1. Once => PlacedOnce
    <2> SUFFICES ASSUME Once, NEW p \in Proposals PROVE Cardinality({o \in Orders : by[o] = p}) <= 1
        BY DEF PlacedOnce
    <2>1. \A a \in {o \in Orders : by[o] = p}, b \in {o \in Orders : by[o] = p} : a = b
        BY DEF Once
    <2> QED
        BY <2>1, AtMostOne
<1> QED
    BY <1>1, Invariance, PTL DEF IInv

\* The strategy never has a second order at work or in the position, whatever fills,
\* liquidations, manual orders, reconciliations and crashes come in between.
THEOREM OneStrategyExposureTheorem == Spec => []OneStrategyExposure
<1>1. Single => OneStrategyExposure
    BY AtMostOne DEF Single, OneStrategyExposure, Exposed
<1> QED
    BY <1>1, Invariance, PTL DEF IInv
-----------------------------------------------------------------------------
\* Nobody is stuck: the lab's lock is held by a thread inside one of its sections, a
\* thread that works on a list has something left on it, and the runtime records a
\* quote only as long as there is something to record. Without this a section that is
\* left by a raise, or a list that ran empty, would close the lab for good.
NobodyIsStuck ==
    /\ lock # "none" => pc[lock] \in {"judge", "kill", "cancel", "submit", "insert"}
    /\ \A t \in Threads : pc[t] \in {"kill", "cancel", "insert"} => todo[t] # {}
    /\ pc["runtime"] = "record" => filled # {} \/ exited

\* A step of a section goes on with work left, or leaves it with the lock given up.
LEMMA SectionStuck ==
    ASSUME TypeOK, Locked, NobodyIsStuck, NEW t \in Threads, Step(t)
    PROVE  NobodyIsStuck'
<1> DEFINE Inside == {"judge", "kill", "cancel", "submit", "insert"}
<1>0. /\ pc \in [Threads -> {"idle", "record", "read", "lock", "judge", "kill", "cancel",
                              "propose", "submit", "insert", "mark"}]
      /\ todo \in [Threads -> SUBSET Orders] /\ lock \in Threads \cup {"none"}
      /\ "none" \notin Threads /\ "runtime" \in Threads
    BY DEF TypeOK, Threads
<1>1. ASSUME NEW place \in Inside \cup {"idle", "propose", "mark"}, pc' = [pc EXCEPT ![t] = place],
             \A u \in Threads \ {t} : todo'[u] = todo[u],
             place \in {"kill", "cancel", "insert"} => todo'[t] # {},
             lock' = IF place \in Inside THEN t ELSE "none",
             UNCHANGED <<filled, exited>>
      PROVE  NobodyIsStuck'
    <2>1. lock' # "none" => pc'[lock'] \in Inside
        BY <1>0, <1>1
    <2>2. ASSUME NEW u \in Threads, pc'[u] \in {"kill", "cancel", "insert"} PROVE todo'[u] # {}
        BY <1>0, <1>1, <2>2 DEF NobodyIsStuck
    <2>3. pc'["runtime"] = "record" => filled' # {} \/ exited'
        BY <1>0, <1>1 DEF NobodyIsStuck
    <2> QED
        BY <2>1, <2>2, <2>3 DEF NobodyIsStuck
<1>2. CASE TakesLock(t)
    BY <1>0, <1>1, <1>2 DEF TakesLock, Goes, news
<1>3. CASE Judges(t)
    <2>1. lock = t /\ lock' = lock /\ todo[t] # {} /\ UNCHANGED <<filled, exited>>
        BY <1>3 DEF Locked, Judges, news
    <2>2. \/ pc' = [pc EXCEPT ![t] = "kill"] /\ todo' = todo
          \/ /\ pc' = [pc EXCEPT ![t] = "judge"]
             /\ \A u \in Threads \ {t} : todo'[u] = todo[u]
        BY <1>0, <1>3 DEF Judges, Goes
    <2> QED
        BY <1>1, <2>1, <2>2
<1>4. CASE Kills(t)
    <2>1. lock = t
        BY <1>4 DEF Locked, Kills
    <2> QED
        BY <1>0, <1>1, <1>4, <2>1 DEF Kills, Goes, news
<1>5. CASE Repairs(t)
    <2>1. lock = t /\ \A u \in Threads \ {t} : todo'[u] = todo[u]
        BY <1>0, <1>5 DEF Locked, Repairs
    <2>2. \/ lock' = lock /\ pc' = [pc EXCEPT ![t] = "cancel"] /\ todo'[t] # {}
          \/ lock' = "none" /\ pc' = [pc EXCEPT ![t] = "propose"]
          \/ lock' = "none" /\ pc' = [pc EXCEPT ![t] = "idle"]
        BY <1>0, <1>5 DEF Repairs, LeavesLoop, Goes
    <2>3. UNCHANGED <<filled, exited>>
        BY <1>5 DEF Repairs, news
    <2> QED
        BY <1>1, <2>1, <2>2, <2>3
<1>6. CASE CancelsListed(t)
    <2>1. lock = t /\ todo[t] # {} /\ todo' = [todo EXCEPT ![t] = @ \ {Min(todo[t])}]
        BY <1>6 DEF Locked, CancelsListed, NobodyIsStuck
    <2>2. \A u \in Threads \ {t} : todo'[u] = todo[u]
        BY <1>0, <2>1
    <2>3. \/ /\ lock' = lock /\ pc' = [pc EXCEPT ![t] = "cancel"]
             /\ todo[t] # {Min(todo[t])}
          \/ lock' = "none" /\ pc' = [pc EXCEPT ![t] = "propose"]
          \/ lock' = "none" /\ pc' = [pc EXCEPT ![t] = "idle"]
        BY <1>0, <1>6 DEF CancelsListed, LeavesLoop, Goes
    <2>4. todo[t] # {Min(todo[t])} => todo'[t] # {}
        BY <1>0, <2>1
    <2>5. UNCHANGED <<filled, exited>>
        BY <1>6 DEF CancelsListed, news
    <2> QED
        BY <1>1, <2>1, <2>2, <2>3, <2>4, <2>5
<1>7. CASE CancelRaises(t)
    BY <1>0, <1>1, <1>7 DEF CancelRaises, Goes, news
<1>8. CASE Submits(t)
    <2>1. lock = t /\ lock' = lock /\ pc' = [pc EXCEPT ![t] = "insert"] /\ UNCHANGED <<filled, exited>>
        BY <1>8 DEF Locked, Submits, Goes, news
    <2>2. PICK S : S # {} /\ todo' = [todo EXCEPT ![t] = S]
        BY <1>8 DEF Submits
    <2> QED
        BY <1>0, <1>1, <2>1, <2>2
<1>9. CASE NotSubmitted(t) \/ Inserts(t)
    <2>1. /\ lock' = "none" /\ todo' = [todo EXCEPT ![t] = {}]
          /\ pc' = [pc EXCEPT ![t] = "mark"] \/ pc' = [pc EXCEPT ![t] = "idle"]
        BY <1>9 DEF NotSubmitted, Inserts, LeavesPlacing, Goes
    <2>2. UNCHANGED <<filled, exited>>
        BY <1>9 DEF NotSubmitted, Inserts, news
    <2> QED
        BY <1>0, <1>1, <2>1, <2>2
<1> QED
    BY <1>2, <1>3, <1>4, <1>5, <1>6, <1>7, <1>8, <1>9 DEF Step

\* So does every step.
LEMMA StuckStep == TypeOK /\ Locked /\ NobodyIsStuck /\ [Next]_vars => NobodyIsStuck'
<1> SUFFICES ASSUME TypeOK, Locked, NobodyIsStuck, [Next]_vars PROVE NobodyIsStuck'
    OBVIOUS
<1>0. /\ pc \in [Threads -> {"idle", "record", "read", "lock", "judge", "kill", "cancel",
                              "propose", "submit", "insert", "mark"}]
      /\ lock \in Threads \cup {"none"} /\ "none" \notin Threads
      /\ "runtime" \in Threads /\ "http" \in Threads
    BY DEF TypeOK, Threads
<1>1. CASE UNCHANGED <<pc, lock, todo, filled, exited>>
    BY <1>1 DEF NobodyIsStuck
<1>2. ASSUME NEW t \in Threads, pc[t] \notin {"judge", "kill", "cancel", "submit", "insert"},
             NEW place \in {"idle", "record", "read", "lock", "propose", "mark"},
             pc' = [pc EXCEPT ![t] = place], UNCHANGED <<lock, todo>>,
             pc'["runtime"] = "record" => filled' # {} \/ exited'
      PROVE  NobodyIsStuck'
    <2>1. lock # t /\ \A u \in Threads \ {t} : pc'[u] = pc[u]
        BY <1>0, <1>2 DEF NobodyIsStuck
    <2> QED
        BY <1>0, <1>2, <2>1 DEF NobodyIsStuck
<1>3. ASSUME NEW t \in Threads, NEW p, Places(t, p), UNCHANGED <<todo, filled, exited>>
      PROVE  NobodyIsStuck'
    <2>1. pc' = [pc EXCEPT ![t] = "submit"] /\ lock' = t
        BY <1>3 DEF Places, Goes
    <2> QED
        BY <1>0, <1>3, <2>1 DEF NobodyIsStuck
<1>4. CASE Approves
    BY <1>0, <1>3, <1>4 DEF Approves, news
<1>5. CASE Proposes
    <2>1. UNCHANGED <<todo, filled, exited>> /\ pc["runtime"] = "propose"
        BY <1>5 DEF Proposes, news
    <2>2. CASE \E p \in Proposals : Places("runtime", p)
        BY <1>0, <1>3, <2>1, <2>2
    <2>3. CASE pc' = [pc EXCEPT !["runtime"] = "mark"] /\ UNCHANGED lock
        BY <1>0, <1>2, <2>1, <2>3
    <2> QED
        BY <1>5, <2>2, <2>3 DEF Proposes, Goes
<1>6. CASE BarCloses \/ HttpReads \/ HttpReconciles
    <2>1. PICK t \in Threads, place \in {"lock", "read"} :
              /\ pc[t] \in {"idle", "read"} /\ pc' = [pc EXCEPT ![t] = place]
        BY <1>0, <1>6 DEF BarCloses, HttpReads, HttpReconciles, ReadsPositions, Goes
    <2>2. UNCHANGED <<lock, todo, filled, exited>>
        BY <1>6 DEF BarCloses, HttpReads, HttpReconciles, ReadsPositions, loop, news
    <2>3. pc'["runtime"] = "record" => filled' # {} \/ exited'
        BY <1>0, <2>1, <2>2 DEF NobodyIsStuck
    <2> QED
        BY <1>2, <2>1, <2>2, <2>3
<1>7. CASE Quote
    <2>1. /\ pc["runtime"] = "idle" /\ UNCHANGED <<lock, todo>>
          /\ \/ pc' = [pc EXCEPT !["runtime"] = "record"] /\ (filled' # {} \/ exited')
             \/ pc' = [pc EXCEPT !["runtime"] = "idle"]
        BY <1>0, <1>7 DEF Quote, Goes, loop
    <2> QED
        BY <1>0, <1>2, <2>1
<1>8. CASE RecordsFill
    <2>1. PICK o \in filled :
              /\ filled' = filled \ {o}
              /\ IF filled = {o} /\ ~exited THEN Goes("runtime", "idle") ELSE UNCHANGED pc
        BY <1>8 DEF RecordsFill
    <2>2. pc["runtime"] = "record" /\ UNCHANGED <<lock, todo, exited>>
        BY <1>8 DEF RecordsFill, loop
    <2>3. CASE filled = {o} /\ ~exited
        BY <1>0, <1>2, <2>1, <2>2, <2>3 DEF Goes
    <2>4. CASE ~(filled = {o} /\ ~exited)
        <3>1. pc' = [pc EXCEPT !["runtime"] = "record"] /\ (filled' # {} \/ exited')
            BY <1>0, <2>1, <2>2, <2>4
        <3> QED
            BY <1>0, <1>2, <2>2, <3>1
    <2> QED
        BY <2>3, <2>4
<1>9. CASE RecordsExit \/ Marks
    <2>1. /\ pc["runtime"] \in {"record", "mark"} /\ UNCHANGED <<lock, todo>>
          /\ pc' = [pc EXCEPT !["runtime"] = "idle"]
        BY <1>9 DEF RecordsExit, Marks, Goes, loop
    <2> QED
        BY <1>0, <1>2, <2>1
<1>10. CASE ProcessesCandle \/ ManualCancels \/ ManualChecks \/ ManualSubmits \/ UNCHANGED vars
    BY <1>1, <1>10 DEF ProcessesCandle, ManualCancels, ManualChecks, ManualSubmits, vars, loop, news
<1>11. CASE Crashes
    BY <1>0, <1>11 DEF Crashes, NobodyIsStuck
<1> QED
    BY <1>0, <1>4, <1>5, <1>6, <1>7, <1>8, <1>9, <1>10, <1>11, SectionStuck DEF Next, RuntimeStep

\* No call ends in a place it cannot go on from: whatever raises, fills or crashes in
\* between, the lab's lock has a holder with a step to take, which is the safety part
\* of MetadataSettles.
THEOREM NobodyIsStuckTheorem == Spec => []NobodyIsStuck
<1>1. Init => NobodyIsStuck
    BY DEF Init, NobodyIsStuck, Threads
<1>2. IInv /\ NobodyIsStuck /\ [Next]_vars => NobodyIsStuck'
    BY StuckStep DEF IInv
<1> QED
    BY <1>1, <1>2, Invariance, PTL DEF Spec
=============================================================================

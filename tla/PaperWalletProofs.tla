-------------------------- MODULE PaperWalletProofs --------------------------
(***************************************************************************)
(* The ledger's guarantees, for any number of processes, signals, restarts *)
(* and faults, and for every choice of cash, fee rate, leverage and page   *)
(* size.                                                                   *)
(***************************************************************************)
EXTENDS PaperWallet, FiniteSums

-----------------------------------------------------------------------------
(* The calculations of process() are well typed                            *)

\* A margin is an integer for every integer quantity and price.
LEMMA MarginType ==
    ASSUME NEW q \in Int, NEW r \in Int
    PROVE  Margin(q, r) \in Int
BY WalletAssumption DEF Margin

\* So is the fee of an integer notional.
LEMMA FeeType ==
    ASSUME NEW n \in Int
    PROVE  FeeOf(n) \in Int
<1>1. n * FeeRate \in Int
  BY WalletAssumption
<1> QED
  BY <1>1, WalletAssumption DEF FeeOf

Memory == [cash : Int, position : Position \cup {None}, kill : BOOLEAN]

\* No position record can be mistaken for the absence of one.
LEMMA NoneIsNoKind == None \notin {"filled", "rejected", "skipped"}
BY WalletAssumption

\* An accounting row is not the absence of one.
LEMMA SnapshotIsSome ==
    ASSUME NEW c \in Int, NEW v \in Int
    PROVE  [cash |-> c, value |-> v] # None
BY WalletAssumption

\* A position in memory is worth an integer.
LEMMA PositionValueType ==
    ASSUME NEW x \in Position \cup {None}
    PROVE  PositionValue(x) \in Int
<1>1. CASE x = None
  BY <1>1 DEF PositionValue
<1>2. CASE x # None
  <2>1. x.qty \in Int /\ x.price \in Int
    BY <1>2 DEF Position
  <2> QED
    BY <1>2, <2>1, MarginType DEF PositionValue
<1> QED
  BY <1>1, <1>2

\* Closing a held position leaves an integer amount of cash.
LEMMA CashAfterExitType ==
    ASSUME NEW m \in Memory, m.position # None, NEW r \in Int
    PROVE  CashAfterExit(m, r) \in Int
<1>1. m.cash \in Int /\ m.position \in Position
  BY DEF Memory
<1>2. Pnl(m.position, r) \in Int
  BY <1>1 DEF Pnl, Position
<1>3. PositionValue(m.position) \in Int
  BY <1>1, PositionValueType
<1>4. FeeOf(m.position.qty * r) \in Int
  <2>1. m.position.qty * r \in Int
    BY <1>1 DEF Position
  <2> QED
    BY <2>1, FeeType
<1> QED
  BY <1>1, <1>2, <1>3, <1>4 DEF CashAfterExit

\* A well-typed execution of signal i, with exactly the legs of its intent.
Whole(d, i, kind) ==
    /\ d \in ExecutionType
    /\ \A f \in d.fills : f.id = i
    /\ {f.reduce_only : f \in d.fills} = Ledger!LegsOf(kind.intent)

\* process() never drafts an execution that mixes signals or drops a leg: the
\* drafted fills belong to the message and are the legs of its intent.
LEMMA ExecutionsAreWhole ==
    ASSUME NEW i \in SignalIds, NEW m \in Memory, NEW kind \in SignalKinds,
           ~RefusedAtOnce(m, kind),
           NEW d \in Executions(i, m, kind)
    PROVE  Whole(d, i, kind)
<1>1. kind \in KindType
  BY WalletAssumption
<1>2. Exits(kind) => m.position \in Position
  BY DEF RefusedAtOnce, HasPositionIn, Memory
<1>3. CashBeforeEntry(m, kind) \in Int
  BY <1>1, <1>2, CashAfterExitType DEF CashBeforeEntry, KindType, Memory, RefusedAtOnce, HasPositionIn
<1>4. Exits(kind) => ExitLeg(i, m, kind) \in FillType
  BY <1>1, <1>2 DEF ExitLeg, FillRow, FillType, KindType, Position
<1>5. ASSUME NEW q \in 1..MaxQty
      PROVE  Entered(i, kind, q) \in Position /\ EntryLeg(i, kind, q) \in FillType
  BY <1>1, WalletAssumption DEF Entered, EntryLeg, FillRow, FillType, KindType, Position
<1>6. CASE ~Enters(kind)
  <2>1. kind.intent = "exit" /\ Exits(kind)
    BY <1>1, <1>6 DEF Enters, Exits, KindType, Intents
  <2>2. d = ExitOnly(i, m, kind)
    BY <1>6 DEF Executions
  <2>3. CashAfterExit(m, kind.price) \in Int
    BY <1>1, <1>2, <2>1, CashAfterExitType DEF KindType, RefusedAtOnce, HasPositionIn
  <2>4. d \in ExecutionType
    BY <1>1, <1>4, <2>1, <2>2, <2>3 DEF ExitOnly, ExecutionType, KindType
  <2>5. d.fills = {ExitLeg(i, m, kind)}
    BY <2>2 DEF ExitOnly
  <2>6. ExitLeg(i, m, kind).id = i /\ ExitLeg(i, m, kind).reduce_only = TRUE
    BY DEF ExitLeg, FillRow
  <2>7. {f.reduce_only : f \in d.fills} = {TRUE}
    BY <2>5, <2>6
  <2>8. Ledger!LegsOf(kind.intent) = {TRUE}
    BY <2>1 DEF Ledger!LegsOf
  <2> QED
    BY <2>4, <2>5, <2>6, <2>7, <2>8 DEF Whole
<1>7. CASE Enters(kind)
  <2>1. PICK q \in Truncated(CashBeforeEntry(m, kind), kind.price) :
              d = WithEntry(i, m, kind, q)
    BY <1>7 DEF Executions
  <2>2. q \in 1..MaxQty
    BY DEF Truncated, Affordable
  <2>3. Entered(i, kind, q) \in Position /\ EntryLeg(i, kind, q) \in FillType
    BY <2>2, <1>5
  <2>4. PositionValue(Entered(i, kind, q)) \in Int
    BY <2>3, PositionValueType
  <2>5. d.cash \in Int
    <3>1. q * kind.price \in Int
      BY <1>1, <2>2, WalletAssumption DEF KindType
    <3>2. FeeOf(q * kind.price) \in Int
      BY <3>1, FeeType
    <3> QED
      BY <2>1, <2>4, <3>2, <1>3 DEF WithEntry
  <2>6. d.fills = {EntryLeg(i, kind, q)} \cup
                      (IF Exits(kind) THEN {ExitLeg(i, m, kind)} ELSE {})
    BY <2>1 DEF WithEntry
  <2>7. d.fills \in SUBSET FillType
    BY <2>3, <2>6, <1>4
  <2>8. d \in ExecutionType
    BY <1>1, <2>1, <2>3, <2>5, <2>7 DEF WithEntry, ExecutionType, KindType
  <2>9. /\ ExitLeg(i, m, kind).id = i /\ ExitLeg(i, m, kind).reduce_only = TRUE
        /\ EntryLeg(i, kind, q).id = i /\ EntryLeg(i, kind, q).reduce_only = FALSE
    BY DEF ExitLeg, EntryLeg, FillRow
  <2>10. {f.reduce_only : f \in d.fills} = Ledger!LegsOf(kind.intent)
    <3>1. CASE kind.intent = "reverse"
      BY <2>6, <2>9, <3>1 DEF Exits, Ledger!LegsOf
    <3>2. CASE kind.intent = "enter"
      BY <2>6, <2>9, <3>2 DEF Exits, Ledger!LegsOf
    <3> QED
      BY <1>7, <3>1, <3>2 DEF Enters
  <2> QED
    BY <2>6, <2>8, <2>9, <2>10 DEF Whole
<1> QED
  BY <1>6, <1>7

-----------------------------------------------------------------------------
(* The ledger invariant is inductive                                       *)

\* Abandoning the current message disturbs no other process's work, as long
\* as no published signal changes and no receipt is withdrawn.
LEMMA IdleKeepsWork ==
    ASSUME LedgerInv, NEW p \in Procs, Idle(p), UNCHANGED source,
           receipts' \in [SignalIds -> {"filled", "rejected", None}],
           \A i \in SignalIds : receipts[i] # None => receipts'[i] = receipts[i],
           \A i \in SignalIds : i # msg[p] \/ Claimed(p) => receipts'[i] = receipts[i]
    PROVE  /\ WorkInProgress'
           /\ ClaimsAreExclusive'
           /\ SkippedOnlyAfterReceipt'
           /\ pc' \in [Procs -> {"idle", "scan", "process", "store", "write", "record"}]
           /\ after' \in [Procs -> Nat]
           /\ todo' \in [Procs -> SUBSET SignalIds]
           /\ msg' \in [Procs -> SignalIds \cup {None}]
           /\ draft' \in [Procs -> ExecutionType \cup ReceiptTypes \cup {None}]
      /\ seen' \in [Procs -> SUBSET Position]
           /\ seen' \in [Procs -> SUBSET Position]
<1> USE DEF LedgerInv
<1>1. /\ pc' \in [Procs -> {"idle", "scan", "process", "store", "write", "record"}]
      /\ after' \in [Procs -> Nat]
      /\ todo' \in [Procs -> SUBSET SignalIds]
      /\ msg' \in [Procs -> SignalIds \cup {None}]
      /\ draft' \in [Procs -> ExecutionType \cup ReceiptTypes \cup {None}]
      /\ seen' \in [Procs -> SUBSET Position]
  BY DEF TypeOK, Idle, Become
<1>2. \A q \in Procs :
        /\ q = p => pc'[q] = "idle" /\ todo'[q] = {}
        /\ q # p => /\ pc'[q] = pc[q] /\ todo'[q] = todo[q]
                    /\ msg'[q] = msg[q] /\ draft'[q] = draft[q]
  BY DEF TypeOK, Idle, Become
<1>3. signals' = signals
  BY DEF source
<1>4. WorkInProgress'
  BY <1>2, <1>3 DEF WorkInProgress
<1>6. ClaimsAreExclusive'
  <2> SUFFICES ASSUME NEW q \in Procs, InStore(q)'
               PROVE  receipts'[msg'[q]] = None /\ ~Claimed(q)'
    BY DEF ClaimsAreExclusive
  <2>1. q # p /\ InStore(q) /\ msg'[q] = msg[q]
    BY <1>2 DEF InStore
  <2>2. receipts[msg[q]] = None /\ ~Claimed(q) /\ msg[q] \in SignalIds
    BY <2>1 DEF ClaimsAreExclusive, WorkInProgress, InStore
  <2>3. msg[q] = msg[p] => Claimed(p)
    BY <2>1 DEF Claimed
  <2>4. receipts'[msg[q]] = receipts[msg[q]]
    BY <2>2, <2>3
  <2>5. ~Claimed(q)'
    BY <1>2, <2>1, <2>2 DEF Claimed, InStore
  <2> QED
    BY <2>1, <2>2, <2>4, <2>5
<1>5. SkippedOnlyAfterReceipt'
  <2>1. ASSUME NEW q \in Procs, pc'[q] = "record"
        PROVE  /\ draft'[q] \in ReceiptTypes
               /\ draft'[q].status = "skipped" => receipts'[msg'[q]] # None
    <3>1. q # p /\ pc[q] = "record" /\ msg'[q] = msg[q] /\ draft'[q] = draft[q]
      BY <1>2, <2>1
    <3>2. msg[q] \in SignalIds
      BY <3>1 DEF WorkInProgress
    <3> QED
      BY <3>1, <3>2 DEF SkippedOnlyAfterReceipt
  <2>2. ASSUME NEW i \in SignalIds
        PROVE  receipts'[i] # "skipped"
    BY NoneIsNoKind
  <2> QED
    BY <2>1, <2>2 DEF SkippedOnlyAfterReceipt
<1> QED
  BY <1>1, <1>4, <1>5, <1>6

\* A committed execution brings its receipt, fills and snapshot together.
LEMMA CommitLedgerKeepsInv ==
    ASSUME LedgerInv, NEW p \in Procs, InStore(p),
           CommitLedger(p), Overtakes(p), Idle(p), UNCHANGED source,
           mem' \in [Procs -> Memory],
           conn' \in [Procs -> BOOLEAN], restarts' \in Nat, faults' \in Nat
    PROVE  LedgerInv'
<1> DEFINE i == msg[p]
           d == draft[p]
<1>1. i \in SignalIds /\ receipts[i] = None /\ ~Claimed(p)
  BY DEF LedgerInv, WorkInProgress, ClaimsAreExclusive, InStore
<1>2. /\ d \in ExecutionType
      /\ \A f \in d.fills : f.id = i
  BY DEF LedgerInv, WorkInProgress, InStore
<1>3. PositionValue(d.position) \in Int
  BY <1>2, PositionValueType DEF ExecutionType
<1>4. receipts' = [receipts EXCEPT ![i] = "filled"]
  BY DEF CommitLedger
<1>5. /\ receipts' \in [SignalIds -> {"filled", "rejected", None}]
      /\ \A j \in SignalIds : receipts[j] # None => receipts'[j] = receipts[j]
      /\ \A j \in SignalIds : j # i \/ Claimed(p) => receipts'[j] = receipts[j]
  BY <1>1, <1>4 DEF LedgerInv, TypeOK, SkippedOnlyAfterReceipt
<1>6. /\ WorkInProgress'
      /\ ClaimsAreExclusive'
      /\ SkippedOnlyAfterReceipt'
      /\ pc' \in [Procs -> {"idle", "scan", "process", "store", "write", "record"}]
      /\ after' \in [Procs -> Nat]
      /\ todo' \in [Procs -> SUBSET SignalIds]
      /\ msg' \in [Procs -> SignalIds \cup {None}]
      /\ draft' \in [Procs -> ExecutionType \cup ReceiptTypes \cup {None}]
      /\ seen' \in [Procs -> SUBSET Position]
  BY <1>5, IdleKeepsWork
<1>7. /\ fills' \in SUBSET FillType
      /\ positions' \in SUBSET Position
      /\ account' \in [cash : Int, equity : Int]
  BY <1>2, <1>3 DEF CommitLedger, ExecutionType, LedgerInv, TypeOK
<1>13. overtaken' \in SUBSET Procs /\ torn' \in SUBSET Symbols
  BY <1>2 DEF Overtakes, ExecutionType, LedgerInv, TypeOK
<1>8. /\ snapshots' = [snapshots EXCEPT ![i] =
                         [cash |-> d.cash, value |-> PositionValue(d.position)]]
      /\ [cash |-> d.cash, value |-> PositionValue(d.position)] \in [cash : Int, value : Int]
  BY <1>2, <1>3 DEF CommitLedger, ExecutionType
<1>9. snapshots' \in [SignalIds -> [cash : Int, value : Int] \cup {None}]
  BY <1>8 DEF LedgerInv, TypeOK
<1>10. TypeOK'
  BY <1>5, <1>6, <1>7, <1>9, <1>13 DEF LedgerInv, TypeOK, source, Memory
<1>11. FillsHaveReceipts'
  <2> SUFFICES ASSUME NEW f \in fills'
               PROVE  receipts'[f.id] = "filled"
    BY DEF FillsHaveReceipts
  <2>1. CASE f \in d.fills
    BY <1>1, <1>2, <1>4, <2>1 DEF LedgerInv, TypeOK
  <2>2. CASE f \in fills
    BY <1>4, <2>2 DEF LedgerInv, TypeOK, FillsHaveReceipts, FillType
  <2> QED
    BY <2>1, <2>2 DEF CommitLedger
<1>12. SnapshotIffFilled'
  <2> SUFFICES ASSUME NEW j \in SignalIds
               PROVE  (receipts'[j] = "filled") <=> (snapshots'[j] # None)
    BY DEF SnapshotIffFilled
  <2>1. CASE j = i
    <3>1. receipts'[j] = "filled"
      BY <1>4, <2>1 DEF LedgerInv, TypeOK
    <3>2. snapshots'[j] = [cash |-> d.cash, value |-> PositionValue(d.position)]
      BY <1>8, <2>1 DEF LedgerInv, TypeOK
    <3>3. d.cash \in Int
      BY <1>2 DEF ExecutionType
    <3>4. snapshots'[j] # None
      BY <3>2, <3>3, <1>3, SnapshotIsSome
    <3> QED
      BY <3>1, <3>4
  <2>2. CASE j # i
    BY <1>4, <1>8, <2>2 DEF LedgerInv, TypeOK, SnapshotIffFilled
  <2> QED
    BY <2>1, <2>2
<1> QED
  BY <1>6, <1>10, <1>11, <1>12 DEF LedgerInv

\* A late receipt never replaces one, and is "rejected" whenever it is new.
LEMMA CommitReceiptKeepsInv ==
    ASSUME LedgerInv, NEW p \in Procs, pc[p] = "record",
           CommitReceipt(p), Idle(p), UNCHANGED <<source, mem>>,
           conn' \in [Procs -> BOOLEAN], restarts' \in Nat, faults' \in Nat
    PROVE  LedgerInv'
<1> DEFINE i == msg[p]
<1>1. /\ i \in SignalIds
      /\ draft[p].status \in {"rejected", "skipped"}
      /\ draft[p].status = "skipped" => receipts[i] # None
  BY DEF LedgerInv, WorkInProgress, SkippedOnlyAfterReceipt, ReceiptTypes, Receipt
<1>2. receipts \in [SignalIds -> {"filled", "rejected", None}]
  BY DEF LedgerInv, TypeOK, SkippedOnlyAfterReceipt
<1>3. \A j \in SignalIds :
        receipts'[j] = IF j = i /\ receipts[i] = None THEN "rejected" ELSE receipts[j]
  BY <1>1, <1>2 DEF CommitReceipt
<1>4. /\ receipts' \in [SignalIds -> {"filled", "rejected", None}]
      /\ \A j \in SignalIds : receipts[j] # None => receipts'[j] = receipts[j]
  BY <1>1, <1>2, <1>3 DEF CommitReceipt
<1>9. \A j \in SignalIds : j # i \/ Claimed(p) => receipts'[j] = receipts[j]
  BY <1>1, <1>3 DEF CommitReceipt
<1>5. /\ WorkInProgress'
      /\ ClaimsAreExclusive'
      /\ SkippedOnlyAfterReceipt'
      /\ pc' \in [Procs -> {"idle", "scan", "process", "store", "write", "record"}]
      /\ after' \in [Procs -> Nat]
      /\ todo' \in [Procs -> SUBSET SignalIds]
      /\ msg' \in [Procs -> SignalIds \cup {None}]
      /\ draft' \in [Procs -> ExecutionType \cup ReceiptTypes \cup {None}]
      /\ seen' \in [Procs -> SUBSET Position]
  BY <1>4, <1>9, IdleKeepsWork
<1>6. TypeOK'
  BY <1>4, <1>5 DEF LedgerInv, TypeOK, CommitReceipt, source, history
<1>7. FillsHaveReceipts'
  BY <1>3, NoneIsNoKind DEF CommitReceipt, LedgerInv, TypeOK, FillsHaveReceipts, FillType
<1>8. SnapshotIffFilled'
  BY <1>3, NoneIsNoKind DEF CommitReceipt, LedgerInv, SnapshotIffFilled
<1> QED
  BY <1>5, <1>6, <1>7, <1>8 DEF LedgerInv

\* A step that leaves wallet_db and the signals alone and abandons the message.
LEMMA AbandonKeepsInv ==
    ASSUME LedgerInv, NEW p \in Procs, Idle(p), UNCHANGED <<source, db>>,
           overtaken' \subseteq overtaken, torn' = torn,
           mem' \in [Procs -> Memory],
           conn' \in [Procs -> BOOLEAN], restarts' \in Nat, faults' \in Nat
    PROVE  LedgerInv'
<1>1. /\ receipts' \in [SignalIds -> {"filled", "rejected", None}]
      /\ \A j \in SignalIds : receipts[j] # None => receipts'[j] = receipts[j]
  BY DEF LedgerInv, TypeOK, SkippedOnlyAfterReceipt, db
<1>2. /\ WorkInProgress'
      /\ ClaimsAreExclusive'
      /\ SkippedOnlyAfterReceipt'
      /\ pc' \in [Procs -> {"idle", "scan", "process", "store", "write", "record"}]
      /\ after' \in [Procs -> Nat]
      /\ todo' \in [Procs -> SUBSET SignalIds]
      /\ msg' \in [Procs -> SignalIds \cup {None}]
      /\ draft' \in [Procs -> ExecutionType \cup ReceiptTypes \cup {None}]
      /\ seen' \in [Procs -> SUBSET Position]
  BY <1>1, IdleKeepsWork DEF db
<1>3. TypeOK'
  BY <1>1, <1>2 DEF LedgerInv, TypeOK, db, source, Memory
<1>4. FillsHaveReceipts' /\ SnapshotIffFilled'
  BY DEF LedgerInv, FillsHaveReceipts, SnapshotIffFilled, db
<1> QED
  BY <1>2, <1>3, <1>4 DEF LedgerInv

\* A step that only moves one process along, if what it now works on is sound.
LEMMA OwnStepKeepsInv ==
    ASSUME LedgerInv, NEW p \in Procs,
           UNCHANGED <<source, db, mem, conn, history, bounds>>,
           pc' \in [Procs -> {"idle", "scan", "process", "store", "write", "record"}],
           after' \in [Procs -> Nat],
           todo' \in [Procs -> SUBSET SignalIds],
           msg' \in [Procs -> SignalIds \cup {None}],
           draft' \in [Procs -> ExecutionType \cup ReceiptTypes \cup {None}],
           seen' \in [Procs -> SUBSET Position],
           \A q \in Procs \ {p} :
              /\ pc'[q] = pc[q] /\ todo'[q] = todo[q]
              /\ msg'[q] = msg[q] /\ draft'[q] = draft[q],
           \A i \in todo'[p] : signals[i] # None,
           pc'[p] \in {"process", "store", "write", "record"} =>
              msg'[p] \in SignalIds /\ signals[msg'[p]] # None,
           pc'[p] = "write" =>
              /\ receipts[msg'[p]] = None
              /\ \A q \in Procs \ {p} : InStore(q) => msg[q] # msg'[p],
           pc'[p] \in {"store", "write"} =>
              /\ draft'[p] \in ExecutionType
              /\ \A f \in draft'[p].fills : f.id = msg'[p]
              /\ {f.reduce_only : f \in draft'[p].fills} =
                    Ledger!LegsOf(signals[msg'[p]].intent),
           pc'[p] = "record" =>
              /\ draft'[p] \in ReceiptTypes
              /\ draft'[p].status = "skipped" => receipts[msg'[p]] # None
    PROVE  LedgerInv'
<1>1. signals' = signals /\ receipts' = receipts /\ fills' = fills /\ snapshots' = snapshots
  BY DEF source, db
<1>2. TypeOK'
  BY DEF LedgerInv, TypeOK, source, db, history, bounds
<1>6. ClaimsAreExclusive'
  <2> SUFFICES ASSUME NEW q \in Procs, InStore(q)'
               PROVE  receipts[msg'[q]] = None /\ ~Claimed(q)'
    BY <1>1 DEF ClaimsAreExclusive
  <2>1. CASE q = p
    BY <2>1 DEF InStore, Claimed
  <2>2. CASE q # p
    <3>1. InStore(q) /\ msg'[q] = msg[q]
      BY <2>2 DEF InStore
    <3>2. receipts[msg[q]] = None /\ ~Claimed(q)
      BY <3>1 DEF LedgerInv, ClaimsAreExclusive
    <3> QED
      BY <2>2, <3>1, <3>2 DEF InStore, Claimed
  <2> QED
    BY <2>1, <2>2
<1>3. WorkInProgress'
  <2> SUFFICES ASSUME NEW q \in Procs
               PROVE  /\ \A i \in todo'[q] : signals[i] # None
                      /\ pc'[q] \in {"process", "store", "write", "record"} =>
                            msg'[q] \in SignalIds /\ signals[msg'[q]] # None
                      /\ pc'[q] \in {"store", "write"} =>
                            /\ draft'[q] \in ExecutionType
                            /\ \A f \in draft'[q].fills : f.id = msg'[q]
                            /\ {f.reduce_only : f \in draft'[q].fills} =
                                  Ledger!LegsOf(signals[msg'[q]].intent)
    BY <1>1 DEF WorkInProgress
  <2>1. CASE q = p
    BY <2>1
  <2>2. CASE q # p
    BY <2>2 DEF LedgerInv, WorkInProgress
  <2> QED
    BY <2>1, <2>2
<1>4. SkippedOnlyAfterReceipt'
  BY <1>1 DEF LedgerInv, SkippedOnlyAfterReceipt
<1>5. FillsHaveReceipts' /\ SnapshotIffFilled'
  BY <1>1 DEF LedgerInv, FillsHaveReceipts, SnapshotIffFilled
<1> QED
  BY <1>2, <1>3, <1>4, <1>5, <1>6 DEF LedgerInv

\* The queue only ever hands published signals to its process.
LEMMA ScanKeepsInv ==
    ASSUME LedgerInv, NEW p \in Procs,
           \/ ReceiveBegin(p)
           \/ ReadPage(p)
           \/ \E i \in SignalIds : AssembleReady(p, i) \/ AssembleNotReady(p, i)
    PROVE  LedgerInv'
<1> USE DEF LedgerInv
<1>1. CASE ReceiveBegin(p)
  <2>1. /\ pc' = [pc EXCEPT ![p] = "scan"]
        /\ UNCHANGED <<after, todo, msg, draft, seen>>
        /\ UNCHANGED <<source, db, mem, conn, history, bounds>>
    BY <1>1 DEF ReceiveBegin, Become
  <2>2. pc'[p] = "scan" /\ \A q \in Procs \ {p} : pc'[q] = pc[q]
    BY <2>1 DEF TypeOK
  <2>3. \A i \in todo[p] : signals[i] # None
    BY DEF WorkInProgress
  <2>4. pc' \in [Procs -> {"idle", "scan", "process", "store", "write", "record"}]
    BY <2>1 DEF TypeOK
  <2> HIDE DEF LedgerInv
  <2> QED
    BY <2>1, <2>2, <2>3, <2>4, OwnStepKeepsInv DEF LedgerInv, TypeOK
<1>2. CASE ReadPage(p)
  <2>1. PICK last \in Page(after[p]) : after' = [after EXCEPT ![p] = last]
    BY <1>2 DEF ReadPage
  <2>2. last \in Nat
    BY <2>1, WalletAssumption DEF Page, Visible
  <2>3. todo' = [todo EXCEPT ![p] = {i \in Page(after[p]) : receipts[i] = None}]
    BY <1>2 DEF ReadPage
  <2>4. \A i \in Page(after[p]) : i \in SignalIds /\ signals[i] # None
    BY DEF Page, Visible
  <2> HIDE DEF LedgerInv
  <2>5. /\ pc' = pc /\ msg' = msg /\ draft' = draft /\ seen' = seen
        /\ pc[p] = "scan"
        /\ UNCHANGED <<source, db, mem, conn, history, bounds>>
    BY <1>2 DEF ReadPage
  <2>6. after' \in [Procs -> Nat] /\ todo' \in [Procs -> SUBSET SignalIds]
    BY <2>1, <2>2, <2>3, <2>4 DEF TypeOK, LedgerInv
  <2>7. /\ \A i \in todo'[p] : signals[i] # None
        /\ \A q \in Procs \ {p} : todo'[q] = todo[q]
    BY <2>3, <2>4 DEF TypeOK, LedgerInv
  <2> QED
    BY <2>5, <2>6, <2>7, OwnStepKeepsInv DEF TypeOK, LedgerInv
<1>3. ASSUME NEW i \in SignalIds, AssembleReady(p, i)
      PROVE  LedgerInv'
  <2>1. signals[i] # None
    BY <1>3 DEF AssembleReady, IsNext, WorkInProgress
  <2>2. /\ pc' = [pc EXCEPT ![p] = "process"]
        /\ after' = [after EXCEPT ![p] = 0]
        /\ todo' = [todo EXCEPT ![p] = {}]
        /\ msg' = [msg EXCEPT ![p] = i]
        /\ draft' = draft /\ seen' = seen
        /\ UNCHANGED <<source, db, mem, conn, history, bounds>>
    BY <1>3 DEF AssembleReady, Become
  <2>3. /\ pc'[p] = "process" /\ todo'[p] = {} /\ msg'[p] = i
        /\ \A q \in Procs \ {p} :
              pc'[q] = pc[q] /\ todo'[q] = todo[q] /\ msg'[q] = msg[q]
        /\ pc' \in [Procs -> {"idle", "scan", "process", "store", "write", "record"}]
        /\ after' \in [Procs -> Nat]
        /\ todo' \in [Procs -> SUBSET SignalIds]
        /\ msg' \in [Procs -> SignalIds \cup {None}]
    BY <2>2 DEF TypeOK
  <2> HIDE DEF LedgerInv
  <2> QED
    BY <2>1, <2>2, <2>3, OwnStepKeepsInv DEF LedgerInv, TypeOK
<1>4. ASSUME NEW i \in SignalIds, AssembleNotReady(p, i)
      PROVE  LedgerInv'
  <2>1. /\ pc[p] = "scan"
        /\ todo' = [todo EXCEPT ![p] = @ \ {i}]
        /\ UNCHANGED <<pc, after, msg, draft, seen>>
        /\ UNCHANGED <<source, db, mem, conn, history, bounds>>
    BY <1>4 DEF AssembleNotReady
  <2>2. /\ \A j \in todo'[p] : signals[j] # None
        /\ \A q \in Procs \ {p} : todo'[q] = todo[q]
        /\ todo' \in [Procs -> SUBSET SignalIds]
    BY <2>1 DEF TypeOK, WorkInProgress
  <2> HIDE DEF LedgerInv
  <2> QED
    BY <2>1, <2>2, OwnStepKeepsInv DEF LedgerInv, TypeOK
<1> QED
  BY <1>1, <1>2, <1>3, <1>4

\* What process() drafts belongs to the message and is whole.
LEMMA ProcessKeepsInv ==
    ASSUME LedgerInv, NEW p \in Procs,
           ProcessRejected(p) \/ ProcessExecuted(p) \/ StoreReplays(p) \/ StoreDeletes(p)
    PROVE  LedgerInv'
<1>1. pc[p] \in {"process", "store"} /\ msg[p] \in SignalIds /\ signals[msg[p]] # None
  BY DEF LedgerInv, WorkInProgress, ProcessRejected, ProcessExecuted, StoreReplays,
         StoreDeletes
<1>2. signals[msg[p]] \in SignalKinds /\ mem[p] \in Memory
  BY <1>1 DEF LedgerInv, TypeOK, Memory
<1>3. CASE ProcessRejected(p)
  <2>1. Receipt("rejected") \in ReceiptTypes /\ Receipt("rejected").status = "rejected"
    BY DEF ReceiptTypes, Receipt
  <2> QED
    BY <1>1, <1>3, <2>1, OwnStepKeepsInv
    DEF LedgerInv, ProcessRejected, Become, TypeOK, WorkInProgress
<1>4. CASE ProcessExecuted(p)
  <2>1. ~RefusedAtOnce(mem[p], signals[msg[p]])
    BY <1>4 DEF ProcessExecuted, Rejected
  <2>2. PICK d \in Executions(msg[p], mem[p], signals[msg[p]]) :
              draft' = [draft EXCEPT ![p] = d]
    BY <1>4 DEF ProcessExecuted
  <2>3. /\ d \in ExecutionType
        /\ \A f \in d.fills : f.id = msg[p]
        /\ {f.reduce_only : f \in d.fills} = Ledger!LegsOf(signals[msg[p]].intent)
    <3>1. Whole(d, msg[p], signals[msg[p]])
      BY <1>1, <1>2, <2>1, ExecutionsAreWhole
    <3> QED
      BY <3>1 DEF Whole
  <2>4. /\ pc' = [pc EXCEPT ![p] = "store"]
        /\ UNCHANGED <<after, todo, msg, seen>>
        /\ UNCHANGED <<source, db, mem, conn, history, bounds>>
    BY <1>4 DEF ProcessExecuted, Become
  <2>5. /\ pc'[p] = "store" /\ draft'[p] = d
        /\ \A q \in Procs \ {p} : pc'[q] = pc[q] /\ draft'[q] = draft[q]
        /\ pc' \in [Procs -> {"idle", "scan", "process", "store", "write", "record"}]
        /\ draft' \in [Procs -> ExecutionType \cup ReceiptTypes \cup {None}]
      /\ seen' \in [Procs -> SUBSET Position]
    BY <2>2, <2>3, <2>4 DEF LedgerInv, TypeOK
  <2>6. \A i \in todo[p] : signals[i] # None
    BY DEF LedgerInv, WorkInProgress
  <2> QED
    BY <1>1, <2>3, <2>4, <2>5, <2>6, OwnStepKeepsInv DEF LedgerInv, TypeOK
<1>5. CASE StoreReplays(p)
  <2>1. Receipt("skipped") \in ReceiptTypes
    BY DEF ReceiptTypes
  <2>2. receipts[msg[p]] # None
    <3>1. Replayed(p) /\ pc[p] = "store"
      BY <1>5 DEF StoreReplays
    <3>2. ASSUME NEW f \in draft[p].fills, NEW g \in fills, f.id = g.id
          PROVE  receipts[msg[p]] # None
      <4>1. g.id = msg[p]
        BY <3>1, <3>2 DEF LedgerInv, WorkInProgress
      <4> QED
        BY <4>1, NoneIsNoKind DEF LedgerInv, FillsHaveReceipts
    <3> QED
      BY <3>1, <3>2 DEF Replayed
  <2> QED
    BY <1>1, <1>5, <2>1, <2>2, OwnStepKeepsInv
    DEF LedgerInv, StoreReplays, Become, TypeOK, WorkInProgress
<1>6. CASE StoreDeletes(p)
  <2>1. /\ pc[p] = "store" /\ receipts[msg[p]] = None /\ ~Claimed(p)
        /\ pc' = [pc EXCEPT ![p] = "write"]
        /\ seen' = [seen EXCEPT ![p] = {r \in positions : r.symbol = draft[p].symbol}]
        /\ UNCHANGED <<after, todo, msg, draft>>
        /\ UNCHANGED <<source, db, mem, conn, history, bounds>>
    BY <1>6 DEF StoreDeletes, Replayed, Become
  <2>2. \A q \in Procs \ {p} : InStore(q) => msg[q] # msg[p]
    BY <2>1 DEF Claimed
  <2>3. /\ pc'[p] = "write" /\ \A q \in Procs \ {p} : pc'[q] = pc[q]
        /\ pc' \in [Procs -> {"idle", "scan", "process", "store", "write", "record"}]
        /\ seen' \in [Procs -> SUBSET Position]
    BY <2>1 DEF LedgerInv, TypeOK
  <2>4. /\ \A i \in todo[p] : signals[i] # None
        /\ draft[p] \in ExecutionType
        /\ \A f \in draft[p].fills : f.id = msg[p]
        /\ {f.reduce_only : f \in draft[p].fills} =
              Ledger!LegsOf(signals[msg[p]].intent)
    BY <2>1 DEF LedgerInv, WorkInProgress
  <2>5. /\ after' \in [Procs -> Nat]
        /\ todo' \in [Procs -> SUBSET SignalIds]
        /\ msg' \in [Procs -> SignalIds \cup {None}]
        /\ draft' \in [Procs -> ExecutionType \cup ReceiptTypes \cup {None}]
    BY <2>1 DEF LedgerInv, TypeOK
  <2> QED
    BY <1>1, <2>1, <2>2, <2>3, <2>4, <2>5, OwnStepKeepsInv
<1> QED
  BY <1>3, <1>4, <1>5, <1>6

\* Signals are published once and never withdrawn, so nobody's work is lost.
LEMMA SourcesKeepInv ==
    ASSUME LedgerInv,
           NEW i \in SignalIds,
           (\E kind \in SignalKinds : Publish(i, kind)) \/ CandlesComplete(i)
    PROVE  LedgerInv'
<1>1. /\ UNCHANGED <<db, proc, mem, conn, history, bounds>>
      /\ signals' \in [SignalIds -> SignalKinds \cup {None}]
      /\ ready' \in SUBSET SignalIds
      /\ \A j \in SignalIds : signals[j] # None => signals'[j] = signals[j]
  BY DEF Publish, CandlesComplete, LedgerInv, TypeOK
<1>2. TypeOK'
  BY <1>1 DEF LedgerInv, TypeOK, db, proc, history, bounds
<1>3. WorkInProgress'
  <2>1. UNCHANGED <<pc, todo, msg, draft>>
    BY <1>1 DEF proc
  <2>2. \A p \in Procs : \A j \in todo[p] : j \in SignalIds
    BY DEF LedgerInv, TypeOK
  <2> QED
    BY <1>1, <2>1, <2>2 DEF LedgerInv, WorkInProgress
<1>5. ClaimsAreExclusive'
  BY <1>1 DEF LedgerInv, ClaimsAreExclusive, Claimed, InStore, db, proc
<1>4. SkippedOnlyAfterReceipt' /\ FillsHaveReceipts' /\ SnapshotIffFilled'
  BY <1>1 DEF LedgerInv, SkippedOnlyAfterReceipt, FillsHaveReceipts, SnapshotIffFilled, db, proc
<1> QED
  BY <1>2, <1>3, <1>4, <1>5 DEF LedgerInv

\* Initially nothing is published, in progress or stored.
LEMMA InitEstablishesInv == Init => LedgerInv
<1> SUFFICES ASSUME Init
             PROVE  LedgerInv
  OBVIOUS
<1>1. TypeOK
  BY WalletAssumption DEF Init, TypeOK, FreshMemory
<1>2. WorkInProgress
  BY DEF Init, WorkInProgress
<1>6. ClaimsAreExclusive
  BY DEF Init, ClaimsAreExclusive, InStore
<1>3. SkippedOnlyAfterReceipt
  BY NoneIsNoKind DEF Init, SkippedOnlyAfterReceipt
<1>4. FillsHaveReceipts
  BY DEF Init, FillsHaveReceipts
<1>5. SnapshotIffFilled
  BY NoneIsNoKind DEF Init, SnapshotIffFilled
<1> QED
  BY <1>1, <1>2, <1>3, <1>4, <1>5, <1>6 DEF LedgerInv

\* The inductive step, action by action.
LEMMA NextKeepsInv == LedgerInv /\ [Next]_vars => LedgerInv'
<1> SUFFICES ASSUME LedgerInv, [Next]_vars
             PROVE  LedgerInv'
  OBVIOUS
<1>1. CASE UNCHANGED vars
  BY <1>1 DEF LedgerInv, TypeOK, WorkInProgress, ClaimsAreExclusive, Claimed, InStore,
              SkippedOnlyAfterReceipt, FillsHaveReceipts, SnapshotIffFilled,
              vars, source, db, proc, history, bounds
<1>2. ASSUME NEW p \in Procs, RunOnce(p)
      PROVE  LedgerInv'
  <2> USE <1>2
  <2>0. /\ mem \in [Procs -> Memory] /\ conn \in [Procs -> BOOLEAN]
        /\ restarts \in Nat /\ faults \in Nat
    BY DEF LedgerInv, TypeOK, Memory
  <2>1. CASE \/ ReceiveBegin(p) \/ ReadPage(p)
             \/ \E i \in SignalIds : AssembleReady(p, i) \/ AssembleNotReady(p, i)
    BY <2>1, ScanKeepsInv
  <2>2. CASE ReadExhausted(p)
    BY <2>0, <2>2, AbandonKeepsInv DEF ReadExhausted, bounds, history
  <2>3. CASE ProcessRejected(p) \/ ProcessExecuted(p) \/ StoreReplays(p) \/ StoreDeletes(p)
    BY <2>3, ProcessKeepsInv
  <2>4. CASE ProcessFails(p)
    BY <2>0, <2>4, AbandonKeepsInv DEF ProcessFails, bounds, history
  <2>5. CASE StoreCommits(p)
    <3>1. draft[p] \in ExecutionType
      BY <2>5 DEF StoreCommits, LedgerInv, WorkInProgress, InStore
    <3>2. mem' \in [Procs -> Memory]
      <4>1. draft[p].cash \in Int /\ draft[p].position \in Position \cup {None}
        BY <3>1 DEF ExecutionType
      <4>2. mem' = [mem EXCEPT ![p].cash = draft[p].cash,
                               ![p].position = draft[p].position]
        BY <2>5 DEF StoreCommits
      <4> QED
        BY <2>0, <4>1, <4>2 DEF Memory
    <3> QED
      BY <2>0, <2>5, <3>2, CommitLedgerKeepsInv DEF StoreCommits, bounds
  <2>6. CASE RecordCommits(p)
    BY <2>0, <2>6, CommitReceiptKeepsInv DEF RecordCommits, bounds
  <2>7. CASE DatabaseUnreachable(p)
    BY <2>0, <2>7, AbandonKeepsInv DEF DatabaseUnreachable, RollsBack, bounds
  <2>8. CASE StoreCollides(p)
    BY <2>0, <2>8, AbandonKeepsInv DEF StoreCollides, RollsBack, bounds
  <2> QED
    BY <2>1, <2>2, <2>3, <2>4, <2>5, <2>6, <2>7, <2>8 DEF RunOnce
<1>3. ASSUME NEW p \in Procs, Environment(p)
      PROVE  LedgerInv'
  <2> USE <1>3
  <2>0. /\ mem \in [Procs -> Memory] /\ conn \in [Procs -> BOOLEAN]
        /\ restarts \in Nat /\ faults \in Nat
    BY DEF LedgerInv, TypeOK, Memory
  <2>1. CASE DatabaseRefuses(p)
    BY <2>0, <2>1, AbandonKeepsInv DEF DatabaseRefuses, RollsBack
  <2>2. CASE AcknowledgementLost(p)
    <3>1. /\ conn' \in [Procs -> BOOLEAN] /\ faults' \in Nat /\ restarts' \in Nat
          /\ mem' = mem /\ UNCHANGED source /\ Idle(p)
      BY <2>0, <2>2 DEF AcknowledgementLost
    <3>2. CASE InStore(p) /\ CommitLedger(p) /\ Overtakes(p)
      BY <2>0, <3>1, <3>2, CommitLedgerKeepsInv
    <3>3. CASE pc[p] = "record" /\ CommitReceipt(p)
      BY <3>1, <3>3, CommitReceiptKeepsInv
    <3> QED
      BY <2>2, <3>2, <3>3 DEF AcknowledgementLost
  <2>3. CASE Restart(p)
    <3>1. FreshMemory \in Memory
      BY WalletAssumption DEF FreshMemory, Memory
    <3> QED
      BY <2>0, <2>3, <3>1, AbandonKeepsInv DEF Restart, RollsBack
  <2>4. CASE EngageKillSwitch(p)
    <3>1. mem' \in [Procs -> Memory] /\ UNCHANGED <<source, db, proc, conn, history, bounds>>
      BY <2>0, <2>4 DEF EngageKillSwitch, Memory
    <3>2. TypeOK'
      BY <3>1 DEF LedgerInv, TypeOK, source, db, proc, history, bounds, Memory
    <3> QED
      BY <3>1, <3>2 DEF LedgerInv, WorkInProgress, ClaimsAreExclusive, Claimed, InStore,
                        SkippedOnlyAfterReceipt, FillsHaveReceipts, SnapshotIffFilled,
                        source, db, proc
  <2> QED
    BY <2>1, <2>2, <2>3, <2>4 DEF Environment
<1>4. CASE Sources
  BY <1>4, SourcesKeepInv DEF Sources
<1> QED
  BY <1>1, <1>2, <1>3, <1>4 DEF Next

\* wallet_db stays consistent for any number of rival processes, crashes,
\* refused statements and lost acknowledgements: a snapshot stands exactly
\* where a receipt says filled, no fill lacks its receipt, and "skipped"
\* never reaches the receipts table.
THEOREM LedgerInvariant == Spec => []LedgerInv
<1>1. Init => LedgerInv
  BY InitEstablishesInv
<1>2. LedgerInv /\ [Next]_vars => LedgerInv'
  BY NextKeepsInv
<1> QED
  BY <1>1, <1>2, PTL DEF Spec

-----------------------------------------------------------------------------
(* wallet_db implements PaperLedger                                        *)

Legs == [i \in SignalIds |-> {f.reduce_only : f \in {g \in fills : g.id = i}}]

\* A committed execution is the abstract Fill: the signal had no leg before.
LEMMA CommitLedgerFills ==
    ASSUME LedgerInv, NEW p \in Procs, InStore(p),
           CommitLedger(p), UNCHANGED source,
           NEW i \in SignalIds, i = msg[p]
    PROVE  Ledger!Fill(i)
<1> DEFINE d == draft[p]
<1>1. /\ signals[i] # None /\ receipts[i] = None
      /\ \A f \in d.fills : f.id = i
      /\ {f.reduce_only : f \in d.fills} = Ledger!LegsOf(signals[i].intent)
  BY DEF LedgerInv, WorkInProgress, ClaimsAreExclusive, InStore
<1>2. receipts' = [receipts EXCEPT ![i] = "filled"] /\ fills' = fills \cup d.fills
  BY DEF CommitLedger
<1>3. \A f \in fills : f.id # i
  BY <1>1, NoneIsNoKind DEF LedgerInv, FillsHaveReceipts
<1>4. {g \in fills' : g.id = i} = d.fills
  BY <1>1, <1>2, <1>3
<1>5. \A j \in SignalIds \ {i} : {g \in fills' : g.id = j} = {g \in fills : g.id = j}
  BY <1>1, <1>2
<1>6. Legs'[i] = Ledger!LegsOf(signals[i].intent)
  BY <1>1, <1>4 DEF Legs
<1>7. \A j \in SignalIds \ {i} : Legs'[j] = Legs[j]
  BY <1>5 DEF Legs
<1>8. Legs' = [Legs EXCEPT ![i] = Ledger!LegsOf(signals[i].intent)]
  BY <1>1, <1>6, <1>7 DEF Legs
<1> HIDE DEF d
<1> QED
  BY <1>1, <1>2, <1>8 DEF Ledger!Fill, Legs, source

\* A receipt recorded on its own is the abstract Reject, or changes nothing.
LEMMA CommitReceiptRejects ==
    ASSUME LedgerInv, NEW p \in Procs, pc[p] = "record",
           CommitReceipt(p), UNCHANGED source,
           NEW i \in SignalIds, i = msg[p]
    PROVE  Ledger!Reject(i) \/ UNCHANGED Ledger!vars
<1>1. /\ signals[i] # None
      /\ draft[p].status \in {"rejected", "skipped"}
      /\ draft[p].status = "skipped" => receipts[i] # None
  BY DEF LedgerInv, WorkInProgress, SkippedOnlyAfterReceipt, ReceiptTypes, Receipt
<1>2. receipts \in [SignalIds -> {"filled", "rejected", "skipped", None}]
  BY DEF LedgerInv, TypeOK
<1>3. fills' = fills /\ signals' = signals /\ Legs' = Legs
  BY DEF CommitReceipt, source, Legs
<1>4. CASE receipts[i] = None
  <2>1. receipts' = [receipts EXCEPT ![i] = "rejected"]
    BY <1>1, <1>2, <1>4 DEF CommitReceipt
  <2> QED
    BY <1>1, <1>3, <1>4, <2>1 DEF Ledger!Reject, Legs
<1>5. CASE receipts[i] # None
  <2>1. receipts' = receipts
    BY <1>1, <1>2, <1>5 DEF CommitReceipt
  <2> QED
    BY <1>3, <2>1 DEF Ledger!vars, Legs
<1> QED
  BY <1>4, <1>5

\* Every step of the wallet's processes and of their surroundings is a step
\* of the ledger, or leaves it as it is.
LEMMA NextRefines == LedgerInv /\ [Next]_vars => [Ledger!Next]_(Ledger!vars)
<1> SUFFICES ASSUME LedgerInv, [Next]_vars
             PROVE  Ledger!Next \/ UNCHANGED Ledger!vars
  OBVIOUS
<1>0. ASSUME UNCHANGED <<signals, receipts, fills>>
      PROVE  UNCHANGED Ledger!vars
  BY <1>0 DEF Ledger!vars
<1>1. CASE UNCHANGED vars
  BY <1>0, <1>1 DEF vars, source, db
<1>2. ASSUME NEW p \in Procs, RunOnce(p)
      PROVE  Ledger!Next \/ UNCHANGED Ledger!vars
  <2> USE <1>2
  <2>1. CASE StoreCommits(p)
    <3>1. PICK i \in SignalIds : i = msg[p]
      BY <2>1 DEF LedgerInv, WorkInProgress, StoreCommits, InStore
    <3>2. Ledger!Fill(i)
      BY <2>1, <3>1, CommitLedgerFills DEF StoreCommits
    <3> QED
      BY <3>1, <3>2 DEF Ledger!Next
  <2>2. CASE RecordCommits(p)
    <3>1. PICK i \in SignalIds : i = msg[p]
      BY <2>2 DEF LedgerInv, WorkInProgress, RecordCommits
    <3>2. Ledger!Reject(i) \/ UNCHANGED Ledger!vars
      BY <2>2, <3>1, CommitReceiptRejects DEF RecordCommits
    <3> QED
      BY <3>1, <3>2 DEF Ledger!Next
  <2>3. CASE ~StoreCommits(p) /\ ~RecordCommits(p)
    <3>1. UNCHANGED <<source, db>>
      BY <2>3 DEF RunOnce, ReceiveBegin, ReadPage, ReadExhausted, AssembleReady,
                  AssembleNotReady, ProcessRejected, ProcessFails,
                  ProcessExecuted, StoreDeletes, StoreCollides, StoreReplays,
                  DatabaseUnreachable, RollsBack
    <3> QED
      BY <1>0, <3>1 DEF source, db
  <2> QED
    BY <2>1, <2>2, <2>3
<1>3. ASSUME NEW p \in Procs, Environment(p)
      PROVE  Ledger!Next \/ UNCHANGED Ledger!vars
  <2> USE <1>3
  <2>1. CASE AcknowledgementLost(p)
    <3>1. PICK i \in SignalIds : i = msg[p]
      BY <2>1 DEF LedgerInv, WorkInProgress, AcknowledgementLost, InStore
    <3>0. UNCHANGED source
      BY <2>1 DEF AcknowledgementLost
    <3>2. CASE InStore(p) /\ CommitLedger(p)
      <4>1. Ledger!Fill(i)
        BY <3>0, <3>1, <3>2, CommitLedgerFills
      <4> QED
        BY <4>1 DEF Ledger!Next
    <3>3. CASE pc[p] = "record" /\ CommitReceipt(p)
      <4>1. Ledger!Reject(i) \/ UNCHANGED Ledger!vars
        BY <3>0, <3>1, <3>3, CommitReceiptRejects
      <4> QED
        BY <4>1 DEF Ledger!Next
    <3> QED
      BY <2>1, <3>2, <3>3 DEF AcknowledgementLost
  <2>2. CASE ~AcknowledgementLost(p)
    <3>1. UNCHANGED <<source, db>>
      BY <2>2 DEF Environment, DatabaseRefuses, RollsBack, Restart, EngageKillSwitch
    <3> QED
      BY <1>0, <3>1 DEF source, db
  <2> QED
    BY <2>1, <2>2
<1>4. CASE Sources
  <2>1. PICK i \in SignalIds :
              (\E kind \in SignalKinds : Publish(i, kind)) \/ CandlesComplete(i)
    BY <1>4 DEF Sources
  <2>2. CASE CandlesComplete(i)
    BY <1>0, <2>2 DEF CandlesComplete, db
  <2>3. ASSUME NEW kind \in SignalKinds, Publish(i, kind)
        PROVE  Ledger!Next
    <3>1. Ledger!Publish(i, kind)
      BY <2>3 DEF Publish, Ledger!Publish, db
    <3> QED
      BY <3>1 DEF Ledger!Next
  <2> QED
    BY <2>1, <2>2, <2>3
<1> QED
  BY <1>1, <1>2, <1>3, <1>4 DEF Next

\* The wallet implements the ledger: whatever the processes of a wallet do,
\* a signal's receipt and legs appear together, once, and never change again.
THEOREM WalletImplementsLedger == Spec => ImplementsLedger
<1>1. Init => Ledger!Init
  BY DEF Init, Ledger!Init
<1>2. LedgerInv /\ [Next]_vars => [Ledger!Next]_(Ledger!vars)
  BY NextRefines
<1> QED
  BY <1>1, <1>2, LedgerInvariant, PTL DEF Spec, Ledger!Spec, ImplementsLedger

-----------------------------------------------------------------------------
(* What a fee is, as a rate of at most the notional                        *)

\* A quotient is bounded by any multiple of the divisor above the dividend.
LEMMA QuotientBound ==
    ASSUME NEW u \in Nat \ {0}, NEW a \in Int, NEW k \in Int, a < u * k + u
    PROVE  a \div u <= k
<1> DEFINE q == a \div u
<1>1. q \in Int /\ u * q <= a
  OBVIOUS
<1> HIDE DEF q
<1>2. ASSUME q >= k + 1 PROVE FALSE
  <2>1. u * (q - (k + 1)) >= 0
    BY <1>1, <1>2
  <2>2. u * (q - (k + 1)) = u * q - (u * k + u)
    BY <1>1
  <2>3. u * q \in Int /\ u * k \in Int
    BY <1>1
  <2> QED
    BY <1>1, <2>1, <2>2, <2>3
<1>3. q <= k
  BY <1>1, <1>2
<1> QED
  BY <1>3 DEF q

\* And the dividend by the next multiple above the quotient.
LEMMA DividendBound ==
    ASSUME NEW u \in Nat \ {0}, NEW a \in Int
    PROVE  a \div u \in Int /\ a < u * (a \div u) + u
OBVIOUS

\* A higher notional never costs more in fees than it is higher.
LEMMA FeeGrowsLess ==
    ASSUME NEW n \in Nat, NEW d \in Nat
    PROVE  /\ FeeOf(n + d) <= FeeOf(n) + d
           /\ FeeOf(n) <= FeeOf(n + d)
           /\ FeeOf(n) \in Nat
<1> DEFINE u == FeeUnit
           r == FeeRate
           q == FeeOf(n)
           k == FeeOf(n + d)
<1>1. u \in Nat \ {0} /\ r \in Nat /\ r <= u
  BY WalletAssumption
<1>2. q = (n * r) \div u /\ k = ((n + d) * r) \div u
  BY DEF FeeOf
<1> HIDE DEF u, r, q, k
<1>3. n * r \in Nat /\ d * r \in Nat /\ (n + d) * r = n * r + d * r
  BY <1>1
<1>4. q \in Int /\ n * r < u * q + u
  BY <1>1, <1>2, <1>3, DividendBound
<1>5. k \in Int /\ (n + d) * r < u * k + u
  <2>1. (n + d) * r \in Int
    BY <1>3
  <2> QED
    BY <1>1, <1>2, <2>1, DividendBound
<1>6. d * r <= u * d
  <2>1. d * (u - r) >= 0
    BY <1>1
  <2>2. d * (u - r) = u * d - d * r
    BY <1>1
  <2>3. u * d \in Int
    BY <1>1
  <2> QED
    BY <1>3, <2>1, <2>2, <2>3
<1>7. k <= q + d
  <2>1. u * (q + d) = u * q + u * d /\ u * q \in Int /\ u * d \in Int
    BY <1>1, <1>4
  <2>2. (n + d) * r < u * (q + d) + u
    BY <1>1, <1>3, <1>4, <1>6, <2>1
  <2>3. q + d \in Int /\ (n + d) * r \in Int
    BY <1>3, <1>4
  <2>4. ((n + d) * r) \div u <= q + d
    BY <1>1, <2>2, <2>3, QuotientBound
  <2> QED
    BY <1>2, <2>4
<1>8. q <= k
  <2>1. n * r < u * k + u
    <3>1. u * k \in Int
      BY <1>1, <1>5
    <3> QED
      BY <1>1, <1>3, <1>5, <3>1
  <2>2. (n * r) \div u <= k
    BY <1>1, <1>3, <1>5, <2>1, QuotientBound
  <2> QED
    BY <1>2, <2>2
<1>9. q >= 0
  BY <1>1, <1>2, <1>3
<1> QED
  BY <1>4, <1>7, <1>8, <1>9 DEF q, k

-----------------------------------------------------------------------------
(* Positions: the table and the memory of the processes                    *)

\* The cash held beside a position covers the fee on the notional of its entry.
SetsAside(cash, x) == x # None => cash >= FeeOf(x.qty * x.price)

\* What an execution that leaves a position must satisfy before it is stored.
SoundDraft(d) ==
    /\ d.position # None => d.position.symbol = d.symbol
    /\ SetsAside(d.cash, d.position)

\* Nothing but an overtaken process has rows of its symbol still to find.
RowsAreSeen ==
    \A p \in Procs :
        InStore(p) /\ p \notin overtaken =>
            \A r \in positions : r.symbol = draft[p].symbol => r \in seen[p]

\* The strengthening of RowsMultiplyOnlyInRaces that is inductive, with the
\* half of ExitFeeReserved that its other half follows from.
PositionsInv ==
    /\ RowsMultiplyOnlyInRaces
    /\ RowsAreSeen
    /\ \A p \in Procs : SetsAside(mem[p].cash, mem[p].position)
    /\ \A p \in Procs : pc[p] \in {"store", "write"} => SoundDraft(draft[p])
    /\ \A p \in Procs : InStore(p) =>
          \A r \in seen[p] : r.symbol = draft[p].symbol

\* The truncation to what the cash affords leaves the fee of an exit at the
\* entry's notional (matcher._entry_cash_requirement), for any rate, leverage
\* and price.
LEMMA ExecutionsAreSound ==
    ASSUME NEW i \in SignalIds, NEW m \in Memory, NEW kind \in SignalKinds,
           ~RefusedAtOnce(m, kind),
           NEW d \in Executions(i, m, kind)
    PROVE  SoundDraft(d)
<1>1. kind \in KindType
  BY WalletAssumption
<1>2. CASE ~Enters(kind)
  BY <1>2 DEF Executions, ExitOnly, SoundDraft, SetsAside
<1>3. CASE Enters(kind)
  <2> DEFINE cash == CashBeforeEntry(m, kind)
             fee(q) == FeeOf(q * kind.price)
  <2>1. PICK q \in Truncated(cash, kind.price) : d = WithEntry(i, m, kind, q)
    BY <1>3 DEF Executions
  <2>2. q \in 1..MaxQty /\ Margin(q, kind.price) + fee(q) + fee(q) <= cash
    BY <2>1 DEF Truncated, Affordable
  <2>3. /\ d.position = Entered(i, kind, q) /\ d.symbol = kind.symbol
        /\ d.cash = cash - PositionValue(Entered(i, kind, q)) - fee(q)
    BY <2>1 DEF WithEntry
  <2>4. Entered(i, kind, q).qty = q /\ Entered(i, kind, q).price = kind.price
        /\ Entered(i, kind, q).symbol = kind.symbol
    BY DEF Entered
  <2>5. cash \in Int
    <3>1. Exits(kind) => m.position # None
      BY DEF RefusedAtOnce, HasPositionIn
    <3> QED
      BY <1>1, <3>1, CashAfterExitType DEF CashBeforeEntry, KindType, Memory
  <2>6. Margin(q, kind.price) \in Int /\ q * kind.price \in Nat
    <3>1. q \in Nat /\ kind.price \in Nat
      BY <1>1, <2>2, WalletAssumption DEF KindType
    <3>2. q * kind.price \in Nat
      BY <3>1
    <3>3. q \in Int /\ kind.price \in Int
      BY <3>1
    <3>4. Margin(q, kind.price) \in Int
      BY <3>3, MarginType
    <3> QED
      BY <3>2, <3>4
  <2>7. PositionValue(Entered(i, kind, q)) \in {0, Margin(q, kind.price)}
    BY <2>4 DEF PositionValue
  <2>8. Margin(q, kind.price) >= 0
    BY <2>6, WalletAssumption DEF Margin
  <2>9. fee(q) \in Int
    BY <2>6, FeeType
  <2>10. SetsAside(d.cash, d.position) <=> (d.position # None => d.cash >= fee(q))
    BY <2>3, <2>4 DEF SetsAside
  <2> HIDE DEF cash, fee
  <2>11. d.cash >= fee(q)
    BY <2>2, <2>3, <2>5, <2>6, <2>7, <2>8, <2>9
  <2> QED
    BY <2>3, <2>4, <2>10, <2>11 DEF SoundDraft
<1> QED
  BY <1>2, <1>3

LEMMA Rise ==
    ASSUME NEW q \in Nat, NEW a \in Nat, NEW b \in Nat, a <= b
    PROVE  /\ q * a \in Nat /\ q * (b - a) \in Nat
           /\ q * b = q * a + q * (b - a)
<1>1. b - a \in Nat
  OBVIOUS
<1> QED
  BY <1>1

\* What was set aside at the entry's notional pays for every exit that is not
\* at a loss: the fee of a dearer exit grows by less than the result.
LEMMA SetAsideIsEnough ==
    ASSUME NEW m \in Memory, m.position # None, SetsAside(m.cash, m.position),
           NEW price \in Nat, NotWorse(m.position, price)
    PROVE  CashAfterExit(m, price) >= 0
<1> DEFINE x == m.position
           entry == x.qty * x.price
           fee == FeeOf(x.qty * price)
<1>1. /\ m.cash \in Int /\ x.qty \in Nat /\ x.price \in Nat /\ x # None
      /\ x.side \in Sides
  BY DEF Memory, Position
<1>2. entry \in Nat /\ FeeOf(entry) \in Nat /\ m.cash >= FeeOf(entry)
  <2>1. entry \in Nat
    BY <1>1
  <2>2. FeeOf(entry) \in Nat
    BY <2>1, FeeGrowsLess
  <2> QED
    BY <1>1, <2>1, <2>2 DEF SetsAside
<1>3. PositionValue(x) \in Int /\ PositionValue(x) >= 0
  <2>1. PositionValue(x) = entry \div Leverage
    BY <1>1 DEF PositionValue, Margin
  <2> HIDE DEF entry
  <2> QED
    BY <1>2, <2>1, WalletAssumption
<1>4. CashAfterExit(m, price) = m.cash + PositionValue(x) + Pnl(x, price) - fee
  BY DEF CashAfterExit
<1>5. CASE x.side = "long"
  <2>1. x.price <= price /\ Pnl(x, price) = x.qty * (price - x.price)
    BY <1>1, <1>5 DEF NotWorse, Pnl
  <2>2. /\ x.qty * (price - x.price) \in Nat
        /\ x.qty * price = entry + x.qty * (price - x.price)
    BY <1>1, <2>1, Rise
  <2> DEFINE gain == x.qty * (price - x.price)
  <2> HIDE DEF entry, gain, x
  <2>3. fee = FeeOf(entry + gain) /\ gain \in Nat /\ Pnl(x, price) = gain
    BY <2>1, <2>2 DEF gain
  <2>4. fee <= FeeOf(entry) + gain /\ fee \in Int
    <3>1. FeeOf(entry + gain) <= FeeOf(entry) + gain
      BY <1>2, <2>3, FeeGrowsLess
    <3>2. FeeOf(entry + gain) \in Int
      BY <1>2, <2>3, FeeType
    <3> QED
      BY <2>3, <3>1, <3>2
  <2> HIDE DEF fee
  <2> QED
    BY <1>1, <1>2, <1>3, <1>4, <2>3, <2>4 DEF x
<1>6. CASE x.side # "long"
  <2>1. price <= x.price /\ Pnl(x, price) = x.qty * (x.price - price)
    BY <1>1, <1>6 DEF NotWorse, Pnl
  <2>2. /\ x.qty * price \in Nat
        /\ x.qty * (x.price - price) \in Nat
        /\ entry = x.qty * price + x.qty * (x.price - price)
    BY <1>1, <2>1, Rise
  <2> DEFINE gain == x.qty * (x.price - price)
             exit == x.qty * price
  <2> HIDE DEF entry, gain, exit, x
  <2>3. gain \in Nat /\ exit \in Nat /\ Pnl(x, price) = gain
        /\ entry = exit + gain /\ fee = FeeOf(exit)
    BY <2>1, <2>2 DEF gain, exit
  <2>4. fee <= FeeOf(entry) /\ fee \in Int
    <3>1. FeeOf(exit) <= FeeOf(exit + gain) /\ FeeOf(exit) \in Nat
      BY <2>3, FeeGrowsLess
    <3> QED
      BY <2>3, <3>1
  <2> HIDE DEF fee
  <2> QED
    BY <1>1, <1>2, <1>3, <1>4, <2>3, <2>4 DEF x
<1> QED
  BY <1>5, <1>6

\* A commit whose DELETE found every row of its symbol leaves at most one; one
\* that was overtaken leaves the rows it did not find, none on its own side.
LEMMA CommitKeepsRows ==
    ASSUME LedgerInv, PositionsInv, NEW p \in Procs, InStore(p), Duplicates(p) = {},
           CommitLedger(p), Overtakes(p)
    PROVE  RowsMultiplyOnlyInRaces'
<1> DEFINE d == draft[p]
<1>1. /\ positions' = (positions \ seen[p]) \cup ({d.position} \ {None})
      /\ torn' = IF p \in overtaken THEN torn \cup {d.symbol} ELSE torn \ {d.symbol}
  BY DEF CommitLedger, Overtakes
<1>2. d.position # None => d.position.symbol = d.symbol
  BY DEF PositionsInv, SoundDraft, InStore
<1> SUFFICES ASSUME NEW r \in positions', NEW s \in positions',
                    r.symbol = s.symbol, r # s
             PROVE  r.side # s.side /\ r.symbol \in torn'
  BY DEF RowsMultiplyOnlyInRaces
<1>3. ASSUME NEW t \in positions \ seen[p], t.symbol = d.symbol
      PROVE  p \in overtaken
  BY <1>3 DEF PositionsInv, RowsAreSeen
<1>4. CASE r.symbol # d.symbol
  BY <1>1, <1>2, <1>4 DEF PositionsInv, RowsMultiplyOnlyInRaces
<1>5. CASE r.symbol = d.symbol
  <2>1. p \in overtaken
    BY <1>1, <1>3, <1>5
  <2>2. r.side # s.side
    <3>1. ASSUME NEW t \in positions \ seen[p], d.position # None, t.symbol = d.symbol
          PROVE  t.side # d.position.side
      BY <1>2, <3>1 DEF Duplicates
    <3> QED
      BY <1>1, <1>5, <3>1 DEF PositionsInv, RowsMultiplyOnlyInRaces
  <2> QED
    BY <1>1, <1>5, <2>1, <2>2
<1> QED
  BY <1>4, <1>5

\* A rival whose DELETE ran before the commit is overtaken by it.
LEMMA CommitKeepsSeen ==
    ASSUME LedgerInv, PositionsInv, NEW p \in Procs, InStore(p),
           CommitLedger(p), Overtakes(p), Idle(p)
    PROVE  /\ RowsAreSeen'
           /\ \A q \in Procs : pc'[q] \in {"store", "write"} => SoundDraft(draft'[q])
           /\ \A q \in Procs : InStore(q)' => \A r \in seen'[q] : r.symbol = draft'[q].symbol
<1>1. \A q \in Procs : /\ q = p => pc'[q] = "idle"
                       /\ q # p => /\ pc'[q] = pc[q] /\ draft'[q] = draft[q]
                                   /\ seen'[q] = seen[q]
  BY DEF Idle, Become, LedgerInv, TypeOK
<1>2. \A r \in positions' : r \in positions \/ r.symbol = draft[p].symbol
  <2>1. draft[p].position # None => draft[p].position.symbol = draft[p].symbol
    BY DEF PositionsInv, SoundDraft, InStore
  <2> QED
    BY <2>1 DEF CommitLedger
<1>3. ASSUME NEW q \in Procs, InStore(q)', q \notin overtaken',
             NEW r \in positions', r.symbol = draft'[q].symbol
      PROVE  r \in seen'[q]
  <2>1. q # p /\ InStore(q) /\ draft'[q] = draft[q] /\ seen'[q] = seen[q]
    BY <1>1, <1>3 DEF InStore
  <2>2. q \notin overtaken /\ draft[q].symbol # draft[p].symbol
    BY <1>3, <2>1 DEF Overtakes
  <2> QED
    BY <1>2, <1>3, <2>1, <2>2 DEF PositionsInv, RowsAreSeen
<1>4. RowsAreSeen'
  BY <1>3 DEF RowsAreSeen
<1> QED
  BY <1>1, <1>4 DEF PositionsInv, InStore

\* Nothing but a commit touches the table, nothing but a commit or a restart a
\* position in memory, and what waits to be stored was drafted by process().
LEMMA PositionsStep ==
    ASSUME LedgerInv, PositionsInv, [Next]_vars
    PROVE  PositionsInv'
<1>1. /\ pc \in [Procs -> {"idle", "scan", "process", "store", "write", "record"}]
      /\ mem \in [Procs -> Memory]
      /\ draft \in [Procs -> ExecutionType \cup ReceiptTypes \cup {None}]
      /\ seen \in [Procs -> SUBSET Position]
  BY DEF LedgerInv, TypeOK, Memory
<1>2. ASSUME NEW p \in Procs, Idle(p), UNCHANGED <<positions, torn>>,
             overtaken \ {p} \subseteq overtaken',
             \A q \in Procs : SetsAside(mem'[q].cash, mem'[q].position)
      PROVE  PositionsInv'
  <2>1. \A q \in Procs : /\ q = p => pc'[q] = "idle"
                         /\ q # p => /\ pc'[q] = pc[q] /\ draft'[q] = draft[q]
                                     /\ seen'[q] = seen[q]
    BY <1>1, <1>2 DEF Idle, Become
  <2>2. RowsAreSeen'
    BY <1>2, <2>1 DEF PositionsInv, RowsAreSeen, InStore
  <2>3. RowsMultiplyOnlyInRaces'
    BY <1>2 DEF PositionsInv, RowsMultiplyOnlyInRaces
  <2>4. /\ \A q \in Procs : pc'[q] \in {"store", "write"} => SoundDraft(draft'[q])
        /\ \A q \in Procs : InStore(q)' =>
              \A r \in seen'[q] : r.symbol = draft'[q].symbol
    BY <2>1 DEF PositionsInv, InStore
  <2> QED
    BY <1>2, <2>2, <2>3, <2>4 DEF PositionsInv
<1>3. ASSUME UNCHANGED <<positions, overtaken, torn>>,
             \A p \in Procs : SetsAside(mem'[p].cash, mem'[p].position),
             \A p \in Procs : pc'[p] = "store" => pc[p] = "store" /\ draft'[p] = draft[p],
             \A p \in Procs : pc'[p] = "write" =>
                pc[p] = "write" /\ draft'[p] = draft[p] /\ seen'[p] = seen[p]
      PROVE  PositionsInv'
  <2>1. RowsAreSeen'
    BY <1>3 DEF PositionsInv, RowsAreSeen, InStore
  <2>2. RowsMultiplyOnlyInRaces'
    BY <1>3 DEF PositionsInv, RowsMultiplyOnlyInRaces
  <2>3. /\ \A q \in Procs : pc'[q] \in {"store", "write"} => SoundDraft(draft'[q])
        /\ \A q \in Procs : InStore(q)' =>
              \A r \in seen'[q] : r.symbol = draft'[q].symbol
    BY <1>3 DEF PositionsInv, InStore
  <2> QED
    BY <1>3, <2>1, <2>2, <2>3 DEF PositionsInv
<1>13. ASSUME UNCHANGED mem
       PROVE  \A p \in Procs : SetsAside(mem'[p].cash, mem'[p].position)
  BY <1>13 DEF PositionsInv
<1>4. CASE UNCHANGED vars
  BY <1>3, <1>13, <1>4 DEF vars, db, proc, history
<1>5. CASE Sources
  BY <1>3, <1>13, <1>5 DEF Sources, Publish, CandlesComplete, db, proc, history
<1>6. ASSUME NEW p \in Procs,
             \/ ReceiveBegin(p) \/ ReadPage(p)
             \/ \E i \in SignalIds : AssembleReady(p, i) \/ AssembleNotReady(p, i)
             \/ ProcessRejected(p) \/ StoreReplays(p)
      PROVE  PositionsInv'
  <2>1. /\ UNCHANGED <<positions, overtaken, torn, mem, seen>>
        /\ \A q \in Procs \ {p} : pc'[q] = pc[q] /\ draft'[q] = draft[q]
        /\ pc'[p] \notin {"store", "write"}
    BY <1>1, <1>6 DEF ReceiveBegin, ReadPage, AssembleReady, AssembleNotReady,
                      ProcessRejected, StoreReplays, Become, db, history
  <2> QED
    BY <1>3, <1>13, <2>1
<1>7. ASSUME NEW p \in Procs, ProcessExecuted(p)
      PROVE  PositionsInv'
  <2>1. PICK d \in Executions(msg[p], mem[p], signals[msg[p]]) :
              draft' = [draft EXCEPT ![p] = d]
    BY <1>7 DEF ProcessExecuted
  <2>2. /\ msg[p] \in SignalIds /\ signals[msg[p]] \in SignalKinds
        /\ ~RefusedAtOnce(mem[p], signals[msg[p]]) /\ mem[p] \in Memory
    BY <1>1, <1>7 DEF ProcessExecuted, Rejected, LedgerInv, WorkInProgress, TypeOK
  <2>3. SoundDraft(d)
    BY <2>2, ExecutionsAreSound
  <2>4. \A q \in Procs : /\ q = p => draft'[q] = d /\ pc'[q] = "store"
                         /\ q # p => pc'[q] = pc[q] /\ draft'[q] = draft[q]
    BY <1>1, <1>7, <2>1 DEF ProcessExecuted, Become
  <2>5. UNCHANGED <<positions, overtaken, torn, mem, seen>>
    BY <1>7 DEF ProcessExecuted, db, history
  <2>6. /\ RowsAreSeen'
        /\ \A q \in Procs : InStore(q)' =>
              \A r \in seen'[q] : r.symbol = draft'[q].symbol
    BY <2>4, <2>5 DEF PositionsInv, RowsAreSeen, InStore
  <2>7. RowsMultiplyOnlyInRaces'
    BY <2>5 DEF PositionsInv, RowsMultiplyOnlyInRaces
  <2>8. \A q \in Procs : pc'[q] \in {"store", "write"} => SoundDraft(draft'[q])
    BY <2>3, <2>4 DEF PositionsInv
  <2> QED
    BY <1>13, <2>5, <2>6, <2>7, <2>8 DEF PositionsInv
<1>14. ASSUME NEW p \in Procs, StoreDeletes(p)
       PROVE  PositionsInv'
  <2>1. /\ pc[p] = "store"
        /\ \A q \in Procs : /\ q = p => /\ pc'[q] = "write"
                                        /\ seen'[q] = {r \in positions : r.symbol = draft[p].symbol}
                            /\ q # p => pc'[q] = pc[q] /\ seen'[q] = seen[q]
        /\ UNCHANGED <<positions, overtaken, torn, mem, draft>>
    BY <1>1, <1>14 DEF StoreDeletes, Become, db, history
  <2>2. RowsAreSeen'
    BY <2>1 DEF PositionsInv, RowsAreSeen, InStore
  <2>3. RowsMultiplyOnlyInRaces'
    BY <2>1 DEF PositionsInv, RowsMultiplyOnlyInRaces
  <2>4. \A q \in Procs : pc'[q] \in {"store", "write"} => SoundDraft(draft'[q])
    BY <2>1 DEF PositionsInv
  <2>5. \A q \in Procs : InStore(q)' => \A r \in seen'[q] : r.symbol = draft'[q].symbol
    BY <2>1 DEF PositionsInv, InStore
  <2> QED
    BY <1>13, <2>1, <2>2, <2>3, <2>4, <2>5 DEF PositionsInv
<1>8. ASSUME NEW p \in Procs, StoreCommits(p)
      PROVE  PositionsInv'
  <2>1. /\ InStore(p) /\ Duplicates(p) = {} /\ CommitLedger(p) /\ Overtakes(p) /\ Idle(p)
        /\ mem' = [mem EXCEPT ![p].cash = draft[p].cash, ![p].position = draft[p].position]
    BY <1>8 DEF StoreCommits
  <2>2. /\ \A q \in Procs \ {p} : mem'[q] = mem[q]
        /\ mem'[p].position = draft[p].position /\ mem'[p].cash = draft[p].cash
    BY <1>1, <2>1 DEF Memory
  <2>3. \A q \in Procs : SetsAside(mem'[q].cash, mem'[q].position)
    BY <2>1, <2>2 DEF PositionsInv, SoundDraft, InStore
  <2>4. RowsMultiplyOnlyInRaces'
    BY <2>1, CommitKeepsRows
  <2> QED
    BY <2>1, <2>3, <2>4, CommitKeepsSeen DEF PositionsInv
<1>9. ASSUME NEW p \in Procs,
             \/ ReadExhausted(p) \/ ProcessFails(p) \/ RecordCommits(p)
             \/ DatabaseUnreachable(p) \/ DatabaseRefuses(p) \/ StoreCollides(p)
      PROVE  PositionsInv'
  <2>1. /\ Idle(p) /\ UNCHANGED <<positions, torn, mem>>
        /\ overtaken \ {p} \subseteq overtaken'
    BY <1>9 DEF ReadExhausted, ProcessFails, RecordCommits, CommitReceipt,
                DatabaseUnreachable, DatabaseRefuses, StoreCollides, RollsBack, db, history
  <2> QED
    BY <1>2, <1>13, <2>1
<1>10. ASSUME NEW p \in Procs, AcknowledgementLost(p)
       PROVE  PositionsInv'
  <2>1. Idle(p) /\ UNCHANGED mem
    BY <1>10 DEF AcknowledgementLost
  <2>2. CASE InStore(p) /\ Duplicates(p) = {} /\ CommitLedger(p) /\ Overtakes(p)
    <3>1. RowsMultiplyOnlyInRaces'
      BY <2>2, CommitKeepsRows
    <3> QED
      BY <1>13, <2>1, <2>2, <3>1, CommitKeepsSeen DEF PositionsInv
  <2>3. CASE CommitReceipt(p)
    <3>1. UNCHANGED <<positions, torn>> /\ overtaken \ {p} \subseteq overtaken'
      BY <2>3 DEF CommitReceipt, history
    <3> QED
      BY <1>2, <1>13, <2>1, <3>1
  <2> QED
    BY <1>10, <2>2, <2>3 DEF AcknowledgementLost
<1>11. ASSUME NEW p \in Procs, Restart(p)
       PROVE  PositionsInv'
  <2>1. /\ Idle(p) /\ UNCHANGED <<positions, torn>>
        /\ mem' = [mem EXCEPT ![p] = FreshMemory]
        /\ overtaken \ {p} \subseteq overtaken'
    BY <1>11 DEF Restart, RollsBack, db
  <2>2. mem'[p].position = None /\ \A q \in Procs \ {p} : mem'[q] = mem[q]
    BY <1>1, <2>1 DEF FreshMemory
  <2>3. \A q \in Procs : SetsAside(mem'[q].cash, mem'[q].position)
    BY <2>2 DEF PositionsInv, SetsAside
  <2> QED
    BY <1>2, <2>1, <2>3
<1>12. ASSUME NEW p \in Procs, EngageKillSwitch(p)
       PROVE  PositionsInv'
  <2>1. /\ UNCHANGED <<positions, overtaken, torn, pc, draft, seen>>
        /\ mem' = [mem EXCEPT ![p].kill = TRUE]
    BY <1>12 DEF EngageKillSwitch, db, proc, history
  <2>2. \A q \in Procs : mem'[q].position = mem[q].position /\ mem'[q].cash = mem[q].cash
    BY <1>1, <2>1 DEF Memory
  <2>3. \A q \in Procs : SetsAside(mem'[q].cash, mem'[q].position)
    BY <2>2 DEF PositionsInv
  <2> QED
    BY <1>3, <2>1, <2>3
<1> QED
  BY <1>4, <1>5, <1>6, <1>7, <1>8, <1>9, <1>10, <1>11, <1>12, <1>14
  DEF Next, RunOnce, Environment

LEMMA InitPositions == Init => PositionsInv
BY DEF Init, PositionsInv, RowsMultiplyOnlyInRaces, RowsAreSeen, InStore, SetsAside,
       FreshMemory

\* However many processes enter, close and reverse positions, restart flat and
\* enter again: two rows of one symbol stand only where two stores overlapped
\* and the later DELETE did not find the earlier row, never on one side, and
\* only until the next store that no rival overtakes (store()).
THEOREM RowsMultiplyInNothingButRaces == Spec => []RowsMultiplyOnlyInRaces
<1>1. Init => PositionsInv
  BY InitPositions
<1>2. LedgerInv /\ PositionsInv /\ [Next]_vars => PositionsInv'
  BY PositionsStep
<1>3. PositionsInv => RowsMultiplyOnlyInRaces
  BY DEF PositionsInv
<1> QED
  BY <1>1, <1>2, <1>3, LedgerInvariant, PTL DEF Spec

\* Whoever holds a position has cash for the fee on its entry's notional, and
\* that pays for every exit which is not at a loss, however far the price has
\* risen: for any fee rate up to the whole notional, any leverage and prices,
\* after any chain of reversals (matcher._entry_cash_requirement).
THEOREM ExitFeeStaysReserved == Spec => []ExitFeeReserved
<1>1. Init => PositionsInv
  BY InitPositions
<1>2. LedgerInv /\ PositionsInv /\ [Next]_vars => PositionsInv'
  BY PositionsStep
<1>3. LedgerInv /\ PositionsInv => ExitFeeReserved
  <2> SUFFICES ASSUME LedgerInv, PositionsInv, NEW p \in Procs, mem[p].position # None
               PROVE  /\ mem[p].cash >= FeeOf(mem[p].position.qty * mem[p].position.price)
                      /\ \A kind \in SignalKinds :
                            NotWorse(mem[p].position, kind.price) =>
                                CashAfterExit(mem[p], kind.price) >= 0
    BY DEF ExitFeeReserved
  <2>1. mem[p] \in Memory /\ SetsAside(mem[p].cash, mem[p].position)
    BY DEF LedgerInv, TypeOK, Memory, PositionsInv
  <2>2. \A kind \in SignalKinds : kind.price \in Nat
    BY WalletAssumption DEF KindType
  <2> QED
    BY <2>1, <2>2, SetAsideIsEnough DEF SetsAside
<1> QED
  BY <1>1, <1>2, <1>3, LedgerInvariant, PTL DEF Spec

-----------------------------------------------------------------------------
(* One process that is never restarted                                     *)

\* While the write connection is alive the table shows what the process holds,
\* at every point of run_once, not only between two polls; and an execution
\* that waits to be stored is about the symbol of the position it closes, so
\* that its DELETE finds the whole table.
CurrentInv ==
    \A p \in Procs :
        /\ conn[p] =>
              /\ positions = {mem[p].position} \ {None}
              /\ account # None => account.cash = mem[p].cash
        /\ pc[p] \in {"store", "write"} /\ mem[p].position # None =>
              mem[p].position.symbol = draft[p].symbol
        /\ InStore(p) => conn[p] /\ seen[p] = positions

\* An execution built while a position is held is about its symbol: an entry
\* is refused, an exit or a reversal names the held symbol.
LEMMA ExecutionsNameTheHeldSymbol ==
    ASSUME NEW i, NEW m, NEW kind \in KindType, ~RefusedAtOnce(m, kind),
           NEW d \in Executions(i, m, kind), m.position # None
    PROVE  m.position.symbol = d.symbol
<1>1. m.position.symbol = kind.symbol
  BY DEF RefusedAtOnce, HasPositionIn, Exits, KindType, Intents
<1>2. d.symbol = kind.symbol
  BY DEF Executions, WithEntry, ExitOnly
<1> QED
  BY <1>1, <1>2

\* The commit of the only process makes the table and the account what the
\* process then takes into memory.
LEMMA CommitShowsTheDraft ==
    ASSUME NEW p \in Procs, CurrentInv, InStore(p), CommitLedger(p)
    PROVE  /\ positions' = {draft[p].position} \ {None}
           /\ account'.cash = draft[p].cash
<1>1. /\ positions' = (positions \ seen[p]) \cup ({draft[p].position} \ {None})
      /\ account'.cash = draft[p].cash
  BY DEF CommitLedger
<1>2. positions \ seen[p] = {}
  BY DEF CurrentInv
<1> QED
  BY <1>1, <1>2

\* Every step of the only process.
LEMMA CurrentStep ==
    ASSUME NEW p, Procs = {p}, MaxRestarts = 0,
           LedgerInv, CurrentInv, [Next]_vars
    PROVE  CurrentInv'
<1>1. /\ mem \in [Procs -> Memory] /\ restarts \in Nat
      /\ pc \in [Procs -> {"idle", "scan", "process", "store", "write", "record"}]
      /\ conn \in [Procs -> BOOLEAN] /\ seen \in [Procs -> SUBSET Position]
      /\ draft \in [Procs -> ExecutionType \cup ReceiptTypes \cup {None}]
  BY DEF LedgerInv, TypeOK, Memory
<1>2. ASSUME UNCHANGED <<positions, account>>,
             conn'[p] => conn[p],
             mem'[p].position = mem[p].position, mem'[p].cash = mem[p].cash,
             pc'[p] = "store" => pc[p] = "store" /\ draft'[p] = draft[p],
             pc'[p] = "write" =>
                /\ pc[p] = "write" /\ draft'[p] = draft[p] /\ seen'[p] = seen[p]
                /\ conn'[p] = conn[p]
      PROVE  CurrentInv'
  BY <1>2 DEF CurrentInv, InStore
<1>3. CASE UNCHANGED vars
  BY <1>2, <1>3 DEF vars, db, proc
<1>4. CASE Sources
  BY <1>2, <1>4 DEF Sources, Publish, CandlesComplete, db, proc
<1>5. CASE \/ ReceiveBegin(p) \/ ReadPage(p)
           \/ \E i \in SignalIds : AssembleReady(p, i) \/ AssembleNotReady(p, i)
           \/ ProcessRejected(p) \/ StoreReplays(p)
  <2>1. UNCHANGED <<positions, account, mem, conn>>
    BY <1>5 DEF ReceiveBegin, ReadPage, AssembleReady, AssembleNotReady,
                ProcessRejected, StoreReplays, db
  <2>2. pc'[p] \notin {"store", "write"}
    BY <1>1, <1>5 DEF ReceiveBegin, ReadPage, AssembleReady, AssembleNotReady,
                      ProcessRejected, StoreReplays, Become
  <2> QED
    BY <1>2, <2>1, <2>2
<1>6. CASE \/ ReadExhausted(p) \/ ProcessFails(p) \/ RecordCommits(p)
           \/ DatabaseUnreachable(p) \/ StoreCollides(p)
  <2>1. Idle(p) /\ UNCHANGED <<positions, account, mem, conn>>
    BY <1>6 DEF ReadExhausted, ProcessFails, RecordCommits, CommitReceipt,
                DatabaseUnreachable, StoreCollides, RollsBack, db
  <2>2. pc'[p] = "idle"
    BY <1>1, <2>1 DEF Idle, Become
  <2> QED
    BY <1>2, <2>1, <2>2
<1>7. CASE DatabaseRefuses(p)
  <2>1. Idle(p) /\ UNCHANGED <<positions, account, mem>> /\ conn[p]
    BY <1>7 DEF DatabaseRefuses, RollsBack, db
  <2>2. pc'[p] = "idle"
    BY <1>1, <2>1 DEF Idle, Become
  <2> QED
    BY <1>2, <2>1, <2>2
<1>8. CASE ProcessExecuted(p)
  <2>1. PICK d \in Executions(msg[p], mem[p], signals[msg[p]]) :
              draft' = [draft EXCEPT ![p] = d]
    BY <1>8 DEF ProcessExecuted
  <2>2. signals[msg[p]] \in KindType /\ ~RefusedAtOnce(mem[p], signals[msg[p]])
    BY <1>8, WalletAssumption
    DEF ProcessExecuted, Rejected, LedgerInv, WorkInProgress, TypeOK
  <2>3. mem[p].position # None => mem[p].position.symbol = d.symbol
    BY <2>1, <2>2, ExecutionsNameTheHeldSymbol
  <2>4. draft'[p] = d /\ pc'[p] = "store"
    BY <1>1, <1>8, <2>1 DEF ProcessExecuted, Become
  <2>5. UNCHANGED <<positions, account, mem, conn>>
    BY <1>8 DEF ProcessExecuted, db
  <2> QED
    BY <2>3, <2>4, <2>5 DEF CurrentInv, InStore
<1>13. CASE StoreDeletes(p)
  <2>1. /\ pc[p] = "store" /\ conn[p] /\ pc'[p] = "write"
        /\ seen'[p] = {r \in positions : r.symbol = draft[p].symbol}
        /\ UNCHANGED <<positions, account, mem, conn, draft>>
    BY <1>1, <1>13 DEF StoreDeletes, Become, db
  <2>2. \A r \in positions : r.symbol = draft[p].symbol
    BY <2>1 DEF CurrentInv
  <2>3. seen'[p] = positions
    BY <2>1, <2>2
  <2> QED
    BY <2>1, <2>3 DEF CurrentInv, InStore
<1>9. CASE StoreCommits(p)
  <2>1. /\ InStore(p) /\ CommitLedger(p) /\ Idle(p)
        /\ mem' = [mem EXCEPT ![p].cash = draft[p].cash, ![p].position = draft[p].position]
    BY <1>9 DEF StoreCommits
  <2>2. /\ mem'[p].position = draft[p].position /\ mem'[p].cash = draft[p].cash
        /\ pc'[p] = "idle"
    BY <1>1, <2>1 DEF Memory, Idle, Become
  <2> QED
    BY <2>1, <2>2, CommitShowsTheDraft DEF CurrentInv, InStore
<1>10. CASE AcknowledgementLost(p)
  <2>1. conn' = [conn EXCEPT ![p] = FALSE] /\ Idle(p)
    BY <1>10 DEF AcknowledgementLost
  <2>2. conn'[p] = FALSE /\ pc'[p] = "idle"
    BY <1>1, <2>1 DEF Idle, Become, LedgerInv, TypeOK
  <2> QED
    BY <2>2 DEF CurrentInv, InStore
<1>11. ~Restart(p)
  BY <1>1 DEF Restart
<1>12. CASE EngageKillSwitch(p)
  <2>1. UNCHANGED <<positions, account, conn, pc, draft, seen>> /\ mem' = [mem EXCEPT ![p].kill = TRUE]
    BY <1>12 DEF EngageKillSwitch, db, proc
  <2>2. mem'[p].position = mem[p].position /\ mem'[p].cash = mem[p].cash
    BY <1>1, <2>1 DEF Memory
  <2> QED
    BY <1>2, <2>1, <2>2
<1> QED
  BY <1>3, <1>4, <1>5, <1>6, <1>7, <1>8, <1>9, <1>10, <1>11, <1>12, <1>13
  DEF Next, RunOnce, Environment

\* With one process that never restarts, the positions table is the "current
\* paper position" for as long as its connection lives, whatever it is asked to
\* do and whichever statement fails (the two conditions are needed: see the
\* README on restarted wallets).
THEOREM TableFollowsMemory ==
    ASSUME NEW CONSTANT p, Procs = {p}, MaxRestarts = 0
    PROVE  Spec => []PositionsTableIsCurrent
<1>1. Init => CurrentInv
  BY DEF Init, CurrentInv, InStore, FreshMemory
<1>2. LedgerInv /\ CurrentInv /\ [Next]_vars => CurrentInv'
  BY CurrentStep
<1>3. CurrentInv => PositionsTableIsCurrent
  BY DEF CurrentInv, PositionsTableIsCurrent
<1> QED
  BY <1>1, <1>2, <1>3, LedgerInvariant, PTL DEF Spec

-----------------------------------------------------------------------------
(* The money of one process that is never restarted                        *)

LEMMA NoneIsNoPosition == None \notin Position
BY WalletAssumption

\* What the open position adds to LedgerConserved.
PositionCost(x) == IF x = None THEN 0 ELSE OpenNotional(x)

\* A fill pays its price, or is paid it, and its fee.
FillNotional(f) == SignedNotional(f, IF f.reduce_only THEN -1 ELSE 1)
FillFee(f) == FeeOf(f.qty * f.price)

\* What fills paid, net, with their fees.
Costs == [f \in FillType |-> FillCost(f)]
Paid(F) == SumOver(Costs, F)

LEMMA CostsAreIntegers ==
    /\ \A f \in FillType :
          /\ Costs[f] = FillCost(f)
          /\ FillCost(f) = FillNotional(f) + FillFee(f)
          /\ FillNotional(f) \in Int /\ FillFee(f) \in Int /\ FillCost(f) \in Int
    /\ \A r \in Position : OpenNotional(r) \in Int
<1>1. ASSUME NEW q \in Int, NEW r \in Int
      PROVE  q * r * 1 \in Int /\ q * r * (-1) \in Int /\ q * r * (-(-1)) \in Int
  OBVIOUS
<1>2. \A f \in FillType : FillNotional(f) \in Int
  BY <1>1 DEF FillNotional, SignedNotional, FillType
<1>3. \A r \in Position : OpenNotional(r) \in Int
  BY <1>1 DEF OpenNotional, SignedNotional, Position
<1>4. \A f \in FillType : FillFee(f) \in Int
  <2> SUFFICES ASSUME NEW f \in FillType PROVE FillFee(f) \in Int
    OBVIOUS
  <2>1. f.qty * f.price \in Int
    BY DEF FillType
  <2> QED
    BY <2>1, FeeType DEF FillFee
<1>5. \A f : FillCost(f) = FillNotional(f) + FillFee(f)
  BY DEF FillCost, FillNotional, FillFee
<1>6. \A f \in FillType : FillCost(f) \in Int
  BY <1>2, <1>4, <1>5
<1> QED
  BY <1>2, <1>3, <1>4, <1>5, <1>6 DEF Costs

\* The sum of LedgerConserved is one over weights.
LEMMA PaidIsTheSum ==
    ASSUME NEW F \in SUBSET FillType, IsFiniteSet(F)
    PROVE  MapThenSumSet(FillCost, F) = Paid(F)
<1> DEFINE h == CHOOSE g : g =
                  [s \in SUBSET F |->
                      IF s = {} THEN 0
                      ELSE FillCost(CHOOSE x \in s : TRUE)
                             + g[s \ {CHOOSE x \in s : TRUE}]]
<1>1. MapThenSumSet(FillCost, F) = h[F]
  BY DEF MapThenSumSet, MapThenFoldSet
<1>2. PICK g : IsTable(g, Costs, F) /\ Paid(F) = g[F]
  BY SumHasTable DEF Paid
<1>3. ASSUME NEW s \in SUBSET F, s # {}
      PROVE  Costs[CHOOSE x \in s : TRUE] = FillCost(CHOOSE x \in s : TRUE)
  <2>1. (CHOOSE x \in s : TRUE) \in FillType
    BY <1>3
  <2> QED
    BY <2>1, CostsAreIntegers
<1>4. g = [s \in SUBSET F |->
              IF s = {} THEN 0
              ELSE FillCost(CHOOSE x \in s : TRUE)
                     + g[s \ {CHOOSE x \in s : TRUE}]]
  BY <1>2, <1>3 DEF IsTable
<1>5. h = [s \in SUBSET F |->
              IF s = {} THEN 0
              ELSE FillCost(CHOOSE x \in s : TRUE)
                     + h[s \ {CHOOSE x \in s : TRUE}]]
  BY <1>4
<1> HIDE DEF h
<1>6. IsTable(h, Costs, F)
  BY <1>3, <1>5 DEF IsTable
<1>7. h[F] = g[F]
  BY <1>2, <1>6, TablesAgree
<1> QED
  BY <1>1, <1>2, <1>7

LEMMA CostIsTheSum ==
    ASSUME NEW x \in Position \cup {None}
    PROVE  MapThenSumSet(OpenNotional, {x} \ {None}) = PositionCost(x)
<1> DEFINE F == {x} \ {None}
           w == [r \in F |-> OpenNotional(r)]
           h == CHOOSE g : g =
                  [s \in SUBSET F |->
                      IF s = {} THEN 0
                      ELSE OpenNotional(CHOOSE y \in s : TRUE)
                             + g[s \ {CHOOSE y \in s : TRUE}]]
<1>1. MapThenSumSet(OpenNotional, F) = h[F]
  BY DEF MapThenSumSet, MapThenFoldSet
<1>2. IsFiniteSet(F)
  BY FS_Singleton, FS_Subset
<1> HIDE DEF F
<1>3. PICK g : IsTable(g, w, F)
  BY <1>2, TableExists
<1>4. g = [s \in SUBSET F |->
              IF s = {} THEN 0
              ELSE OpenNotional(CHOOSE y \in s : TRUE)
                     + g[s \ {CHOOSE y \in s : TRUE}]]
  BY <1>3 DEF IsTable
<1>5. h = [s \in SUBSET F |->
              IF s = {} THEN 0
              ELSE OpenNotional(CHOOSE y \in s : TRUE)
                     + h[s \ {CHOOSE y \in s : TRUE}]]
  BY <1>4
<1> HIDE DEF h
<1>6. h[F] = PositionCost(x)
  <2>1. CASE x = None
    <3>1. F = {}
      BY <2>1 DEF F
    <3> QED
      BY <1>5, <2>1, <3>1 DEF PositionCost
  <2>2. CASE x # None
    <3>1. F = {x} /\ x \in Position
      BY <2>2 DEF F
    <3>2. h[{}] = 0
      BY <1>5
    <3>3. h[{x}] = OpenNotional(x) + h[{}]
      <4>1. (CHOOSE y \in {x} : TRUE) = x /\ {x} \ {x} = {}
        OBVIOUS
      <4> QED
        BY <1>5, <3>1, <4>1
    <3>4. OpenNotional(x) \in Int
      BY <3>1, CostsAreIntegers
    <3> QED
      BY <2>2, <3>1, <3>2, <3>3, <3>4 DEF PositionCost
  <2> QED
    BY <2>1, <2>2
<1> QED
  BY <1>1, <1>6 DEF F

\* Cash and margin, less what the open position cost.
Worth(cash, position) == cash + PositionValue(position) - PositionCost(position)

\* An execution moves what its fills paid.
DraftBalances(d, m) ==
    /\ IsFiniteSet(d.fills)
    /\ Worth(d.cash, d.position) =
          Worth(m.cash, m.position) - Paid(d.fills)

ConservedInv(p) ==
    /\ IsFiniteSet(fills)
    /\ conn[p] =>
          Worth(mem[p].cash, mem[p].position) =
              InitialCash - Paid(fills)
    /\ pc[p] \in {"store", "write"} => DraftBalances(draft[p], mem[p])
    /\ LedgerConserved

LEMMA WorthType ==
    ASSUME NEW c \in Int, NEW x \in Position \cup {None}
    PROVE  Worth(c, x) \in Int /\ PositionCost(x) \in Int /\ PositionValue(x) \in Int
<1>1. PositionCost(x) \in Int
  BY CostsAreIntegers DEF PositionCost
<1>2. PositionValue(x) \in Int
  BY PositionValueType
<1> QED
  BY <1>1, <1>2 DEF Worth

LEMMA PaidType ==
    ASSUME NEW F \in SUBSET FillType, IsFiniteSet(F)
    PROVE  Paid(F) \in Int
BY CostsAreIntegers, SumType DEF Paid, Weighs

LEMMA ResultOfExit ==
    ASSUME NEW q \in Int, NEW r \in Int, NEW a \in Int
    PROVE  /\ q * (r - a) \in Int /\ q * (a - r) \in Int
           /\ q * (r - a) = -(q * r * (-1)) - q * a * 1
           /\ q * (a - r) = -(q * r * (-(-1))) - q * a * (-1)
OBVIOUS

\* The result of a position is what its exit fill pays, net of what it cost.
LEMMA ExitPaysTheResult ==
    ASSUME NEW i \in SignalIds, NEW m \in Memory, m.position \in Position,
           NEW kind \in KindType
    PROVE  /\ ExitLeg(i, m, kind) \in FillType
           /\ Pnl(m.position, kind.price) =
                 -FillNotional(ExitLeg(i, m, kind)) - PositionCost(m.position)
           /\ Pnl(m.position, kind.price) \in Int
           /\ FillFee(ExitLeg(i, m, kind)) = FeeOf(m.position.qty * kind.price)
<1> DEFINE x == m.position
           e == ExitLeg(i, m, kind)
<1>1. /\ e \in FillType /\ e.qty = x.qty /\ e.price = kind.price
      /\ e.side = x.side /\ e.reduce_only = TRUE
  BY DEF ExitLeg, FillRow, FillType, Position, KindType
<1>2. x.qty \in Int /\ x.price \in Int /\ kind.price \in Int /\ x # None
  <2>1. x \in KindType \cup Position
    OBVIOUS
  <2>2. x # None
    BY NoneIsNoPosition
  <2> QED
    BY <2>2 DEF Position, KindType
<1>3. FillNotional(e) = e.qty * e.price * (IF e.side = "long" THEN -1 ELSE -(-1))
  BY <1>1 DEF FillNotional, SignedNotional
<1>4. PositionCost(x) = x.qty * x.price * (IF x.side = "long" THEN 1 ELSE -1)
  BY <1>2 DEF PositionCost, OpenNotional, SignedNotional
<1>5. Pnl(x, kind.price) = x.qty * (IF x.side = "long" THEN kind.price - x.price
                                    ELSE x.price - kind.price)
  BY DEF Pnl
<1>8. FillFee(e) = FeeOf(x.qty * kind.price)
  BY <1>1 DEF FillFee
<1> HIDE DEF x, e
<1> DEFINE Pays == /\ Pnl(x, kind.price) = -FillNotional(e) - PositionCost(x)
                   /\ Pnl(x, kind.price) \in Int
<1>6. ASSUME x.side = "long" PROVE Pays
  <2>1. /\ FillNotional(e) = x.qty * kind.price * (-1)
        /\ PositionCost(x) = x.qty * x.price * 1
        /\ Pnl(x, kind.price) = x.qty * (kind.price - x.price)
    BY <1>1, <1>3, <1>4, <1>5, <1>6
  <2>2. /\ x.qty * (kind.price - x.price) \in Int
        /\ x.qty * (kind.price - x.price)
              = -(x.qty * kind.price * (-1)) - x.qty * x.price * 1
    BY <1>2, ResultOfExit
  <2> QED
    BY <2>1, <2>2
<1>7. ASSUME x.side # "long" PROVE Pays
  <2>1. /\ FillNotional(e) = x.qty * kind.price * (-(-1))
        /\ PositionCost(x) = x.qty * x.price * (-1)
        /\ Pnl(x, kind.price) = x.qty * (x.price - kind.price)
    BY <1>1, <1>3, <1>4, <1>5, <1>7
  <2>2. /\ x.qty * (x.price - kind.price) \in Int
        /\ x.qty * (x.price - kind.price)
              = -(x.qty * kind.price * (-(-1))) - x.qty * x.price * (-1)
    BY <1>2, ResultOfExit
  <2> QED
    BY <2>1, <2>2
<1> QED
  BY <1>1, <1>6, <1>7, <1>8 DEF x, e

\* An entry fill pays what the position it opens costs.
LEMMA EntryPaysTheCost ==
    ASSUME NEW i \in SignalIds, NEW kind \in KindType, NEW q \in 1 .. MaxQty
    PROVE  /\ EntryLeg(i, kind, q) \in FillType
           /\ Entered(i, kind, q) \in Position
           /\ FillNotional(EntryLeg(i, kind, q)) = PositionCost(Entered(i, kind, q))
           /\ FillFee(EntryLeg(i, kind, q)) = FeeOf(q * kind.price)
<1> DEFINE x == Entered(i, kind, q)
           n == EntryLeg(i, kind, q)
<1>1. q \in Nat \ {0}
  BY WalletAssumption
<1>2. /\ x \in Position /\ x.qty = q /\ x.price = kind.price /\ x.side = kind.side
  BY <1>1 DEF Entered, Position, KindType
<1>3. /\ n \in FillType /\ n.qty = q /\ n.price = kind.price
      /\ n.side = kind.side /\ n.reduce_only = FALSE
  BY <1>1 DEF EntryLeg, Entered, FillRow, FillType, KindType
<1>4. x # None
  BY <1>2, NoneIsNoPosition
<1>5. FillNotional(n) = SignedNotional(n, 1) /\ PositionCost(x) = SignedNotional(x, 1)
  BY <1>3, <1>4 DEF FillNotional, PositionCost, OpenNotional
<1>6. FillFee(n) = FeeOf(q * kind.price)
  BY <1>3 DEF FillFee
<1> QED
  BY <1>2, <1>3, <1>5, <1>6 DEF SignedNotional

\* One leg, or the two of a reversal.
LEMMA PaidByLegs ==
    ASSUME NEW e \in FillType, NEW n \in FillType, e # n
    PROVE  /\ IsFiniteSet({e, n})
           /\ Paid({e, n}) = FillCost(e) + FillCost(n)
<1>1. IsFiniteSet({e})
  BY FS_Singleton
<1>2. {e, n} = {e} \cup {n} /\ n \notin {e}
  OBVIOUS
<1>3. IsFiniteSet({e, n})
  BY <1>1, <1>2, FS_AddElement
<1>4. Paid({e}) = FillCost(e)
  BY CostsAreIntegers, SumOfOne DEF Paid
<1>5. Paid({e} \cup {n}) = Paid({e}) + FillCost(n)
  <2>1. Weighs(Costs, {e} \cup {n}) /\ Costs[n] = FillCost(n)
    BY CostsAreIntegers DEF Weighs
  <2>2. SumOver(Costs, {e} \cup {n}) = SumOver(Costs, {e}) + Costs[n]
    BY <1>1, <1>2, <2>1, SumAdds
  <2> QED
    BY <2>1, <2>2 DEF Paid
<1> QED
  BY <1>2, <1>3, <1>4, <1>5

\* process() balances on each of its endings, for any fee rate and leverage.
LEMMA ExecutionsBalance ==
    ASSUME NEW i \in SignalIds, NEW m \in Memory, NEW kind \in KindType,
           ~RefusedAtOnce(m, kind), NEW d \in Executions(i, m, kind)
    PROVE  DraftBalances(d, m)
<1> DEFINE e == ExitLeg(i, m, kind)
<1>1. m.cash \in Int /\ m.position \in Position \cup {None}
  BY DEF Memory
<1>2. ASSUME Exits(kind)
      PROVE  /\ m.position \in Position /\ e \in FillType /\ e.reduce_only = TRUE
             /\ FillCost(e) \in Int
             /\ CashAfterExit(m, kind.price) \in Int
             /\ CashAfterExit(m, kind.price) =
                   Worth(m.cash, m.position) - FillCost(e)
  <2>1. m.position \in Position
    BY <1>1, <1>2 DEF RefusedAtOnce, HasPositionIn
  <2>2. /\ e \in FillType /\ Pnl(m.position, kind.price) \in Int
        /\ Pnl(m.position, kind.price) = -FillNotional(e) - PositionCost(m.position)
        /\ FillFee(e) = FeeOf(m.position.qty * kind.price)
    BY <2>1, ExitPaysTheResult
  <2>3. /\ FillNotional(e) \in Int /\ FillFee(e) \in Int /\ FillCost(e) \in Int
        /\ FillCost(e) = FillNotional(e) + FillFee(e)
        /\ e.reduce_only = TRUE
    BY <2>2, CostsAreIntegers DEF ExitLeg, FillRow
  <2>4. PositionCost(m.position) \in Int /\ PositionValue(m.position) \in Int
    BY <1>1, WorthType
  <2> HIDE DEF e
  <2>5. CashAfterExit(m, kind.price) = Worth(m.cash, m.position) - FillCost(e)
    BY <1>1, <2>2, <2>3, <2>4 DEF CashAfterExit, Worth
  <2>6. Worth(m.cash, m.position) \in Int
    BY <1>1, WorthType
  <2> QED
    BY <1>1, <2>1, <2>2, <2>3, <2>5, <2>6
<1>3. CASE ~Enters(kind)
  <2>1. Exits(kind)
    BY <1>3 DEF Enters, Exits, KindType, Intents
  <2>2. /\ d.fills = {e} /\ d.position = None
        /\ d.cash = CashAfterExit(m, kind.price)
    BY <1>3 DEF Executions, ExitOnly
  <2>3. Worth(d.cash, d.position) = d.cash
    BY <1>2, <2>1, <2>2 DEF Worth, PositionValue, PositionCost
  <2> HIDE DEF e
  <2>4. Paid({e}) = FillCost(e) /\ IsFiniteSet({e})
    <3>1. Costs[e] = FillCost(e) /\ FillCost(e) \in Int
      BY <1>2, <2>1, CostsAreIntegers
    <3> QED
      BY <3>1, SumOfOne, FS_Singleton DEF Paid
  <2> QED
    BY <1>2, <2>1, <2>2, <2>3, <2>4 DEF DraftBalances
<1>4. CASE Enters(kind)
  <2> DEFINE cash == CashBeforeEntry(m, kind)
  <2>1. PICK q \in 1 .. MaxQty : d = WithEntry(i, m, kind, q)
    BY <1>4 DEF Executions, Truncated, Affordable
  <2> DEFINE n == EntryLeg(i, kind, q)
             x == Entered(i, kind, q)
             fee == FeeOf(q * kind.price)
  <2>2. /\ d.fills = {n} \cup (IF Exits(kind) THEN {e} ELSE {})
        /\ d.position = x /\ d.cash = cash - PositionValue(x) - fee
    BY <2>1 DEF WithEntry
  <2>3. /\ n \in FillType /\ x \in Position /\ FillNotional(n) = PositionCost(x)
        /\ FillFee(n) = fee /\ n.reduce_only = FALSE
    BY EntryPaysTheCost DEF EntryLeg, FillRow
  <2>4. PositionCost(x) \in Int /\ PositionValue(x) \in Int
        /\ Worth(m.cash, m.position) \in Int
    BY <1>1, <2>3, WorthType
  <2>7. FillCost(n) = PositionCost(x) + fee /\ fee \in Int
    BY <2>3, CostsAreIntegers
  <2>5. CASE Exits(kind)
    <3>1. cash = Worth(m.cash, m.position) - FillCost(e)
      BY <1>2, <2>5 DEF CashBeforeEntry
    <3>2. e # n /\ e \in FillType /\ FillCost(e) \in Int
      BY <1>2, <2>3, <2>5
    <3>3. d.fills = {e, n}
      BY <2>2, <2>5
    <3>4. /\ IsFiniteSet(d.fills)
          /\ Paid(d.fills) = FillCost(e) + FillCost(n)
      BY <2>3, <3>2, <3>3, PaidByLegs
    <3> HIDE DEF e, n, x, cash, fee
    <3>5. Worth(d.cash, d.position) = cash - fee - PositionCost(x)
      BY <2>2, <2>4, <2>7, <3>1, <3>2 DEF Worth
    <3> QED
      BY <2>4, <2>7, <3>1, <3>2, <3>4, <3>5 DEF DraftBalances
  <2>6. CASE ~Exits(kind)
    <3>1. m.position = None /\ cash = m.cash
      BY <1>4, <2>6 DEF CashBeforeEntry, RefusedAtOnce, Enters, Exits, KindType, Intents
    <3>2. Worth(m.cash, m.position) = m.cash
      BY <1>1, <3>1 DEF Worth, PositionValue, PositionCost
    <3>3. d.fills = {n}
      BY <2>2, <2>6
    <3>4. Paid({n}) = FillCost(n) /\ IsFiniteSet({n})
      BY <2>3, CostsAreIntegers, SumOfOne, FS_Singleton DEF Paid
    <3> HIDE DEF e, n, x, cash, fee
    <3>5. Worth(d.cash, d.position) = cash - fee - PositionCost(x)
      BY <1>1, <2>2, <2>4, <2>7, <3>1 DEF Worth
    <3> QED
      BY <1>1, <2>4, <2>7, <3>1, <3>2, <3>3, <3>4, <3>5 DEF DraftBalances
  <2> QED
    BY <2>5, <2>6
<1> QED
  BY <1>3, <1>4

\* A commit adds the legs of one execution, none of which is there already.
LEMMA CommitConserves ==
    ASSUME NEW p \in Procs, LedgerInv, CurrentInv, ConservedInv(p),
           InStore(p), CommitLedger(p)
    PROVE  /\ IsFiniteSet(fills')
           /\ Worth(draft[p].cash, draft[p].position) = InitialCash - Paid(fills')
           /\ LedgerConserved'
<1> DEFINE d == draft[p]
           m == mem[p]
<1>1. /\ d \in ExecutionType /\ fills \in SUBSET FillType
      /\ m \in Memory /\ msg[p] \in SignalIds
      /\ \A f \in d.fills : f.id = msg[p]
      /\ receipts[msg[p]] = None
  BY DEF LedgerInv, TypeOK, WorkInProgress, ClaimsAreExclusive, InStore, Memory
<1>2. d.fills \cap fills = {}
  BY <1>1, NoneIsNoKind, WalletAssumption DEF LedgerInv, FillsHaveReceipts
<1>3. /\ fills' = fills \cup d.fills /\ account' = [cash |-> d.cash,
                                        equity |-> d.cash + PositionValue(d.position)]
      /\ positions' = {d.position} \ {None}
  BY <1>1, CommitShowsTheDraft DEF CommitLedger, Memory
<1>4. /\ d.cash \in Int /\ d.position \in Position \cup {None} /\ d.fills \in SUBSET FillType
      /\ m.cash \in Int /\ m.position \in Position \cup {None}
      /\ InitialCash \in Int
  BY <1>1, WalletAssumption DEF ExecutionType, Memory
<1>5. /\ IsFiniteSet(fills) /\ IsFiniteSet(d.fills)
      /\ Worth(m.cash, m.position) = InitialCash - Paid(fills)
      /\ Worth(d.cash, d.position) = Worth(m.cash, m.position) - Paid(d.fills)
  BY DEF ConservedInv, DraftBalances, CurrentInv, InStore
<1> HIDE DEF d, m
<1>6. IsFiniteSet(fills \cup d.fills)
  BY <1>5, FS_Union
<1>7. Paid(fills \cup d.fills) = Paid(fills) + Paid(d.fills)
  <2>1. fills \cap d.fills = {} /\ Weighs(Costs, fills \cup d.fills)
    BY <1>1, <1>2, <1>4, CostsAreIntegers DEF Weighs
  <2> QED
    BY <1>5, <2>1, SumOfUnion DEF Paid
<1>8. /\ Paid(fills) \in Int /\ Paid(d.fills) \in Int /\ Worth(m.cash, m.position) \in Int
      /\ Worth(d.cash, d.position) \in Int
      /\ PositionCost(d.position) \in Int /\ PositionValue(d.position) \in Int
  BY <1>1, <1>4, <1>5, PaidType, WorthType
<1>11. Worth(d.cash, d.position) = InitialCash - Paid(fills \cup d.fills)
  BY <1>4, <1>5, <1>7, <1>8
<1>12. LedgerConserved'
  <2>1. account'.equity = d.cash + PositionValue(d.position)
    BY <1>3
  <2>2. MapThenSumSet(OpenNotional, {d.position} \ {None}) = PositionCost(d.position)
    BY <1>4, CostIsTheSum
  <2>3. MapThenSumSet(FillCost, fills \cup d.fills) = Paid(fills \cup d.fills)
    BY <1>1, <1>4, <1>6, PaidIsTheSum
  <2>4. account'.equity =
            InitialCash - Paid(fills \cup d.fills) + PositionCost(d.position)
    BY <1>4, <1>7, <1>8, <1>11, <2>1 DEF Worth
  <2> QED
    BY <1>3, <2>2, <2>3, <2>4 DEF LedgerConserved
<1> QED
  BY <1>3, <1>6, <1>11, <1>12 DEF d

\* Every step of the only process.
LEMMA ConservedStep ==
    ASSUME NEW p, Procs = {p}, MaxRestarts = 0,
           LedgerInv, CurrentInv, ConservedInv(p), [Next]_vars
    PROVE  ConservedInv(p)'
<1>1. /\ mem \in [Procs -> Memory] /\ restarts \in Nat
      /\ pc \in [Procs -> {"idle", "scan", "process", "store", "write", "record"}]
      /\ draft \in [Procs -> ExecutionType \cup ReceiptTypes \cup {None}]
      /\ conn \in [Procs -> BOOLEAN]
  BY DEF LedgerInv, TypeOK, Memory
<1>2. ASSUME UNCHANGED <<fills, positions, account>>,
             conn'[p] => conn[p],
             mem'[p].position = mem[p].position, mem'[p].cash = mem[p].cash,
             pc'[p] \in {"store", "write"} =>
                pc[p] \in {"store", "write"} /\ draft'[p] = draft[p]
      PROVE  ConservedInv(p)'
  BY <1>2 DEF ConservedInv, LedgerConserved, DraftBalances
<1>3. CASE UNCHANGED vars
  BY <1>2, <1>3 DEF vars, db, proc
<1>4. CASE Sources
  BY <1>2, <1>4 DEF Sources, Publish, CandlesComplete, db, proc
<1>5. CASE \/ ReceiveBegin(p) \/ ReadPage(p)
           \/ \E i \in SignalIds : AssembleReady(p, i) \/ AssembleNotReady(p, i)
           \/ ProcessRejected(p) \/ StoreReplays(p) \/ StoreDeletes(p)
  <2>1. UNCHANGED <<fills, positions, account, mem, conn>>
    BY <1>5 DEF ReceiveBegin, ReadPage, AssembleReady, AssembleNotReady,
                ProcessRejected, StoreReplays, StoreDeletes, db
  <2>2. pc'[p] \in {"store", "write"} =>
            pc[p] \in {"store", "write"} /\ draft'[p] = draft[p]
    BY <1>1, <1>5 DEF ReceiveBegin, ReadPage, AssembleReady, AssembleNotReady,
                      ProcessRejected, StoreReplays, StoreDeletes, Become
  <2> QED
    BY <1>2, <2>1, <2>2
<1>6. CASE \/ ReadExhausted(p) \/ ProcessFails(p) \/ RecordCommits(p)
           \/ DatabaseUnreachable(p) \/ StoreCollides(p)
  <2>1. Idle(p) /\ UNCHANGED <<fills, positions, account, mem, conn>>
    BY <1>6 DEF ReadExhausted, ProcessFails, RecordCommits, CommitReceipt,
                DatabaseUnreachable, StoreCollides, RollsBack, db
  <2>2. pc'[p] = "idle"
    BY <1>1, <2>1 DEF Idle, Become
  <2> QED
    BY <1>2, <2>1, <2>2
<1>7. CASE DatabaseRefuses(p)
  <2>1. Idle(p) /\ UNCHANGED <<fills, positions, account, mem>> /\ conn[p]
    BY <1>7 DEF DatabaseRefuses, RollsBack, db
  <2>2. pc'[p] = "idle"
    BY <1>1, <2>1 DEF Idle, Become
  <2> QED
    BY <1>2, <2>1, <2>2
<1>8. CASE ProcessExecuted(p)
  <2>1. PICK d \in Executions(msg[p], mem[p], signals[msg[p]]) :
              draft' = [draft EXCEPT ![p] = d]
    BY <1>8 DEF ProcessExecuted
  <2>2. /\ signals[msg[p]] \in KindType /\ ~RefusedAtOnce(mem[p], signals[msg[p]])
        /\ msg[p] \in SignalIds /\ mem[p] \in Memory
    BY <1>1, <1>8, WalletAssumption
    DEF ProcessExecuted, Rejected, LedgerInv, WorkInProgress, TypeOK
  <2>3. DraftBalances(d, mem[p])
    BY <2>1, <2>2, ExecutionsBalance
  <2>4. draft'[p] = d
    BY <1>1, <2>1
  <2>5. UNCHANGED <<fills, positions, account, mem, conn>>
    BY <1>8 DEF ProcessExecuted, db
  <2>6. DraftBalances(draft[p], mem[p])'
    BY <2>3, <2>4, <2>5 DEF DraftBalances
  <2> QED
    BY <2>5, <2>6 DEF ConservedInv, LedgerConserved
<1>9. CASE StoreCommits(p)
  <2>1. /\ InStore(p) /\ CommitLedger(p) /\ Idle(p)
        /\ mem' = [mem EXCEPT ![p].cash = draft[p].cash, ![p].position = draft[p].position]
    BY <1>9 DEF StoreCommits
  <2>2. /\ mem'[p].position = draft[p].position /\ mem'[p].cash = draft[p].cash
        /\ pc'[p] = "idle"
    BY <1>1, <2>1 DEF Memory, Idle, Become
  <2>3. /\ IsFiniteSet(fills')
        /\ Worth(draft[p].cash, draft[p].position) = InitialCash - Paid(fills')
        /\ LedgerConserved'
    BY <2>1, CommitConserves
  <2> QED
    BY <2>2, <2>3 DEF ConservedInv
<1>10. CASE AcknowledgementLost(p)
  <2>1. conn[p] /\ conn' = [conn EXCEPT ![p] = FALSE] /\ Idle(p) /\ UNCHANGED mem
    BY <1>10 DEF AcknowledgementLost
  <2>2. conn'[p] = FALSE /\ pc'[p] = "idle"
    BY <1>1, <2>1 DEF Idle, Become
  <2>3. IsFiniteSet(fills') /\ LedgerConserved'
    <3>1. CASE InStore(p) /\ CommitLedger(p)
      BY <2>1, <3>1, CommitConserves
    <3>2. CASE CommitReceipt(p)
      BY <3>2 DEF CommitReceipt, ConservedInv, LedgerConserved
    <3> QED
      BY <1>10, <3>1, <3>2 DEF AcknowledgementLost
  <2> QED
    BY <2>2, <2>3 DEF ConservedInv
<1>11. ~Restart(p)
  BY <1>1 DEF Restart
<1>12. CASE EngageKillSwitch(p)
  <2>1. /\ UNCHANGED <<fills, positions, account, conn, pc, draft>>
        /\ mem' = [mem EXCEPT ![p].kill = TRUE]
    BY <1>12 DEF EngageKillSwitch, db, proc
  <2>2. mem'[p].position = mem[p].position /\ mem'[p].cash = mem[p].cash
    BY <1>1, <2>1 DEF Memory
  <2> QED
    BY <1>2, <2>1, <2>2
<1> QED
  BY <1>3, <1>4, <1>5, <1>6, <1>7, <1>8, <1>9, <1>10, <1>11, <1>12
  DEF Next, RunOnce, Environment

\* With one process that never restarts, no leg of any chain of entries, exits
\* and reversals is lost, doubled or charged twice, for any fee rate, leverage
\* and prices: equity is the initial cash less what the fills paid with their
\* fees, net of the open position's cost (process(), store()).
THEOREM EquityIsConserved ==
    ASSUME NEW CONSTANT p, Procs = {p}, MaxRestarts = 0
    PROVE  Spec => []LedgerConserved
<1>1. Init => CurrentInv /\ ConservedInv(p)
  <2> SUFFICES ASSUME Init PROVE CurrentInv /\ ConservedInv(p)
    OBVIOUS
  <2>1. CurrentInv
    BY DEF Init, CurrentInv, InStore, FreshMemory
  <2>2. Paid({}) = 0 /\ IsFiniteSet({})
    BY SumOfNothing, FS_EmptySet DEF Paid
  <2>3. Worth(InitialCash, None) = InitialCash
    BY WalletAssumption DEF Worth, PositionValue, PositionCost
  <2>4. /\ mem[p].cash = InitialCash /\ mem[p].position = None /\ fills = {}
        /\ account = None /\ pc[p] = "idle"
    BY DEF Init, FreshMemory
  <2>5. InitialCash = InitialCash - 0
    BY WalletAssumption
  <2> QED
    BY <2>1, <2>2, <2>3, <2>4, <2>5 DEF ConservedInv, LedgerConserved
<1>2. LedgerInv /\ (CurrentInv /\ ConservedInv(p)) /\ [Next]_vars
          => (CurrentInv /\ ConservedInv(p))'
  BY CurrentStep, ConservedStep
<1>3. ConservedInv(p) => LedgerConserved
  BY DEF ConservedInv
<1> QED
  BY <1>1, <1>2, <1>3, LedgerInvariant, PTL DEF Spec
=============================================================================

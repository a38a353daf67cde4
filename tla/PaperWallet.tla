----------------------------- MODULE PaperWallet -----------------------------
(***************************************************************************)
(* services/wallet-service: the processes that consume one wallet's paper  *)
(* signals.  A process polls signal_db for the first ready signal without  *)
(* a receipt (PostgresSignalQueue), simulates it against the cash and the  *)
(* position it holds in memory (WalletService.process), and commits the    *)
(* receipt, the fills, the position row and the accounting in one          *)
(* transaction (PostgresWalletRepository.store).  Nothing is read back     *)
(* from wallet_db: a restarted process starts flat with initial_cash.      *)
(*                                                                         *)
(* Nothing raises the isolation level of that transaction: its DELETE of   *)
(* the symbol's rows sees what is committed when it runs (READ COMMITTED), *)
(* and a rival may commit another row of the symbol before it commits.     *)
(*                                                                         *)
(* Money is in integer units.  A fill costs a rate on its notional, an     *)
(* entry takes the largest quantity up to MaxQty that cash can carry, and  *)
(* candles are reduced to "the decision and execution candles are both     *)
(* complete" and to the execution price the signal's kind carries.         *)
(***************************************************************************)
EXTENDS Integers, FiniteSets, FiniteSetsExt

CONSTANTS
    Procs,        \* processes started for the same wallet_id
    SignalIds,    \* values of trading_signals.signal_id
    SignalKinds,  \* contents of a signal row, see KindType
    Symbols,      \* policy.allowed_symbols
    InitialCash,  \* the injected initial_cash
    FeeRate,      \* taker_fee_rate, in parts of FeeUnit
    FeeUnit,
    Leverage,     \* leverage of every entry
    MaxQty,       \* the quantity risk sizing asks for
    BatchSize,    \* rows of one SELECT on trading_signals
    Switches,     \* bound: processes whose kill switch may be engaged
    MaxRestarts,  \* bound: process restarts
    MaxFaults,    \* bound: database failures of a live connection
    None          \* absent row or value

Sides == {"long", "short"}
Intents == {"enter", "exit", "reverse"}

\* How RiskGuard and the stop check judge an entry: no protective stop, over
\* a limit once sized, over a limit once filled, or admissible.
Verdicts == {"no_stop", "over_sized", "over_filled", "admissible"}

\* side is meaningless for an exit, price is the open of the execution candle.
KindType ==
    [symbol : Symbols, intent : Intents, side : Sides,
     price : Nat \ {0}, verdict : Verdicts]

\* opened is the signal of the entry: it tells apart rows of equal values.
Position ==
    [symbol : Symbols, side : Sides, qty : Nat \ {0}, price : Nat \ {0},
     opened : SignalIds]

ASSUME WalletAssumption ==
    /\ SignalIds \subseteq Nat \ {0}
    /\ IsFiniteSet(SignalIds)
    /\ SignalKinds \subseteq KindType
    /\ InitialCash \in Nat \ {0}
    /\ FeeUnit \in Nat \ {0}
    /\ FeeRate \in 0..FeeUnit
    /\ Leverage \in Nat \ {0}
    /\ MaxQty \in Nat \ {0}
    /\ BatchSize \in Nat \ {0}
    /\ MaxRestarts \in Nat
    /\ MaxFaults \in Nat
    /\ None \notin KindType \cup Position \cup [cash : Int, value : Int]
    /\ None \notin {"filled", "rejected", "skipped"}

VARIABLES
    (* signal_db and crypto_data, written by the other services *)
    signals,    \* id -> kind, None while the row is not visible
    ready,      \* ids whose decision and execution candles are complete
    (* wallet_db *)
    receipts,   \* wallet_signal_consumption: id -> status
    fills,      \* fills rows
    positions,  \* positions rows
    snapshots,  \* accounting_snapshots: id -> [cash, value]
    account,    \* wallet_accounts row: [cash, equity]
    (* one entry per process *)
    pc,         \* where the process is in run_once
    after,      \* after_signal_id of the running receive()
    todo,       \* unconsumed ids of the current batch, still to assemble
    msg,        \* id of the message being processed
    draft,      \* the transaction built by process(), or the receipt to write
    seen,       \* positions rows that the DELETE of the open transaction found
    mem,        \* _cash, _position and the kill switch
    conn,       \* is the wallet_db write connection usable?
    (* history *)
    overtaken,  \* processes whose symbol a rival stored since their DELETE
    torn,       \* symbols last stored by an overtaken process
    (* bounds *)
    restarts, faults

source == <<signals, ready>>
db == <<receipts, fills, positions, snapshots, account>>
proc == <<pc, after, todo, msg, draft, seen>>
history == <<overtaken, torn>>
bounds == <<restarts, faults>>
vars == <<source, db, proc, mem, conn, history, bounds>>

-----------------------------------------------------------------------------
(* Simulation of one signal: pure calculations of process()                *)

Margin(qty, price) == (qty * price) \div Leverage

\* PositionBook.apply on a flat book; the mark price is the entry price, so
\* the position is worth its margin until a later fill re-prices it.
PositionValue(position) ==
    IF position = None THEN 0 ELSE Margin(position.qty, position.price)

Pnl(position, price) ==
    position.qty * (IF position.side = "long"
                    THEN price - position.price
                    ELSE position.price - price)

\* costs.fee.calc: the rate on the notional.
FeeOf(notional) == (notional * FeeRate) \div FeeUnit

\* Faulty variant: the fee of the later exit is not set aside.
AffordableNow(cash, price) ==
    {q \in 1..MaxQty : Margin(q, price) + FeeOf(q * price) <= cash}

\* Margin, entry fee and the fee of a forced exit must fit in cash; the exit is
\* charged on the notional of the entry, whatever its own price will be.
Affordable(cash, price) ==
    {q \in 1..MaxQty :
        Margin(q, price) + FeeOf(q * price) + FeeOf(q * price) <= cash}

\* The bisection's answer: the largest affordable quantity, if there is one.
Truncated(cash, price) ==
    {q \in Affordable(cash, price) : \A r \in Affordable(cash, price) : r <= q}

Entered(id, kind, qty) ==
    [symbol |-> kind.symbol, side |-> kind.side, qty |-> qty,
     price |-> kind.price, opened |-> id]

\* Faulty variant: the position is not re-priced at the exit fill.
CashAfterUnpricedExit(m, price) ==
    m.cash + PositionValue(m.position) - FeeOf(m.position.qty * price)

CashAfterExit(m, price) ==
    m.cash + PositionValue(m.position) + Pnl(m.position, price)
        - FeeOf(m.position.qty * price)

\* reduce_only distinguishes the two legs of a reversal.
FillRow(id, position, price, reduceOnly) ==
    [id |-> id, symbol |-> position.symbol, side |-> position.side,
     qty |-> position.qty, price |-> price, reduce_only |-> reduceOnly]

Exits(kind) == kind.intent \in {"exit", "reverse"}
Enters(kind) == kind.intent \in {"enter", "reverse"}

HasPositionIn(m, symbol) == m.position # None /\ m.position.symbol = symbol

\* RiskRejected before anything is simulated, in the order of the code.
RefusedAtOnce(m, kind) ==
    \/ m.kill
    \/ Exits(kind) /\ ~HasPositionIn(m, kind.symbol)
    \/ kind.intent = "reverse" /\ m.position # None /\ kind.side = m.position.side
    \/ kind.intent = "enter" /\ m.position # None

\* RuntimeError("paper exit would make cash negative").
ExitFails(m, kind) == Exits(kind) /\ CashAfterExit(m, kind.price) < 0

\* The cash an entry leg starts from: a reversal has already closed.
CashBeforeEntry(m, kind) ==
    IF Exits(kind) THEN CashAfterExit(m, kind.price) ELSE m.cash

EntryRefused(cash, kind) ==
    \/ kind.verdict = "no_stop"
    \/ cash > 0 /\ kind.verdict = "over_sized"
    \/ Affordable(cash, kind.price) # {} /\ kind.verdict = "over_filled"

\* ValueError: equity not positive, or margin truncates the order to zero.
EntryFails(cash, kind) ==
    /\ ~EntryRefused(cash, kind)
    /\ Affordable(cash, kind.price) = {}

\* The outcomes of process() before the store; they exclude one another.
Rejected(m, kind) ==
    \/ RefusedAtOnce(m, kind)
    \/ /\ ~RefusedAtOnce(m, kind)
       /\ ~ExitFails(m, kind)
       /\ Enters(kind)
       /\ EntryRefused(CashBeforeEntry(m, kind), kind)

Fails(m, kind) ==
    /\ ~RefusedAtOnce(m, kind)
    /\ \/ ExitFails(m, kind)
       \/ Enters(kind) /\ EntryFails(CashBeforeEntry(m, kind), kind)

ExitLeg(id, m, kind) ==
    FillRow(id, m.position, kind.price, TRUE)

EntryLeg(id, kind, qty) ==
    FillRow(id, Entered(id, kind, qty), kind.price, FALSE)

\* The WalletExecution built on copies of the process's cash and position.
ExitOnly(id, m, kind) ==
    [status |-> "filled", symbol |-> kind.symbol,
     fills |-> {ExitLeg(id, m, kind)},
     cash |-> CashAfterExit(m, kind.price),
     position |-> None]

WithEntry(id, m, kind, qty) ==
    [status |-> "filled", symbol |-> kind.symbol,
     fills |-> {EntryLeg(id, kind, qty)} \cup
                  (IF Exits(kind) THEN {ExitLeg(id, m, kind)} ELSE {}),
     cash |-> CashBeforeEntry(m, kind) - PositionValue(Entered(id, kind, qty))
                  - FeeOf(qty * kind.price),
     position |-> Entered(id, kind, qty)]

Executions(id, m, kind) ==
    IF Enters(kind)
    THEN {WithEntry(id, m, kind, q) : q \in Truncated(CashBeforeEntry(m, kind), kind.price)}
    ELSE {ExitOnly(id, m, kind)}

Receipt(status) ==
    [status |-> status, symbol |-> None, fills |-> {}, cash |-> 0, position |-> None]

-----------------------------------------------------------------------------
(* The queue                                                               *)

Visible == {i \in SignalIds : signals[i] # None}

\* ORDER BY signal_id LIMIT BatchSize.
Page(from) ==
    {i \in Visible :
        /\ i > from
        /\ Cardinality({j \in Visible : from < j /\ j < i}) < BatchSize}

Become(p, label) == pc' = [pc EXCEPT ![p] = label]

\* Faulty variant: the next receive() resumes where the last one stopped.
IdleKeepingCursor(p) ==
    /\ Become(p, "idle")
    /\ todo' = [todo EXCEPT ![p] = {}]
    /\ msg' = [msg EXCEPT ![p] = None]
    /\ draft' = [draft EXCEPT ![p] = None]
    /\ seen' = [seen EXCEPT ![p] = {}]
    /\ UNCHANGED after

Idle(p) ==
    /\ Become(p, "idle")
    /\ after' = [after EXCEPT ![p] = 0]
    /\ todo' = [todo EXCEPT ![p] = {}]
    /\ msg' = [msg EXCEPT ![p] = None]
    /\ draft' = [draft EXCEPT ![p] = None]
    /\ seen' = [seen EXCEPT ![p] = {}]

\* run_once calls receive(), which always scans from the first signal.
ReceiveBegin(p) ==
    /\ pc[p] = "idle"
    /\ Become(p, "scan")
    /\ UNCHANGED <<source, db, after, todo, msg, draft, seen, mem, conn, history, bounds>>

ReadPage(p) ==
    /\ pc[p] = "scan"
    /\ todo[p] = {}
    /\ LET rows == Page(after[p]) IN
       /\ \E last \in rows :
             /\ \A i \in rows : i <= last
             /\ after' = [after EXCEPT ![p] = last]
       /\ todo' = [todo EXCEPT ![p] = {i \in rows : receipts[i] = None}]
    /\ UNCHANGED <<source, db, pc, msg, draft, seen, mem, conn, history, bounds>>

\* No rows left: receive() returns None and the drain ends.
ReadExhausted(p) ==
    /\ pc[p] = "scan"
    /\ todo[p] = {}
    /\ Page(after[p]) = {}
    /\ Idle(p)
    /\ UNCHANGED <<source, db, mem, conn, history, bounds>>

IsNext(p, i) == i \in todo[p] /\ \A j \in todo[p] : i <= j

\* _assemble finds both candles: the message is delivered without a claim.
AssembleReady(p, i) ==
    /\ pc[p] = "scan"
    /\ IsNext(p, i)
    /\ i \in ready
    /\ Become(p, "process")
    /\ msg' = [msg EXCEPT ![p] = i]
    /\ todo' = [todo EXCEPT ![p] = {}]
    /\ after' = [after EXCEPT ![p] = 0]
    /\ UNCHANGED <<source, db, draft, seen, mem, conn, history, bounds>>

\* An incomplete next candle yields no work now; the scan goes on.
AssembleNotReady(p, i) ==
    /\ pc[p] = "scan"
    /\ IsNext(p, i)
    /\ i \notin ready
    /\ todo' = [todo EXCEPT ![p] = @ \ {i}]
    /\ UNCHANGED <<source, db, pc, after, msg, draft, seen, mem, conn, history, bounds>>

-----------------------------------------------------------------------------
(* WalletService.run_once                                                  *)

ProcessRejected(p) ==
    /\ pc[p] = "process"
    /\ Rejected(mem[p], signals[msg[p]])
    /\ Become(p, "record")
    /\ draft' = [draft EXCEPT ![p] = Receipt("rejected")]
    /\ UNCHANGED <<source, db, after, todo, msg, seen, mem, conn, history, bounds>>

\* Any other exception leaves no receipt; the poll ends in an error.
ProcessFails(p) ==
    /\ pc[p] = "process"
    /\ Fails(mem[p], signals[msg[p]])
    /\ Idle(p)
    /\ UNCHANGED <<source, db, mem, conn, history, bounds>>

ProcessExecuted(p) ==
    /\ pc[p] = "process"
    /\ ~Rejected(mem[p], signals[msg[p]])
    /\ ~Fails(mem[p], signals[msg[p]])
    /\ Become(p, "store")
    /\ \E d \in Executions(msg[p], mem[p], signals[msg[p]]) :
          draft' = [draft EXCEPT ![p] = d]
    /\ UNCHANGED <<source, db, after, todo, msg, seen, mem, conn, history, bounds>>

-----------------------------------------------------------------------------
(* PostgresWalletRepository                                                *)
(*                                                                         *)
(* A store is two steps: up to the DELETE, which finds the rows of the     *)
(* symbol that are committed at that moment, and the rest with the commit. *)
(* The locks on rows and keys that it takes in between are held until it   *)
(* ends: they decide which of two rivals commits first, and every order is *)
(* possible here, but not what the rival that waited has found.            *)

InStore(p) == pc[p] = "write"

\* Faulty variant: the receipt's conflict is not looked at.
ConflictIgnored(p) == FALSE /\ receipts[msg[p]] # None

\* ON CONFLICT DO NOTHING on the receipt, or on a leg of the same signal.
Replayed(p) ==
    \/ receipts[msg[p]] # None
    \/ \E f \in draft[p].fills, g \in fills :
          f.id = g.id /\ f.reduce_only = g.reduce_only

\* A rival has inserted the receipt and not yet committed: the INSERT waits.
Claimed(p) ==
    \E q \in Procs \ {p} : InStore(q) /\ msg[q] = msg[p]

\* Committed rows with the primary key of the row to insert that the DELETE
\* did not find.
Duplicates(p) ==
    {r \in positions \ seen[p] :
        /\ draft[p].position # None
        /\ r.symbol = draft[p].position.symbol
        /\ r.side = draft[p].position.side}

\* Faulty variants of the commit: the receipt left to a later transaction,
CommitWithoutReceipt(p) ==
    LET d == draft[p]
        value == PositionValue(d.position)
    IN
    /\ fills' = fills \cup d.fills
    /\ positions' = (positions \ seen[p]) \cup ({d.position} \ {None})
    /\ snapshots' = [snapshots EXCEPT ![msg[p]] = [cash |-> d.cash, value |-> value]]
    /\ account' = [cash |-> d.cash, equity |-> d.cash + value]
    /\ UNCHANGED receipts

\* and the old row of the symbol replaced only by a row of the same side.
CommitBySide(p) ==
    LET d == draft[p]
        value == PositionValue(d.position)
    IN
    /\ receipts' = [receipts EXCEPT ![msg[p]] = "filled"]
    /\ fills' = fills \cup d.fills
    /\ positions' =
          {r \in positions :
              r \in seen[p] /\ d.position # None => r.side # d.position.side}
              \cup ({d.position} \ {None})
    /\ snapshots' = [snapshots EXCEPT ![msg[p]] = [cash |-> d.cash, value |-> value]]
    /\ account' = [cash |-> d.cash, equity |-> d.cash + value]

\* Everything store() commits: receipt, fills, the rows its DELETE found
\* replaced by the final position, the accounting snapshot and the account.
CommitLedger(p) ==
    LET d == draft[p]
        value == PositionValue(d.position)
    IN
    /\ receipts' = [receipts EXCEPT ![msg[p]] = "filled"]
    /\ fills' = fills \cup d.fills
    /\ positions' = (positions \ seen[p]) \cup ({d.position} \ {None})
    /\ snapshots' = [snapshots EXCEPT ![msg[p]] = [cash |-> d.cash, value |-> value]]
    /\ account' = [cash |-> d.cash, equity |-> d.cash + value]

\* History of a commit: rivals that have already deleted for the symbol will
\* not find the new row, and a process that was itself overtaken did not find
\* the row of the rival.
Overtakes(p) ==
    LET symbol == draft[p].symbol
        late == {q \in Procs \ {p} : InStore(q) /\ draft[q].symbol = symbol}
    IN
    /\ overtaken' = (overtaken \cup late) \ {p}
    /\ torn' = IF p \in overtaken THEN torn \cup {symbol} ELSE torn \ {symbol}

\* The transaction ends without a commit, or the process with it.
RollsBack(p) ==
    /\ Idle(p)
    /\ overtaken' = overtaken \ {p}
    /\ UNCHANGED <<source, db, torn>>

\* The receipt and the fills are inserted and the DELETE has run.
StoreDeletes(p) ==
    /\ pc[p] = "store"
    /\ conn[p]
    /\ ~Claimed(p)
    /\ ~Replayed(p)
    /\ Become(p, "write")
    /\ seen' = [seen EXCEPT ![p] = {r \in positions : r.symbol = draft[p].symbol}]
    /\ UNCHANGED <<source, db, after, todo, msg, draft, mem, conn, history, bounds>>

\* Memory follows the ledger only after store() returned True.
StoreCommits(p) ==
    /\ InStore(p)
    /\ Duplicates(p) = {}
    /\ CommitLedger(p)
    /\ Overtakes(p)
    /\ mem' = [mem EXCEPT ![p].cash = draft[p].cash, ![p].position = draft[p].position]
    /\ Idle(p)
    /\ UNCHANGED <<source, conn, bounds>>

\* UniqueViolation on positions: an exception, no receipt, and the poll errors.
StoreCollides(p) ==
    /\ InStore(p)
    /\ Duplicates(p) # {}
    /\ RollsBack(p)
    /\ UNCHANGED <<mem, conn, bounds>>

\* The conflict rolls back; run_once goes on to record "skipped".
StoreReplays(p) ==
    /\ pc[p] = "store"
    /\ conn[p]
    /\ ~Claimed(p)
    /\ Replayed(p)
    /\ Become(p, "record")
    /\ draft' = [draft EXCEPT ![p] = Receipt("skipped")]
    /\ UNCHANGED <<source, db, after, todo, msg, seen, mem, conn, history, bounds>>

\* record_consumption: INSERT ... ON CONFLICT DO NOTHING, then commit.
CommitReceipt(p) ==
    /\ ~Claimed(p)
    /\ receipts' = [receipts EXCEPT ![msg[p]] =
                        IF @ = None THEN draft[p].status ELSE @]
    /\ UNCHANGED <<fills, positions, snapshots, account, history>>

RecordCommits(p) ==
    /\ pc[p] = "record"
    /\ conn[p]
    /\ CommitReceipt(p)
    /\ Idle(p)
    /\ UNCHANGED <<source, mem, conn, bounds>>

\* A statement fails on a live connection: rollback, and the poll errors.
DatabaseRefuses(p) ==
    /\ pc[p] \in {"store", "write", "record"}
    /\ conn[p]
    /\ faults < MaxFaults
    /\ faults' = faults + 1
    /\ \E alive \in BOOLEAN : conn' = [conn EXCEPT ![p] = alive]
    /\ RollsBack(p)
    /\ UNCHANGED <<mem, restarts>>

\* The connection is gone: every later write of this process fails.
DatabaseUnreachable(p) ==
    /\ pc[p] \in {"store", "record"}
    /\ ~conn[p]
    /\ RollsBack(p)
    /\ UNCHANGED <<mem, conn, bounds>>

\* The commit is durable but its acknowledgement is lost with the connection:
\* store() raises and the process keeps its old cash and position.
AcknowledgementLost(p) ==
    /\ conn[p]
    /\ faults < MaxFaults
    /\ faults' = faults + 1
    /\ \/ InStore(p) /\ Duplicates(p) = {} /\ CommitLedger(p) /\ Overtakes(p)
       \/ pc[p] = "record" /\ CommitReceipt(p)
    /\ conn' = [conn EXCEPT ![p] = FALSE]
    /\ Idle(p)
    /\ UNCHANGED <<source, mem, restarts>>

-----------------------------------------------------------------------------
(* The environment of a process                                            *)

FreshMemory == [cash |-> InitialCash, position |-> None, kill |-> FALSE]

\* The process dies anywhere and is started again: no state is reloaded.
Restart(p) ==
    /\ restarts < MaxRestarts
    /\ restarts' = restarts + 1
    /\ mem' = [mem EXCEPT ![p] = FreshMemory]
    /\ conn' = [conn EXCEPT ![p] = TRUE]
    /\ RollsBack(p)
    /\ UNCHANGED faults

\* The one-way switch, engaged from outside at any point of run_once.
EngageKillSwitch(p) ==
    /\ p \in Switches
    /\ ~mem[p].kill
    /\ mem' = [mem EXCEPT ![p].kill = TRUE]
    /\ UNCHANGED <<source, db, proc, conn, history, bounds>>

\* Identity values are drawn before the commit: rows appear in any id order.
Publish(i, kind) ==
    /\ signals[i] = None
    /\ signals' = [signals EXCEPT ![i] = kind]
    /\ UNCHANGED <<ready, db, proc, mem, conn, history, bounds>>

\* The collector stores the last missing minute, live or by a backfill.
CandlesComplete(i) ==
    /\ signals[i] # None
    /\ i \notin ready
    /\ ready' = ready \cup {i}
    /\ UNCHANGED <<signals, db, proc, mem, conn, history, bounds>>

-----------------------------------------------------------------------------

Init ==
    /\ signals = [i \in SignalIds |-> None]
    /\ ready = {}
    /\ receipts = [i \in SignalIds |-> None]
    /\ fills = {}
    /\ positions = {}
    /\ snapshots = [i \in SignalIds |-> None]
    /\ account = None
    /\ pc = [p \in Procs |-> "idle"]
    /\ after = [p \in Procs |-> 0]
    /\ todo = [p \in Procs |-> {}]
    /\ msg = [p \in Procs |-> None]
    /\ draft = [p \in Procs |-> None]
    /\ seen = [p \in Procs |-> {}]
    /\ overtaken = {}
    /\ torn = {}
    /\ mem = [p \in Procs |-> FreshMemory]
    /\ conn = [p \in Procs |-> TRUE]
    /\ restarts = 0
    /\ faults = 0

\* One iteration of the drain loop, as far as the process itself drives it.
RunOnce(p) ==
    \/ ReceiveBegin(p)
    \/ ReadPage(p)
    \/ ReadExhausted(p)
    \/ \E i \in SignalIds : AssembleReady(p, i) \/ AssembleNotReady(p, i)
    \/ ProcessRejected(p)
    \/ ProcessFails(p)
    \/ ProcessExecuted(p)
    \/ StoreDeletes(p)
    \/ StoreCommits(p)
    \/ StoreCollides(p)
    \/ StoreReplays(p)
    \/ RecordCommits(p)
    \/ DatabaseUnreachable(p)

Environment(p) ==
    \/ DatabaseRefuses(p)
    \/ AcknowledgementLost(p)
    \/ Restart(p)
    \/ EngageKillSwitch(p)

Sources ==
    \E i \in SignalIds :
        \/ \E kind \in SignalKinds : Publish(i, kind)
        \/ CandlesComplete(i)

Next ==
    \/ \E p \in Procs : RunOnce(p) \/ Environment(p)
    \/ Sources

Spec == Init /\ [][Next]_vars

\* The runner polls and drains again and again while the process lives.
FairSpec == Spec /\ \A p \in Procs : WF_vars(RunOnce(p))

-----------------------------------------------------------------------------
(* Types                                                                   *)

FillType ==
    [id : SignalIds, symbol : Symbols, side : Sides,
     qty : Nat \ {0}, price : Nat \ {0}, reduce_only : BOOLEAN]

ExecutionType ==
    [status : {"filled"}, symbol : Symbols, fills : SUBSET FillType,
     cash : Int, position : Position \cup {None}]

ReceiptTypes == {Receipt("rejected"), Receipt("skipped")}

\* The shape of every variable.
TypeOK ==
    /\ signals \in [SignalIds -> SignalKinds \cup {None}]
    /\ ready \in SUBSET SignalIds
    /\ receipts \in [SignalIds -> {"filled", "rejected", "skipped", None}]
    /\ fills \in SUBSET FillType
    /\ positions \in SUBSET Position
    /\ snapshots \in [SignalIds -> [cash : Int, value : Int] \cup {None}]
    /\ account \in [cash : Int, equity : Int] \cup {None}
    /\ pc \in [Procs -> {"idle", "scan", "process", "store", "write", "record"}]
    /\ after \in [Procs -> Nat]
    /\ todo \in [Procs -> SUBSET SignalIds]
    /\ msg \in [Procs -> SignalIds \cup {None}]
    /\ draft \in [Procs -> ExecutionType \cup ReceiptTypes \cup {None}]
    /\ seen \in [Procs -> SUBSET Position]
    /\ mem \in [Procs -> [cash : Int, position : Position \cup {None}, kill : BOOLEAN]]
    /\ conn \in [Procs -> BOOLEAN]
    /\ overtaken \in SUBSET Procs
    /\ torn \in SUBSET Symbols
    /\ restarts \in Nat
    /\ faults \in Nat

-----------------------------------------------------------------------------
(* Safety that holds for any number of processes, crashes and faults       *)

Ledger == INSTANCE PaperLedger WITH
    legs <- [i \in SignalIds |-> {f.reduce_only : f \in {g \in fills : g.id = i}}]

\* However many processes race, crash or lose an acknowledgement, wallet_db
\* moves as PaperLedger allows: one final receipt per signal, "filled" together
\* with exactly the legs of the intent, "rejected" with none, and the status
\* "skipped" never reaches the table (a replay finds a receipt already there).
ImplementsLedger == Ledger!Spec

\* store() writes receipt, fills and accounting as one unit: an accounting
\* snapshot exists for precisely the signals whose receipt says filled.
SnapshotIffFilled ==
    \A i \in SignalIds : (receipts[i] = "filled") <=> (snapshots[i] # None)

\* A restarted process enters a symbol again although wallet_db still shows its
\* old position, and rivals enter it from both sides: two rows of one symbol can
\* stand only where two stores overlapped and the later one did not find the
\* row of the earlier, never on one side, and only until the next store of the
\* symbol that no rival overtakes.
RowsMultiplyOnlyInRaces ==
    \A r, s \in positions :
        r.symbol = s.symbol /\ r # s => r.side # s.side /\ r.symbol \in torn

\* The price has not moved against the position since its entry.
NotWorse(position, price) ==
    IF position.side = "long" THEN price >= position.price ELSE price <= position.price

\* matcher._entry_cash_requirement sets the exit fee aside at the notional of
\* the entry.  Whoever holds a position still has that much cash after any
\* chain of reversals, and it is enough for every exit that is not at a loss: a
\* higher notional owes more than was set aside, but no more than it has won.
\* (An exit at a loss may fail: see ReadySignalsAreReceipted.)
ExitFeeReserved ==
    \A p \in Procs :
        LET m == mem[p] IN
        m.position # None =>
            /\ m.cash >= FeeOf(m.position.qty * m.position.price)
            /\ \A kind \in SignalKinds :
                  NotWorse(m.position, kind.price) => CashAfterExit(m, kind.price) >= 0

-----------------------------------------------------------------------------
(* What the inductive argument for the ledger needs besides                *)

\* A process works on a published signal, and a transaction that is or waits to
\* be stored carries exactly the legs that its own signal's intent calls for.
WorkInProgress ==
    \A p \in Procs :
        /\ \A i \in todo[p] : signals[i] # None
        /\ pc[p] \in {"process", "store", "write", "record"} =>
              msg[p] \in SignalIds /\ signals[msg[p]] # None
        /\ pc[p] \in {"store", "write"} =>
              /\ draft[p] \in ExecutionType
              /\ \A f \in draft[p].fills : f.id = msg[p]
              /\ {f.reduce_only : f \in draft[p].fills} =
                    Ledger!LegsOf(signals[msg[p]].intent)

\* An open transaction has inserted a receipt that nobody else has.
ClaimsAreExclusive ==
    \A p \in Procs : InStore(p) => receipts[msg[p]] = None /\ ~Claimed(p)

\* "skipped" is only ever drafted for a signal that has its receipt already,
\* and ON CONFLICT DO NOTHING then leaves that receipt alone.
SkippedOnlyAfterReceipt ==
    /\ \A p \in Procs :
          pc[p] = "record" =>
              /\ draft[p] \in ReceiptTypes
              /\ draft[p].status = "skipped" => receipts[msg[p]] # None
    /\ \A i \in SignalIds : receipts[i] # "skipped"

\* No fill without its receipt: together with the receipt's primary key this
\* is why a replay cannot add a leg to an older execution.
FillsHaveReceipts ==
    \A f \in fills : receipts[f.id] = "filled"

LedgerInv ==
    /\ TypeOK
    /\ WorkInProgress
    /\ ClaimsAreExclusive
    /\ SkippedOnlyAfterReceipt
    /\ FillsHaveReceipts
    /\ SnapshotIffFilled

-----------------------------------------------------------------------------
(* Safety of one process during one lifetime                               *)

\* Signed full notional: what a fill adds to the position's cost.
SignedNotional(f, sign) ==
    f.qty * f.price * (IF f.side = "long" THEN sign ELSE -sign)

FillCost(f) ==
    SignedNotional(f, IF f.reduce_only THEN -1 ELSE 1) + FeeOf(f.qty * f.price)
OpenNotional(r) == SignedNotional(r, 1)

\* Across any chain of entries, exits and reversals the wallet's equity is the
\* initial cash, less what the fills paid and their fees, net of what the open
\* position cost: no leg is lost, doubled or charged twice.
LedgerConserved ==
    account # None =>
        account.equity = InitialCash - MapThenSumSet(FillCost, fills)
                            + MapThenSumSet(OpenNotional, positions)

\* Between two polls a process whose connection is alive holds in memory the
\* cash and the position that wallet_db shows: the positions table is the
\* "current paper position".  True only while the process never restarts.
PositionsTableIsCurrent ==
    \A p \in Procs :
        pc[p] = "idle" /\ conn[p] =>
            /\ positions = {mem[p].position} \ {None}
            /\ account # None => account.cash = mem[p].cash

-----------------------------------------------------------------------------
(* Liveness                                                                *)

\* Every signal whose candles are complete gets its terminal receipt, unless
\* every process has lost its write connection: rows that became visible late
\* or candles that completed late are found by a later scan.
ReadySignalsAreReceipted ==
    \A i \in SignalIds :
        (i \in ready) ~> (receipts[i] # None \/ \A p \in Procs : ~conn[p])

=============================================================================

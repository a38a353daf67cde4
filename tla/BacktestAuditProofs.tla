------------------------ MODULE BacktestAuditProofs ------------------------
(***************************************************************************)
(* What the audit of a run relies on, for every tape, strategy, funding    *)
(* rate, leverage and cost: the loop stays consistent, nothing is held     *)
(* over missing candles, fills follow their decisions in time, rows that   *)
(* name a trade come after it, a position that survives a candle is inside *)
(* its protections, a forced exit costs no more than the margin, and when  *)
(* the run has finished nothing is missing from its evidence.              *)
(*                                                                         *)
(* Most of them share one inductive invariant, Audited.  Its parts         *)
(* Queue and Settlement depend on each other: an exit queued at a close    *)
(* finds its position at the next open only because the boundary between   *)
(* the two was charged at the close already, so that settling it at the    *)
(* open never liquidates; and that needs every boundary up to the close to *)
(* have been charged, over a tape without a gap.                           *)
(*                                                                         *)
(* AuditIsComplete adds Complete, an account of the evidence in the middle *)
(* of a run: which rows wait with the trade, and which decision is         *)
(* unexecuted.  FundingIsChargedOnce adds FundingKept, an account of the   *)
(* funding billed to completed trades and to the open one.                 *)
(***************************************************************************)
EXTENDS BacktestEngineProofs, FiniteSums, FiniteSetTheorems, SequenceTheorems

\* The rows of the evidence file.
EvidenceType ==
    [table : {"DECISION", "SKIP"}, id : Nat, ts : Nat]
    \cup [table : {"EXECUTION"}, decision : Nat \cup {None},
          reason : ExitReason \cup {None}, ts : Nat]
    \cup [table : {"POSITION"}, seq : Nat, trade : Nat \cup {None}]
    \cup [table : {"FUNDING_SETTLEMENT"}, trade : Nat, at : Nat, payment : Int,
          theoretical : Int]
    \cup [table : {"TRADE"}, id : Nat, entered : Nat, exited : Nat,
          reason : ExitReason, funding : Int]

Recorded(log, id, at) ==
    \E i \in DOMAIN log :
        log[i].table = "DECISION" /\ log[i].id = id /\ log[i].ts = at

\* An execution at the time at may follow this decision.
FollowsDecision(log, decision, reason, at) ==
    IF decision = None THEN reason = "END_OF_DATA"
    ELSE \E i \in DOMAIN log :
             /\ log[i].table = "DECISION" /\ log[i].id = decision
             /\ log[i].ts < at /\ at <= log[i].ts + Span

Timely(log) ==
    \A i \in DOMAIN log :
        log[i].table = "EXECUTION" =>
            FollowsDecision(log, log[i].decision, log[i].reason, log[i].ts)

Resolved(log) ==
    \A i \in DOMAIN log :
        log[i].table \in {"POSITION", "FUNDING_SETTLEMENT"} /\ log[i].trade # None =>
            \E j \in DOMAIN log :
                j < i /\ log[j].table = "TRADE" /\ log[j].id = log[i].trade

SoundLog(log) == log \in Seq(EvidenceType) /\ Timely(log) /\ Resolved(log)

OwnRows(t) ==
    /\ \A i \in DOMAIN t.marks : t.marks[i].trade = t.id
    /\ \A i \in DOMAIN t.settlements : t.settlements[i].trade = t.id

\* A position and its trade come and go together.
Paired(p, t) ==
    \/ p = None /\ t = None
    \/ p \in PositionType /\ t \in TradeType /\ OwnRows(t)

Books == cash \in Nat /\ Paired(position, trade)

\* The tape moves on, and every candle contains its open.
Proper(c) ==
    c.low <= c.open /\ c.open <= c.high /\ c.closeTime = c.openTime + Span

OnTape ==
    /\ Proper(candle) /\ bars \in 1 .. MaxBars
    /\ next # None => Proper(next) /\ next.openTime >= candle.closeTime
                      /\ bars < MaxBars

Running == phase \notin Ended

\* The level of a held position is the one its margin leaves.
LevelIsCurrent ==
    position # None =>
        position.liquidation = LiquidationPrice(position.side, position.entry,
                                                position.qty, position.margin)

Exits(o) == o.reason # None

\* What is queued is an exit of the position, an entry into a flat book, or both.
Shaped(orders, p) ==
    \/ orders = <<>>
    \/ Len(orders) = 1 /\ (Exits(orders[1]) <=> p # None)
    \/ Len(orders) = 2 /\ Exits(orders[1]) /\ ~Exits(orders[2]) /\ p # None

QueuedAt(time) ==
    \A i \in DOMAIN pending :
        /\ pending[i].decided = time
        /\ Recorded(evidence, pending[i].decision, time)

Queue ==
    /\ phase \in {"open", "orders"} => QueuedAt(candle.openTime)
    /\ phase \in {"gap", "turn"} => QueuedAt(candle.closeTime)
    /\ phase \in {"funding", "triggers", "mark", "analyze"} => pending = <<>>
    /\ phase \in {"gap", "turn"} /\ pending # <<>> => Follows
    /\ phase = "gap" => Gap
    /\ phase = "turn" /\ Gap => position = None
    /\ Shaped(pending, position)

\* Every boundary since the entry, up to time, has been charged.
SettledThrough(time) ==
    position # None =>
        \A b \in trade.entered + 1 .. time :
            b % FundingEvery = 0 => b \in trade.settled

Settlement ==
    /\ phase \in {"open", "orders"} => SettledThrough(candle.openTime)
    /\ phase = "orders" => cursor = candle.openTime
    /\ phase = "funding" => SettledThrough(cursor)
    /\ phase \in {"triggers", "mark", "analyze", "gap", "turn"} =>
           SettledThrough(candle.closeTime)

Audited ==
    /\ phase \in Phases /\ OnTape /\ Books /\ SoundLog(evidence)
    /\ NoInconsistency /\ SurvivorsStayInside
    /\ Running => LevelIsCurrent /\ Queue /\ Settlement
-----------------------------------------------------------------------------
(* Logs that grow *)

\* longer begins with the rows of log.
Grows(log, longer) ==
    /\ DOMAIN log \subseteq DOMAIN longer
    /\ \A i \in DOMAIN log : longer[i] = log[i]

\* What a log has recorded stays recorded.
LEMMA GrowthKeepsRecords ==
    ASSUME NEW log, NEW longer, Grows(log, longer)
    PROVE  /\ \A id, at : Recorded(log, id, at) => Recorded(longer, id, at)
           /\ \A decision, reason, at :
                  FollowsDecision(log, decision, reason, at)
                      => FollowsDecision(longer, decision, reason, at)
<1>1. ASSUME NEW id, NEW at, Recorded(log, id, at)
      PROVE  Recorded(longer, id, at)
  BY <1>1 DEF Recorded, Grows
<1>2. ASSUME NEW decision, NEW reason, NEW at,
             FollowsDecision(log, decision, reason, at)
      PROVE  FollowsDecision(longer, decision, reason, at)
  BY <1>2 DEF FollowsDecision, Grows
<1> QED
  BY <1>1, <1>2

LEMMA ConcatenationGrows ==
    ASSUME NEW log \in Seq(EvidenceType), NEW rows \in Seq(EvidenceType)
    PROVE  /\ log \o rows \in Seq(EvidenceType)
           /\ Grows(log, log \o rows)
           /\ DOMAIN (log \o rows) = 1 .. Len(log) + Len(rows)
           /\ \A i \in 1 .. Len(rows) : (log \o rows)[Len(log) + i] = rows[i]
           /\ \A i \in DOMAIN (log \o rows) :
                  \/ i \in DOMAIN log /\ (log \o rows)[i] = log[i]
                  \/ \E k \in 1 .. Len(rows) :
                         i = Len(log) + k /\ (log \o rows)[i] = rows[k]
<1>1. /\ log \o rows \in Seq(EvidenceType)
      /\ Len(log \o rows) = Len(log) + Len(rows)
      /\ \A i \in 1 .. Len(log) + Len(rows) :
             (log \o rows)[i] = IF i <= Len(log) THEN log[i]
                                ELSE rows[i - Len(log)]
  BY ConcatProperties, Zenon
<1>2. /\ Len(log) \in Nat /\ Len(rows) \in Nat
      /\ DOMAIN log = 1 .. Len(log)
      /\ DOMAIN (log \o rows) = 1 .. Len(log) + Len(rows)
  BY <1>1, LenProperties
<1> DEFINE longer == log \o rows
<1> HIDE DEF longer
<1>3. ASSUME NEW i \in 1 .. Len(rows)
      PROVE  longer[Len(log) + i] = rows[i]
  <2>1. /\ Len(log) + i \in 1 .. Len(log) + Len(rows)
        /\ ~(Len(log) + i <= Len(log)) /\ Len(log) + i - Len(log) = i
    BY <1>2
  <2> QED
    BY <1>1, <2>1 DEF longer
<1>4. Grows(log, longer)
  BY <1>1, <1>2 DEF Grows, longer
<1>5. ASSUME NEW i \in DOMAIN longer, i \notin DOMAIN log
      PROVE  \E k \in 1 .. Len(rows) : i = Len(log) + k /\ longer[i] = rows[k]
  <2>1. i - Len(log) \in 1 .. Len(rows) /\ i = Len(log) + (i - Len(log))
    BY <1>2, <1>5 DEF longer
  <2>2. longer[Len(log) + (i - Len(log))] = rows[i - Len(log)]
    BY <1>3, <2>1
  <2> QED
    BY <2>1, <2>2
<1>6. \A i \in DOMAIN longer :
          \/ i \in DOMAIN log /\ longer[i] = log[i]
          \/ \E k \in 1 .. Len(rows) : i = Len(log) + k /\ longer[i] = rows[k]
  BY <1>4, <1>5 DEF Grows
<1> QED
  BY <1>1, <1>2, <1>3, <1>4, <1>6 DEF longer

\* Rows that follow decisions of the log, and name no trade or one that these
\* rows complete first, leave the log sound.
LEMMA AddRows ==
    ASSUME NEW log, SoundLog(log), NEW rows \in Seq(EvidenceType),
           \A i \in 1 .. Len(rows) :
               rows[i].table = "EXECUTION" =>
                   FollowsDecision(log, rows[i].decision, rows[i].reason,
                                   rows[i].ts),
           \A i \in 1 .. Len(rows) :
               rows[i].table \in {"POSITION", "FUNDING_SETTLEMENT"}
                   /\ rows[i].trade # None =>
                   \E j \in 1 .. Len(rows) :
                       j < i /\ rows[j].table = "TRADE"
                             /\ rows[j].id = rows[i].trade
    PROVE  SoundLog(log \o rows) /\ Grows(log, log \o rows)
<1> DEFINE longer == log \o rows
           n == Len(log)
<1>1. log \in Seq(EvidenceType) /\ Timely(log) /\ Resolved(log)
  BY DEF SoundLog
<1>2. /\ longer \in Seq(EvidenceType) /\ Grows(log, longer)
      /\ DOMAIN longer = 1 .. n + Len(rows)
      /\ \A i \in 1 .. Len(rows) : longer[n + i] = rows[i]
  BY <1>1, ConcatenationGrows
<1>3. n \in Nat /\ Len(rows) \in Nat /\ DOMAIN log = 1 .. n
  BY <1>1, LenProperties
<1>4. \A i \in DOMAIN longer :
          \/ i \in DOMAIN log /\ longer[i] = log[i]
          \/ \E k \in 1 .. Len(rows) : i = n + k /\ longer[i] = rows[k]
  BY <1>1, ConcatenationGrows
<1> HIDE DEF longer, n
<1>5. Timely(longer)
  <2> SUFFICES ASSUME NEW i \in DOMAIN longer, longer[i].table = "EXECUTION"
               PROVE  FollowsDecision(longer, longer[i].decision,
                                      longer[i].reason, longer[i].ts)
    BY DEF Timely
  <2>1. FollowsDecision(log, longer[i].decision, longer[i].reason, longer[i].ts)
    BY <1>1, <1>4 DEF Timely
  <2> QED
    BY <1>2, <2>1, GrowthKeepsRecords
<1>6. Resolved(longer)
  <2> SUFFICES ASSUME NEW i \in DOMAIN longer,
                      longer[i].table \in {"POSITION", "FUNDING_SETTLEMENT"},
                      longer[i].trade # None
               PROVE  \E j \in DOMAIN longer :
                          j < i /\ longer[j].table = "TRADE"
                                /\ longer[j].id = longer[i].trade
    BY DEF Resolved
  <2>1. CASE i \in DOMAIN log /\ longer[i] = log[i]
    <3>1. PICK j \in DOMAIN log :
              j < i /\ log[j].table = "TRADE" /\ log[j].id = log[i].trade
      BY <1>1, <2>1 DEF Resolved
    <3> QED
      BY <1>2, <2>1, <3>1 DEF Grows
  <2>2. ASSUME NEW k \in 1 .. Len(rows), i = n + k, longer[i] = rows[k]
        PROVE  \E j \in DOMAIN longer :
                   j < i /\ longer[j].table = "TRADE"
                         /\ longer[j].id = longer[i].trade
    <3>1. PICK j \in 1 .. Len(rows) :
              j < k /\ rows[j].table = "TRADE" /\ rows[j].id = rows[k].trade
      BY <2>2
    <3>2. n + j \in DOMAIN longer /\ n + j < i
      BY <1>2, <1>3, <2>2, <3>1
    <3>3. longer[n + j] = rows[j]
      BY <1>2
    <3> QED
      BY <2>2, <3>1, <3>2, <3>3
  <2> QED
    BY <1>4, <2>1, <2>2
<1> QED
  BY <1>2, <1>5, <1>6 DEF SoundLog, longer

\* One row that names no trade.
LEMMA AddRow ==
    ASSUME NEW log, SoundLog(log), NEW row \in EvidenceType,
           row.table = "EXECUTION" =>
               FollowsDecision(log, row.decision, row.reason, row.ts),
           row.table \in {"POSITION", "FUNDING_SETTLEMENT"} => row.trade = None
    PROVE  /\ SoundLog(Append(log, row)) /\ Grows(log, Append(log, row))
           /\ Len(log) + 1 \in DOMAIN Append(log, row)
           /\ Append(log, row)[Len(log) + 1] = row
<1> DEFINE rows == <<row>>
<1>1. rows \in Seq(EvidenceType) /\ Len(rows) = 1 /\ rows[1] = row
  OBVIOUS
<1>2. log \in Seq(EvidenceType)
  BY DEF SoundLog
<1>3. Append(log, row) = log \o rows
  BY <1>2
<1>4. Len(log) \in Nat /\ DOMAIN Append(log, row) = 1 .. Len(log) + 1
      /\ Append(log, row)[Len(log) + 1] = row
  BY <1>2
<1> HIDE DEF rows
<1>5. \A i \in 1 .. Len(rows) : rows[i] = row
  BY <1>1
<1>6. SoundLog(log \o rows) /\ Grows(log, log \o rows)
  BY <1>1, <1>5, AddRows
<1> QED
  BY <1>3, <1>4, <1>6

\* A decision to act, or to skip, can always be recorded.
LEMMA AddDecision ==
    ASSUME NEW log, SoundLog(log), NEW id \in Nat, NEW at \in Nat
    PROVE  /\ SoundLog(Append(log, DecisionRow(id, at)))
           /\ Grows(log, Append(log, DecisionRow(id, at)))
           /\ Recorded(Append(log, DecisionRow(id, at)), id, at)
           /\ SoundLog(Append(log, SkipRow(id, at)))
           /\ Grows(log, Append(log, SkipRow(id, at)))
<1>1. /\ DecisionRow(id, at) \in EvidenceType
      /\ DecisionRow(id, at).table = "DECISION"
      /\ DecisionRow(id, at).id = id /\ DecisionRow(id, at).ts = at
  BY DEF DecisionRow, EvidenceType
<1>2. SkipRow(id, at) \in EvidenceType /\ SkipRow(id, at).table = "SKIP"
  BY DEF SkipRow, EvidenceType
<1>3. /\ SoundLog(Append(log, DecisionRow(id, at)))
      /\ Grows(log, Append(log, DecisionRow(id, at)))
      /\ Len(log) + 1 \in DOMAIN Append(log, DecisionRow(id, at))
      /\ Append(log, DecisionRow(id, at))[Len(log) + 1] = DecisionRow(id, at)
  BY <1>1, AddRow
<1>4. SoundLog(Append(log, SkipRow(id, at))) /\ Grows(log, Append(log, SkipRow(id, at)))
  BY <1>2, AddRow
<1>5. Recorded(Append(log, DecisionRow(id, at)), id, at)
  BY <1>1, <1>3 DEF Recorded
<1> QED
  BY <1>3, <1>4, <1>5

-----------------------------------------------------------------------------
(* Exits *)

\* The rows a completed trade brings name that trade, behind its own row.
LEMMA FlushedRows ==
    ASSUME NEW t \in TradeType, OwnRows(t), NEW at \in Nat,
           NEW reason \in ExitReason
    PROVE  /\ Flushed(t, at, reason) \in Seq(EvidenceType)
           /\ \A i \in 1 .. Len(Flushed(t, at, reason)) :
                  Flushed(t, at, reason)[i].table \notin {"EXECUTION", "DECISION"}
           /\ Len(t.marks) \in Nat
           /\ \A i \in 1 .. Len(t.marks) :
                  /\ i + 1 \in 1 .. Len(Flushed(t, at, reason))
                  /\ Flushed(t, at, reason)[i + 1] = t.marks[i]
                  /\ t.marks[i].table = "POSITION"
           /\ \A i \in 1 .. Len(Flushed(t, at, reason)) :
                  Flushed(t, at, reason)[i].table = "POSITION" =>
                      i - 1 \in 1 .. Len(t.marks)
           /\ \A i \in 1 .. Len(Flushed(t, at, reason)) :
                  Flushed(t, at, reason)[i].table \in {"POSITION", "FUNDING_SETTLEMENT"} =>
                      \E j \in 1 .. Len(Flushed(t, at, reason)) :
                          /\ j < i /\ Flushed(t, at, reason)[j].table = "TRADE"
                          /\ Flushed(t, at, reason)[j].id
                                 = Flushed(t, at, reason)[i].trade
           /\ 1 \in 1 .. Len(Flushed(t, at, reason))
           /\ Flushed(t, at, reason)[1] = TradeRow(t, at, reason)
           /\ \A i \in 1 .. Len(Flushed(t, at, reason)) :
                  Flushed(t, at, reason)[i].table = "TRADE" => i = 1
           /\ Len(t.settlements) \in Nat
           /\ \A k \in 1 .. Len(t.settlements) :
                  /\ 1 + Len(t.marks) + k \in 1 .. Len(Flushed(t, at, reason))
                  /\ Flushed(t, at, reason)[1 + Len(t.marks) + k] = t.settlements[k]
                  /\ t.settlements[k].table = "FUNDING_SETTLEMENT"
                  /\ t.settlements[k].trade = t.id
           /\ \A i \in 1 .. Len(Flushed(t, at, reason)) :
                  Flushed(t, at, reason)[i].table = "FUNDING_SETTLEMENT" =>
                      \E k \in 1 .. Len(t.settlements) : i = 1 + Len(t.marks) + k
<1> DEFINE head == <<TradeRow(t, at, reason)>>
           rows == Flushed(t, at, reason)
           n == Len(t.marks)
           m == Len(t.settlements)
<1>1. /\ t.id \in Nat /\ t.entered \in Nat /\ t.funding \in Int
      /\ t.marks \in Seq([table : {"POSITION"}, seq : Nat, trade : Nat])
      /\ t.settlements \in Seq([table : {"FUNDING_SETTLEMENT"}, trade : Nat,
                                at : Nat, payment : Int, theoretical : Int])
  BY DEF TradeType
<1>2. /\ TradeRow(t, at, reason) \in EvidenceType
      /\ TradeRow(t, at, reason).table = "TRADE"
      /\ TradeRow(t, at, reason).id = t.id
  BY <1>1 DEF TradeRow, EvidenceType
<1>3. /\ t.marks \in Seq(EvidenceType) /\ n \in Nat
      /\ \A i \in 1 .. n : t.marks[i].table = "POSITION" /\ t.marks[i].trade = t.id
  <2>1. [table : {"POSITION"}, seq : Nat, trade : Nat] \subseteq EvidenceType
    BY DEF EvidenceType
  <2>2. n \in Nat /\ DOMAIN t.marks = 1 .. n
    BY <1>1, LenProperties
  <2>3. \A i \in 1 .. n : t.marks[i] \in [table : {"POSITION"}, seq : Nat, trade : Nat]
    BY <1>1, ElementOfSeq
  <2> QED
    BY <1>1, <2>1, <2>2, <2>3, SeqMonotonic DEF OwnRows
<1>4. /\ t.settlements \in Seq(EvidenceType) /\ m \in Nat
      /\ \A i \in 1 .. m : t.settlements[i].table = "FUNDING_SETTLEMENT"
                           /\ t.settlements[i].trade = t.id
  <2> DEFINE S == [table : {"FUNDING_SETTLEMENT"}, trade : Nat, at : Nat,
                   payment : Int, theoretical : Int]
  <2>1. S \subseteq EvidenceType
    BY DEF EvidenceType
  <2>2. m \in Nat /\ DOMAIN t.settlements = 1 .. m
    BY <1>1, LenProperties
  <2>3. \A i \in 1 .. m : t.settlements[i] \in S
    BY <1>1, ElementOfSeq
  <2> QED
    BY <1>1, <2>1, <2>2, <2>3, SeqMonotonic DEF OwnRows
<1>5. head \in Seq(EvidenceType) /\ Len(head) = 1 /\ head[1] = TradeRow(t, at, reason)
  BY <1>2
<1> HIDE DEF head, n, m
<1> DEFINE marked == head \o t.marks
<1>6. /\ marked \in Seq(EvidenceType) /\ Len(marked) = 1 + n
      /\ marked[1] = TradeRow(t, at, reason)
      /\ \A i \in 2 .. 1 + n : marked[i] = t.marks[i - 1]
  BY <1>3, <1>5, ConcatProperties DEF n
<1> HIDE DEF marked
<1>7. rows = marked \o t.settlements
  BY DEF Flushed, marked, head
<1>8. /\ rows \in Seq(EvidenceType) /\ Len(rows) = 1 + n + m
      /\ \A i \in 1 .. 1 + n : rows[i] = marked[i]
      /\ \A i \in 2 + n .. 1 + n + m : rows[i] = t.settlements[i - (1 + n)]
  <2>1. /\ marked \o t.settlements \in Seq(EvidenceType)
        /\ Len(marked \o t.settlements) = 1 + n + m
        /\ \A i \in 1 .. 1 + n + m :
               (marked \o t.settlements)[i]
                   = IF i <= 1 + n THEN marked[i] ELSE t.settlements[i - (1 + n)]
    <3>1. /\ marked \o t.settlements \in Seq(EvidenceType)
          /\ Len(marked \o t.settlements) = Len(marked) + Len(t.settlements)
          /\ \A i \in 1 .. Len(marked) + Len(t.settlements) :
                 (marked \o t.settlements)[i]
                     = IF i <= Len(marked) THEN marked[i]
                       ELSE t.settlements[i - Len(marked)]
      BY <1>4, <1>6, ConcatProperties, Zenon
    <3> QED
      BY <1>6, <3>1, Zenon DEF m
  <2> QED
    BY <1>3, <1>4, <1>7, <2>1
<1> HIDE DEF rows
<1>9. rows[1].table = "TRADE" /\ rows[1].id = t.id /\ 1 \in 1 .. Len(rows)
  BY <1>2, <1>3, <1>4, <1>6, <1>8
<1>10. ASSUME NEW i \in 1 .. Len(rows), i # 1
       PROVE  /\ rows[i].table \in {"POSITION", "FUNDING_SETTLEMENT"}
              /\ rows[i].trade = t.id
  <2>1. CASE i <= 1 + n
    <3>1. i - 1 \in 1 .. n /\ i \in 2 .. 1 + n /\ i \in 1 .. 1 + n
      BY <1>3, <1>4, <1>8, <1>10, <2>1
    <3> QED
      BY <1>3, <1>6, <1>8, <3>1
  <2>2. CASE i > 1 + n
    <3>1. i - (1 + n) \in 1 .. m /\ i \in 2 + n .. 1 + n + m
      BY <1>3, <1>4, <1>8, <1>10, <2>2
    <3> QED
      BY <1>4, <1>8, <3>1
  <2> QED
    BY <1>3, <2>1, <2>2
<1>11. \A i \in 1 .. Len(rows) : rows[i].table \notin {"EXECUTION", "DECISION"}
  BY <1>9, <1>10
<1>12. ASSUME NEW i \in 1 .. Len(rows),
              rows[i].table \in {"POSITION", "FUNDING_SETTLEMENT"}
       PROVE  \E j \in 1 .. Len(rows) :
                  j < i /\ rows[j].table = "TRADE" /\ rows[j].id = rows[i].trade
  <2>1. i # 1
    BY <1>9, <1>12
  <2>2. 1 < i /\ rows[i].trade = t.id
    BY <1>10, <2>1
  <2> QED
    BY <1>9, <2>2
<1>13. ASSUME NEW i \in 1 .. n
       PROVE  /\ i + 1 \in 1 .. Len(rows) /\ rows[i + 1] = t.marks[i]
              /\ t.marks[i].table = "POSITION"
  <2>1. i + 1 \in 2 .. 1 + n /\ i + 1 \in 1 .. 1 + n /\ i + 1 - 1 = i
        /\ i + 1 \in 1 .. Len(rows)
    BY <1>3, <1>4, <1>8
  <2>2. marked[i + 1] = t.marks[i + 1 - 1]
    BY <1>6, <2>1
  <2> QED
    BY <1>3, <1>8, <2>1, <2>2
<1>14. ASSUME NEW i \in 1 .. Len(rows), rows[i].table = "POSITION"
       PROVE  i - 1 \in 1 .. n
  <2>1. i # 1
    BY <1>9, <1>14
  <2>2. CASE i <= 1 + n
    BY <1>3, <1>4, <1>8, <2>1, <2>2
  <2>3. CASE i > 1 + n
    <3>1. i - (1 + n) \in 1 .. m /\ i \in 2 + n .. 1 + n + m
      BY <1>3, <1>4, <1>8, <2>3
    <3>2. rows[i].table = "FUNDING_SETTLEMENT"
      BY <1>4, <1>8, <3>1
    <3> QED
      BY <1>14, <3>2
  <2> QED
    BY <1>3, <2>2, <2>3
<1>15. rows[1] = TradeRow(t, at, reason) /\ \A i \in 1 .. Len(rows) :
           rows[i].table = "TRADE" => i = 1
  <2>1. rows[1] = TradeRow(t, at, reason)
    BY <1>3, <1>6, <1>8
  <2> QED
    BY <1>10, <2>1
<1>16. ASSUME NEW k \in 1 .. m
       PROVE  /\ 1 + n + k \in 1 .. Len(rows) /\ rows[1 + n + k] = t.settlements[k]
              /\ t.settlements[k].table = "FUNDING_SETTLEMENT"
              /\ t.settlements[k].trade = t.id
  <2> DEFINE j == 1 + n + k
  <2>1. j \in 2 + n .. 1 + n + m /\ j \in 1 .. Len(rows) /\ j - (1 + n) = k
    BY <1>3, <1>4, <1>8
  <2> HIDE DEF j
  <2>2. rows[j] = t.settlements[j - (1 + n)]
    BY <1>8, <2>1
  <2>3. j \in 1 .. Len(rows) /\ rows[j] = t.settlements[k]
    BY <2>1, <2>2
  <2> QED
    BY <1>4, <2>3 DEF j
<1>17. ASSUME NEW i \in 1 .. Len(rows), rows[i].table = "FUNDING_SETTLEMENT"
       PROVE  \E k \in 1 .. m : i = 1 + n + k
  <2>1. ~(i <= 1 + n)
    <3>1. CASE i = 1
      BY <1>9, <1>17, <3>1
    <3>2. CASE i # 1 /\ i <= 1 + n
      <4>1. i - 1 \in 1 .. n /\ i \in 2 .. 1 + n /\ i \in 1 .. 1 + n
        BY <1>3, <1>4, <1>8, <3>2
      <4>2. rows[i].table = "POSITION"
        BY <1>3, <1>6, <1>8, <4>1
      <4> QED
        BY <1>17, <4>2
    <3> QED
      BY <3>1, <3>2
  <2>2. i - (1 + n) \in 1 .. m /\ i = 1 + n + (i - (1 + n))
    BY <1>3, <1>4, <1>8, <2>1
  <2> QED
    BY <2>2
<1>18. /\ rows = Flushed(t, at, reason) /\ n = Len(t.marks) /\ m = Len(t.settlements)
  BY DEF rows, n, m
<1>19. /\ 1 \in 1 .. Len(Flushed(t, at, reason))
       /\ Flushed(t, at, reason)[1] = TradeRow(t, at, reason)
       /\ \A i \in 1 .. Len(Flushed(t, at, reason)) :
              Flushed(t, at, reason)[i].table = "TRADE" => i = 1
       /\ Len(t.settlements) \in Nat
  BY <1>4, <1>9, <1>15, <1>18
<1>20. \A i \in 1 .. Len(Flushed(t, at, reason)) :
           Flushed(t, at, reason)[i].table = "FUNDING_SETTLEMENT" =>
               \E k \in 1 .. Len(t.settlements) : i = 1 + Len(t.marks) + k
  BY <1>17, <1>18
<1>21. \A k \in 1 .. Len(t.settlements) :
           /\ 1 + Len(t.marks) + k \in 1 .. Len(Flushed(t, at, reason))
           /\ Flushed(t, at, reason)[1 + Len(t.marks) + k] = t.settlements[k]
           /\ t.settlements[k].table = "FUNDING_SETTLEMENT"
           /\ t.settlements[k].trade = t.id
  BY <1>16, <1>18
<1>22. /\ Flushed(t, at, reason) \in Seq(EvidenceType)
       /\ \A i \in 1 .. Len(Flushed(t, at, reason)) :
              Flushed(t, at, reason)[i].table \notin {"EXECUTION", "DECISION"}
       /\ Len(t.marks) \in Nat
       /\ \A i \in 1 .. Len(t.marks) :
              /\ i + 1 \in 1 .. Len(Flushed(t, at, reason))
              /\ Flushed(t, at, reason)[i + 1] = t.marks[i]
              /\ t.marks[i].table = "POSITION"
       /\ \A i \in 1 .. Len(Flushed(t, at, reason)) :
              Flushed(t, at, reason)[i].table = "POSITION" =>
                  i - 1 \in 1 .. Len(t.marks)
  BY <1>3, <1>8, <1>11, <1>13, <1>14, <1>18
<1>23. \A i \in 1 .. Len(Flushed(t, at, reason)) :
           Flushed(t, at, reason)[i].table \in {"POSITION", "FUNDING_SETTLEMENT"} =>
               \E j \in 1 .. Len(Flushed(t, at, reason)) :
                   /\ j < i /\ Flushed(t, at, reason)[j].table = "TRADE"
                   /\ Flushed(t, at, reason)[j].id = Flushed(t, at, reason)[i].trade
  BY <1>12, <1>18
<1> QED
  BY <1>19, <1>20, <1>21, <1>22, <1>23, Zenon

\* An exit ends the run, or closes the position and records its trade.
LEMMA ExitIsSound ==
    ASSUME Accounts, Books, NEW p, NEW t, Held(p, t), t \in TradeType,
           OwnRows(t), NEW log, SoundLog(log), NEW reference \in Int,
           NEW gap, NEW at \in Nat, NEW decision \in Nat \cup {None},
           NEW reason \in ExitReason, FollowsDecision(log, decision, reason, at),
           NEW then,
           Exit(p, t, reference, gap, at, decision, reason, log, then)
    PROVE  /\ Books' /\ SoundLog(evidence')
           /\ \/ phase' \in {"failed", "rejected"}
              \/ phase' = then /\ position' = None /\ Grows(log, evidence')
<1> DEFINE price == ExitPrice(p.side, reference, gap)
           balance == cash + Recovered(p, price) - Fee
           row == ExecutionRow(decision, reason, at)
           executed == Append(log, row)
           rows == Flushed(t, at, reason)
           flushed == executed \o rows
<1>1. balance \in Int
  BY ExitBalances, EngineAssumption DEF Accounts
<1>2. p \in PositionType
  BY DEF Held
<1>3. /\ row \in EvidenceType /\ row.table = "EXECUTION"
      /\ row.decision = decision /\ row.reason = reason /\ row.ts = at
  BY DEF ExecutionRow, EvidenceType
<1> HIDE DEF row
<1>4. SoundLog(executed) /\ Grows(log, executed)
  BY <1>3, AddRow
<1>5. SoundLog(flushed) /\ Grows(executed, flushed)
  <2>1. /\ rows \in Seq(EvidenceType)
        /\ \A i \in 1 .. Len(rows) : rows[i].table \notin {"EXECUTION", "DECISION"}
        /\ \A i \in 1 .. Len(rows) :
               rows[i].table \in {"POSITION", "FUNDING_SETTLEMENT"} =>
                   \E j \in 1 .. Len(rows) :
                       j < i /\ rows[j].table = "TRADE"
                             /\ rows[j].id = rows[i].trade
    BY FlushedRows
  <2> HIDE DEF rows, executed
  <2> QED
    BY <1>4, <2>1, AddRows
<1>6. Grows(log, flushed)
  BY <1>4, <1>5 DEF Grows
<1>7. \/ /\ phase' = "failed" /\ position' = p /\ trade' = t /\ cash' = cash
         /\ evidence' = log \/ evidence' = executed
      \/ /\ cash' = balance /\ balance >= 0 /\ position' = None /\ trade' = None
         /\ \/ phase' = "rejected" /\ evidence' = executed
            \/ phase' = then /\ evidence' = flushed
  BY DEF Exit, Fails, Payable, row
<1> HIDE DEF price, balance, executed, flushed, rows
<1>8. CASE /\ phase' = "failed" /\ position' = p /\ trade' = t /\ cash' = cash
           /\ evidence' = log \/ evidence' = executed
  BY <1>2, <1>4, <1>8 DEF Books, Paired
<1>9. CASE /\ cash' = balance /\ balance >= 0 /\ position' = None /\ trade' = None
           /\ \/ phase' = "rejected" /\ evidence' = executed
              \/ phase' = then /\ evidence' = flushed
  <2>1. Books'
    BY <1>1, <1>9 DEF Books, Paired
  <2> QED
    BY <1>4, <1>5, <1>6, <1>9, <2>1
<1> QED
  BY <1>7, <1>8, <1>9

\* A run that ended in an exception stays audited.
LEMMA EndedAudited ==
    ASSUME OnTape', Books', SoundLog(evidence)',
           phase' \in {"failed", "rejected", "finished"}
    PROVE  Audited'
BY DEF Audited, Phases, Ended, Running, NoInconsistency, SurvivorsStayInside

-----------------------------------------------------------------------------
(* Steps that neither open nor close a position *)

LEMMA TapeStands == OnTape /\ UNCHANGED tape => OnTape'
BY DEF OnTape, Proper, tape

\* While the queue and the log stand, so do the records of the queue.
LEMMA QueueStands ==
    ASSUME NEW time, QueuedAt(time), pending' = pending,
           Grows(evidence, evidence')
    PROVE  QueuedAt(time)'
<1>1. \A id, at : Recorded(evidence, id, at) => Recorded(evidence', id, at)
  BY GrowthKeepsRecords
<1> QED
  BY <1>1 DEF QueuedAt, Recorded

\* No boundary is due at the open: it was charged at the close before it, or the
\* entry is not before it.
LEMMA NothingDueAtOpen ==
    ASSUME Solvent, Audited, SettleAtOpen
    PROVE  /\ phase = "open" /\ phase' = "orders" /\ cursor' = candle.openTime
           /\ SettledThrough(candle.openTime)
           /\ UNCHANGED <<candle, next, bars, cash, position, trade, decisions,
                          evidence, pending>>
<1>1. phase = "open" /\ Running
  BY DEF SettleAtOpen, Running, Ended
<1>2. SettledThrough(candle.openTime) /\ candle.openTime \in Nat
  BY <1>1 DEF Audited, Settlement, Solvent, Typed, CandleType
<1>3. ~Due(candle.openTime)
  <2> SUFFICES ASSUME Due(candle.openTime) PROVE FALSE
    OBVIOUS
  <2>1. /\ candle.openTime % FundingEvery = 0 /\ position # None
        /\ trade.entered < candle.openTime
        /\ candle.openTime \notin trade.settled
    BY DEF Due
  <2>2. trade.entered \in Nat
    BY <2>1 DEF Audited, Books, Paired, TradeType
  <2>3. candle.openTime \in trade.entered + 1 .. candle.openTime
    BY <1>2, <2>1, <2>2
  <2> QED
    BY <1>2, <2>1, <2>3 DEF SettledThrough
<1> QED
  BY <1>1, <1>2, <1>3 DEF SettleAtOpen, SettleIfDue, tape, books

LEMMA SettleAtOpenAudited ==
    ASSUME Solvent, Audited, SettleAtOpen
    PROVE  Audited'
<1>1. phase = "open" /\ Running
  BY NothingDueAtOpen DEF Running, Ended
<1>2. SettledThrough(candle.openTime)
  BY NothingDueAtOpen
<1>3. /\ phase' = "orders" /\ cursor' = candle.openTime
      /\ UNCHANGED <<candle, next, bars, cash, position, trade, decisions,
                     evidence, pending>>
  BY NothingDueAtOpen
<1>4. OnTape'
  BY <1>3, TapeStands DEF Audited, tape
<1>5. Books' /\ SoundLog(evidence)' /\ LevelIsCurrent'
  BY <1>1, <1>3 DEF Audited, Books, Paired, LevelIsCurrent
<1>6. Queue'
  <2>1. QueuedAt(candle.openTime) /\ Shaped(pending, position)
    BY <1>1 DEF Audited, Queue
  <2>2. QueuedAt(candle.openTime)'
    BY <1>3, <2>1 DEF QueuedAt
  <2> QED
    BY <1>3, <2>1, <2>2 DEF Queue
<1>7. Settlement'
  <2>1. SettledThrough(candle.openTime)'
    BY <1>2, <1>3 DEF SettledThrough
  <2> QED
    BY <1>3, <2>1 DEF Settlement
<1> QED
  BY <1>3, <1>4, <1>5, <1>6, <1>7
  DEF Audited, Phases, NoInconsistency, SurvivorsStayInside

\* Between a boundary and the next one there is none.
LEMMA NoBoundaryBetween ==
    ASSUME NEW c \in Nat, NEW b \in Nat, b % FundingEvery = 0, c < b
    PROVE  NextBoundary(c) <= b
<1> DEFINE F == FundingEvery
           k == b \div F
           j == c \div F
<1>1. F \in Nat \ {0}
  BY EngineAssumption
<1>2. /\ b = k * F + (b % F) /\ c = j * F + (c % F)
      /\ k \in Int /\ j \in Int
  BY <1>1
<1>3. (c % F) \in Nat
  BY <1>1
<1> HIDE DEF F, k, j
<1>4. b = k * F
  BY <1>1, <1>2 DEF F
<1>5. j < k
  <2> SUFFICES ASSUME k <= j PROVE FALSE
    BY <1>2
  <2>1. k * F <= j * F
    BY <1>1, <1>2
  <2>2. k * F \in Int /\ j * F \in Int
    BY <1>1, <1>2
  <2> QED
    BY <1>2, <1>3, <1>4, <2>1, <2>2
<1>6. (j + 1) * F <= k * F
  <2>1. j + 1 <= k
    BY <1>2, <1>5
  <2> QED
    BY <1>1, <1>2, <2>1
<1>7. NextBoundary(c) = F * (j + 1)
  BY DEF NextBoundary, F, j
<1> QED
  BY <1>1, <1>2, <1>4, <1>6, <1>7

LEMMA OrdersFilledAudited ==
    ASSUME Solvent, Audited, OrdersFilled
    PROVE  Audited'
<1>1. /\ phase = "orders" /\ Running /\ pending = <<>> /\ phase' = "funding"
      /\ UNCHANGED <<candle, next, bars, cursor, cash, position, trade, pending,
                     evidence>>
  BY DEF OrdersFilled, Running, Ended, tape, books
<1>2. OnTape'
  BY <1>1, TapeStands DEF Audited, tape
<1>3. Books' /\ SoundLog(evidence)' /\ LevelIsCurrent'
  BY <1>1 DEF Audited, Books, Paired, LevelIsCurrent
<1>4. Queue'
  BY <1>1 DEF Queue, Shaped
<1>5. Settlement'
  <2>1. SettledThrough(candle.openTime) /\ cursor = candle.openTime
    BY <1>1 DEF Audited, Settlement
  <2> QED
    BY <1>1, <2>1 DEF Settlement, SettledThrough
<1> QED
  BY <1>1, <1>2, <1>3, <1>4, <1>5
  DEF Audited, Phases, NoInconsistency, SurvivorsStayInside

\* All boundaries up to the close were charged once the next is behind it.
LEMMA FundingSettledAudited ==
    ASSUME Solvent, Audited, FundingSettled
    PROVE  Audited'
<1>1. /\ phase = "funding" /\ Running /\ ~Crossed(NextBoundary(cursor))
      /\ phase' = "triggers"
      /\ UNCHANGED <<candle, next, bars, cursor, cash, position, trade, pending,
                     evidence>>
  BY DEF FundingSettled, Running, Ended, tape, books
<1>2. OnTape'
  BY <1>1, TapeStands DEF Audited, tape
<1>3. Books' /\ SoundLog(evidence)' /\ LevelIsCurrent'
  BY <1>1 DEF Audited, Books, Paired, LevelIsCurrent
<1>4. pending = <<>>
  BY <1>1 DEF Audited, Queue
<1>5. Queue'
  BY <1>1, <1>4 DEF Queue, Shaped
<1>6. SettledThrough(candle.closeTime)
  <2> SUFFICES ASSUME position # None, NEW b \in trade.entered + 1 .. candle.closeTime,
                      b % FundingEvery = 0
               PROVE  b \in trade.settled
    BY DEF SettledThrough
  <2>1. trade.entered \in Nat
    BY DEF Audited, Books, Paired, TradeType
  <2>2. /\ candle.closeTime \in Nat /\ cursor \in Nat /\ b \in Nat
        /\ NextBoundary(cursor) \in Int
    <3>1. cursor \in Nat /\ candle.closeTime \in Nat
      BY DEF Solvent, Typed, CandleType
    <3> QED
      BY <2>1, <3>1, EngineAssumption DEF NextBoundary
  <2>3. ~(cursor < b)
    BY <1>1, <2>1, <2>2, NoBoundaryBetween DEF Crossed
  <2>4. b \in trade.entered + 1 .. cursor
    BY <2>1, <2>2, <2>3
  <2> QED
    BY <1>1, <2>4 DEF Audited, Settlement, SettledThrough
<1>7. Settlement'
  BY <1>1, <1>6 DEF Settlement, SettledThrough
<1> QED
  BY <1>1, <1>2, <1>3, <1>5, <1>7
  DEF Audited, Phases, NoInconsistency, SurvivorsStayInside

-----------------------------------------------------------------------------
(* Steps that open or close a position *)

LEMMA HeldIsSound ==
    ASSUME Solvent, Audited, position # None
    PROVE  /\ Accounts /\ Books /\ Held(position, trade)
           /\ position \in PositionType /\ trade \in TradeType /\ OwnRows(trade)
BY DEF Solvent, Accounts, Audited, Books, Paired

\* After an exit nothing but the queue remains to be shown.
LEMMA FlatAudited ==
    ASSUME OnTape', Books', SoundLog(evidence)', position' = None,
           phase' \in {"orders", "funding", "mark", "turn", "finished"},
           phase' = "orders" => cursor' = candle'.openTime,
           phase' # "finished" => Queue'
    PROVE  Audited'
<1>1. NoInconsistency' /\ SurvivorsStayInside' /\ phase' \in Phases
  BY DEF NoInconsistency, SurvivorsStayInside, Phases, Ended
<1>2. Settlement' /\ LevelIsCurrent'
  BY DEF Settlement, SettledThrough, LevelIsCurrent
<1>3. Running' => Queue'
  BY DEF Running, Ended
<1> QED
  BY <1>1, <1>2, <1>3 DEF Audited

\* An entry takes cash for the margin and the fee, and is charged from then on.
LEMMA OpenTradeAudited ==
    ASSUME Solvent, Solvent', Audited, phase = "orders", position = None,
           NEW o \in OrderType, o.reason = None, o.decided = candle.openTime,
           Recorded(evidence, o.decision, o.decided),
           NEW q \in Fitting(o), OpenTrade(o, q, FillTime(o)),
           UNCHANGED <<candle, next, bars, cursor>>, pending' = <<>>
    PROVE  Audited'
<1> DEFINE price == EntryPrice(o.side, candle.open)
           margin == Margin(q * price)
           at == FillTime(o)
           row == ExecutionRow(o.decision, None, at)
<1>1. /\ candle.open \in Price /\ candle.openTime \in Nat
      /\ o.decision \in Nat /\ o.decided \in Nat /\ o.side \in Sides
      /\ o.stop \in Nat \cup {None} /\ o.take \in Nat \cup {None}
  BY DEF Solvent, Typed, CandleType, OrderType
<1>2. at = candle.openTime + 1 /\ at \in Nat
  BY <1>1 DEF FillTime
<1>3. q \in Nat \ {0} /\ price \in Price /\ Affordable(q, price)
  <2>1. o.qty \in Nat /\ q \in 1 .. o.qty /\ price > 0 /\ Affordable(q, price)
    BY DEF Fitting, OrderType
  <2>2. price \in Int
    <3>1. candle.open \in Int /\ Slip \in Int
      BY <1>1, EngineAssumption DEF Price
    <3>2. Sign(o.side) * Slip \in Int
      BY <3>1, SignTwice
    <3> QED
      BY <3>1, <3>2 DEF EntryPrice
  <2> HIDE DEF price
  <2> QED
    BY <2>1, <2>2 DEF Price
<1>4. margin \in Nat /\ margin + 2 * Fee <= cash /\ Fee \in Nat
  <2>1. q * price \in Nat
    BY <1>3 DEF Price
  <2> QED
    BY <1>3, <2>1, EngineAssumption DEF Margin, Affordable
<1> HIDE DEF at, margin
<1>5. /\ cash' = cash - margin - Fee
      /\ position' = [side |-> o.side, qty |-> q, entry |-> price,
                      margin |-> margin,
                      liquidation |->
                          LiquidationPrice(o.side, price, q, margin)]
      /\ trade' = [id |-> Cardinality(Rows("TRADE")) + 1, entered |-> at,
                   reference |-> candle.open,
                   fee |-> Fee, slippage |-> Slip * q, funding |-> 0,
                   settled |-> {}, settlements |-> <<>>, marks |-> <<>>,
                   stop |-> o.stop, take |-> o.take,
                   r0 |-> InitialRisk(o.stop, candle.open, q)]
      /\ phase' = "orders"
      /\ evidence' = Append(evidence, row)
  BY DEF OpenTrade, margin, at
<1> HIDE DEF price
<1>6. Books'
  <2>1. cash' \in Nat
    <3>1. cash \in Nat
      BY DEF Audited, Books
    <3> QED
      BY <1>4, <1>5, <3>1
  <2>2. position' \in PositionType
    <3>1. position' # None
      <4>1. position'.qty = q
        BY <1>5
      <4>2. [side |-> o.side, qty |-> q, entry |-> price, margin |-> margin,
             liquidation |-> LiquidationPrice(o.side, price, q, margin)]
                \in PositionType
        <5>1. LiquidationPrice(o.side, price, q, margin) \in Nat
          BY <1>3, <1>4, LiquidationPriceTyped DEF Price
        <5> QED
          BY <1>1, <1>3, <1>4, <5>1 DEF PositionType
      <4> QED
        BY <1>5, <4>2, EngineAssumption
    <3> QED
      BY <3>1 DEF Solvent, Typed
  <2>3. trade' \in TradeType
    <3>1. Cardinality(Rows("TRADE")) + 1 \in Nat
      <4>1. IsFiniteSet(Rows("TRADE"))
        <5>1. evidence \in Seq(EvidenceType)
          BY DEF Audited, SoundLog
        <5>2. Len(evidence) \in Nat /\ DOMAIN evidence = 1 .. Len(evidence)
          BY <5>1, LenProperties
        <5>3. IsFiniteSet(1 .. Len(evidence))
            <6>1. 1 \in Int /\ Len(evidence) \in Int
              BY <5>2
            <6> QED
              BY <6>1, FS_Interval, Zenon
        <5>4. Rows("TRADE") \subseteq 1 .. Len(evidence)
          BY <5>2 DEF Rows
        <5> QED
          BY <5>3, <5>4, FS_Subset
      <4> QED
        BY <4>1, FS_CardinalityType
    <3>2. InitialRisk(o.stop, candle.open, q) \in Nat \cup {None}
      <4>1. CASE o.stop = None
        BY <4>1 DEF InitialRisk
      <4>2. CASE o.stop # None
        <5> DEFINE d == IF o.stop < candle.open THEN candle.open - o.stop
                        ELSE o.stop - candle.open
        <5>1. d \in Nat
          BY <1>1, <4>2 DEF Price
        <5>2. InitialRisk(o.stop, candle.open, q) = d * q
          BY <4>2 DEF InitialRisk
        <5> HIDE DEF d
        <5>3. d * q \in Nat
          BY <1>3, <5>1
        <5> QED
          BY <5>2, <5>3
      <4> QED
        BY <4>1, <4>2
    <3>3. Slip * q \in Nat
      BY <1>3, EngineAssumption
    <3>4. /\ << >> \in Seq([table : {"FUNDING_SETTLEMENT"}, trade : Nat,
                            at : Nat, payment : Int, theoretical : Int])
          /\ << >> \in Seq([table : {"POSITION"}, seq : Nat, trade : Nat])
      BY EmptySeq
    <3>5. 0 \in Int /\ {} \in SUBSET Nat
      OBVIOUS
    <3> QED
      BY <1>1, <1>2, <1>4, <1>5, <3>1, <3>2, <3>3, <3>4, <3>5 DEF TradeType
  <2>4. OwnRows(trade)'
    <3>1. trade'.marks = <<>> /\ trade'.settlements = <<>>
      BY <1>5
    <3> QED
      BY <3>1 DEF OwnRows
  <2> QED
    BY <2>1, <2>2, <2>3, <2>4 DEF Books, Paired
<1>7. SoundLog(evidence)'
  <2>1. /\ row \in EvidenceType /\ row.table = "EXECUTION"
        /\ row.decision = o.decision /\ row.reason = None /\ row.ts = at
    BY <1>1, <1>2 DEF ExecutionRow, EvidenceType
  <2>2. FollowsDecision(evidence, o.decision, None, at)
    <3>1. o.decision # None
      BY <1>1, EngineAssumption
    <3>2. candle.openTime < at /\ at <= candle.openTime + Span
      BY <1>1, <1>2, EngineAssumption
    <3> QED
      BY <3>1, <3>2 DEF Recorded, FollowsDecision
  <2> HIDE DEF row
  <2>3. SoundLog(Append(evidence, row))
    BY <2>1, <2>2, AddRow DEF Audited
  <2> QED
    BY <1>5, <2>3
<1>8. LevelIsCurrent'
  BY <1>5 DEF LevelIsCurrent
<1>9. Queue'
  BY <1>5 DEF Queue, QueuedAt, Shaped
<1>10. Settlement'
  <2>1. cursor = candle.openTime
    BY DEF Audited, Settlement, Running, Ended
  <2>2. trade'.entered = candle.openTime + 1
    BY <1>2, <1>5
  <2>3. SettledThrough(candle.openTime)'
    BY <1>1, <2>2 DEF SettledThrough
  <2> QED
    BY <1>5, <2>1, <2>3 DEF Settlement
<1>11. OnTape'
  BY TapeStands DEF Audited, tape
<1> QED
  BY <1>5, <1>6, <1>7, <1>8, <1>9, <1>10, <1>11
  DEF Audited, Phases, NoInconsistency, SurvivorsStayInside

\* The orders of the close before fill one after the other: the exit of a
\* reversal finds its position, the entry behind it a flat book.
LEMMA FillOrderAudited ==
    ASSUME Solvent, Solvent', Audited, FillOrder
    PROVE  Audited'
<1> DEFINE o == pending[1]
           rest == Tail(pending)
<1>1. /\ phase = "orders" /\ Running /\ pending # <<>> /\ pending' = rest
      /\ UNCHANGED <<candle, next, bars, cursor, decisions>> /\ UNCHANGED tape
  BY DEF FillOrder, Running, Ended, tape
<1>2. pending \in Seq(OrderType)
  BY DEF Solvent, Typed
<1>3. /\ Len(pending) \in Nat \ {0} /\ DOMAIN pending = 1 .. Len(pending)
      /\ Head(pending) = o /\ o \in OrderType
      /\ rest \in Seq(OrderType) /\ Len(rest) = Len(pending) - 1
      /\ DOMAIN rest = 1 .. Len(pending) - 1
      /\ \A i \in 1 .. Len(pending) - 1 : rest[i] = pending[i + 1]
  BY <1>1, <1>2
<1>4. /\ QueuedAt(candle.openTime) /\ Shaped(pending, position)
      /\ cursor = candle.openTime
  BY <1>1 DEF Audited, Queue, Settlement
<1>5. /\ o.decided = candle.openTime
      /\ Recorded(evidence, o.decision, candle.openTime)
  <2>1. 1 \in DOMAIN pending
    BY <1>3
  <2> QED
    BY <1>4, <2>1 DEF QueuedAt
<1>6. /\ candle.openTime \in Nat /\ candle.open \in Int /\ o.decision \in Nat
      /\ o.reason \in {None, "SIGNAL_EXIT", "REVERSAL"}
  <2>1. candle \in CandleType /\ o \in OrderType
    BY <1>3 DEF Solvent, Typed
  <2>2. candle.openTime \in Nat /\ candle.open \in Int
    BY <2>1 DEF CandleType, Price
  <2> HIDE DEF o
  <2>3. o.decision \in Nat /\ o.reason \in {None, "SIGNAL_EXIT", "REVERSAL"}
    BY <2>1 DEF OrderType
  <2> QED
    BY <2>2, <2>3
<1>7. FillTime(o) = candle.openTime + 1
  BY <1>5, <1>6 DEF FillTime
<1>8. IF o.reason # None THEN FillExit(o) ELSE FillEntry(o)
  <2>1. ~(o.decided # candle.openTime \/ o.decided >= FillTime(o))
    BY <1>5, <1>6, <1>7
  <2> QED
    BY <1>3, <2>1 DEF FillOrder
<1>9. OnTape'
  BY <1>1, TapeStands DEF Audited
<1> HIDE DEF o, rest
<1>10. CASE o.reason # None
  <2>1. position # None
    BY <1>3, <1>4, <1>10 DEF Shaped, Exits, o
  <2>2. Exit(position, trade, candle.open, FALSE, FillTime(o), o.decision,
             o.reason, evidence, "orders")
    BY <1>8, <1>10, <2>1 DEF FillExit
  <2>3. FollowsDecision(evidence, o.decision, o.reason, FillTime(o))
    <3>1. o.decision # None
      BY <1>6, EngineAssumption
    <3>2. /\ candle.openTime < FillTime(o)
          /\ FillTime(o) <= candle.openTime + Span
      BY <1>6, <1>7, EngineAssumption
    <3> QED
      BY <1>5, <3>1, <3>2 DEF Recorded, FollowsDecision
  <2>4. /\ Books' /\ SoundLog(evidence')
        /\ \/ phase' \in {"failed", "rejected"}
           \/ phase' = "orders" /\ position' = None /\ Grows(evidence, evidence')
    <3>1. /\ Accounts /\ Books /\ Held(position, trade) /\ trade \in TradeType
          /\ OwnRows(trade)
      BY <2>1, HeldIsSound
    <3>2. FillTime(o) \in Nat /\ o.reason \in ExitReason
      BY <1>6, <1>7, <1>10 DEF ExitReason
    <3>3. SoundLog(evidence) /\ o.decision \in Nat \cup {None}
      BY <1>6 DEF Audited
    <3> QED
      BY <1>6, <2>2, <2>3, <3>1, <3>2, <3>3, ExitIsSound
  <2>5. CASE phase' \in {"failed", "rejected"}
    BY <1>9, <2>4, <2>5, EndedAudited
  <2>6. CASE phase' = "orders" /\ position' = None /\ Grows(evidence, evidence')
    <3>1. QueuedAt(candle.openTime)'
      <4> SUFFICES ASSUME NEW i \in DOMAIN rest
                   PROVE  /\ rest[i].decided = candle.openTime
                          /\ Recorded(evidence', rest[i].decision, candle.openTime)
        BY <1>1 DEF QueuedAt, Recorded
      <4>1. i + 1 \in DOMAIN pending /\ rest[i] = pending[i + 1]
        BY <1>3
      <4> QED
        BY <1>4, <2>6, <4>1, GrowthKeepsRecords DEF QueuedAt
    <3>2. Shaped(pending, position)'
      <4>1. Len(rest) = 0 => rest = <<>>
        BY <1>3
      <4>2. \/ Len(pending) = 1
            \/ Len(pending) = 2 /\ ~Exits(pending[2])
        BY <1>1, <1>4 DEF Shaped
      <4>3. Len(pending) = 2 => rest[1] = pending[2] /\ Len(rest) = 1
        BY <1>3
      <4>4. \/ rest = <<>>
            \/ Len(rest) = 1 /\ ~Exits(rest[1])
        BY <1>3, <4>1, <4>2, <4>3
      <4> QED
        BY <1>1, <2>6, <4>4 DEF Shaped
    <3>3. Queue'
      BY <2>6, <3>1, <3>2 DEF Queue
    <3>4. phase' = "orders" => cursor' = candle'.openTime
      BY <1>1, <1>4
    <3> QED
      BY <1>9, <2>4, <2>6, <3>3, <3>4, FlatAudited
  <2> QED
    BY <2>4, <2>5, <2>6
<1>11. CASE o.reason = None
  <2>1. position = None /\ Len(pending) = 1
    BY <1>1, <1>3, <1>4, <1>11 DEF Shaped, Exits, o
  <2>2. rest = <<>>
    BY <1>3, <2>1
  <2>3. CASE Fitting(o) = {}
    <3>1. /\ phase' = "failed" /\ evidence' = evidence
          /\ position' = position /\ trade' = trade /\ cash' = cash
      BY <1>8, <1>11, <2>1, <2>3 DEF FillEntry, Fails
    <3>2. Books' /\ SoundLog(evidence)'
      BY <3>1 DEF Audited, Books, Paired
    <3> QED
      BY <1>9, <3>1, <3>2, EndedAudited
  <2>4. CASE Fitting(o) # {}
    <3>1. PICK q \in Fitting(o) : OpenTrade(o, q, FillTime(o))
      BY <1>8, <1>11, <2>1, <2>4 DEF FillEntry
    <3> QED
      BY <1>1, <1>3, <1>5, <1>11, <2>1, <2>2, <3>1, OpenTradeAudited
  <2> QED
    BY <2>3, <2>4
<1> QED
  BY <1>10, <1>11

\* The trade a settlement is billed to keeps its rows, with one more settlement.
LEMMA BilledIsSound ==
    ASSUME Solvent, Audited, position # None, NEW boundary \in Nat,
           NEW rate \in Rates, NEW price \in FundingPrices(boundary)
    PROVE  /\ Billed(boundary, price, rate) \in TradeType
           /\ OwnRows(Billed(boundary, price, rate))
           /\ Billed(boundary, price, rate).marks = trade.marks
           /\ Billed(boundary, price, rate).entered = trade.entered
           /\ Billed(boundary, price, rate).settled = trade.settled \cup {boundary}
<1> DEFINE t == Billed(boundary, price, rate)
           applied == Applied(price, rate)
           theoretical == Theoretical(price, rate)
           row == SettlementRow(trade.id, boundary, -applied, -theoretical)
           funding == trade.funding + applied
           settled == trade.settled \cup {boundary}
           settlements == Append(trade.settlements, row)
           S == [table : {"FUNDING_SETTLEMENT"}, trade : Nat, at : Nat,
                 payment : Int, theoretical : Int]
           s == trade.settlements
<1>1. applied \in Int /\ theoretical \in Int
  BY SettlementHolds
<1>2. trade \in TradeType /\ OwnRows(trade)
  BY HeldIsSound
<1>3. t = [trade EXCEPT !.funding = funding, !.settled = settled,
                        !.settlements = settlements]
  BY <1>2 DEF Billed, TradeType
<1> HIDE DEF t, applied, theoretical
<1>4. row \in S /\ row.trade = trade.id
  <2>1. trade.id \in Nat /\ -applied \in Int /\ -theoretical \in Int
    BY <1>1, <1>2 DEF TradeType
  <2> QED
    BY <2>1 DEF SettlementRow
<1> HIDE DEF row
<1>5. s \in Seq(S)
  BY <1>2 DEF TradeType
<1>6. \A i \in DOMAIN s : s[i].trade = trade.id
  BY <1>2 DEF OwnRows
<1> HIDE DEF s, S
<1>7. /\ Append(s, row) \in Seq(S) /\ Len(s) \in Nat
      /\ DOMAIN s = 1 .. Len(s) /\ DOMAIN Append(s, row) = 1 .. Len(s) + 1
      /\ \A i \in 1 .. Len(s) : Append(s, row)[i] = s[i]
      /\ Append(s, row)[Len(s) + 1] = row
  BY <1>4, <1>5
<1>8. \A i \in DOMAIN Append(s, row) : Append(s, row)[i].trade = trade.id
  <2> SUFFICES ASSUME NEW i \in 1 .. Len(s) + 1
               PROVE  Append(s, row)[i].trade = trade.id
    BY <1>7
  <2>1. CASE i = Len(s) + 1
    BY <1>4, <1>7, <2>1
  <2>2. CASE i # Len(s) + 1
    <3>1. i \in 1 .. Len(s)
      BY <1>7, <2>2
    <3> QED
      BY <1>6, <1>7, <3>1
  <2> QED
    BY <2>1, <2>2
<1>9. /\ settlements \in Seq(S)
      /\ \A i \in DOMAIN settlements : settlements[i].trade = trade.id
  BY <1>7, <1>8 DEF s
<1>10. funding \in Int /\ settled \in SUBSET Nat
  BY <1>1, <1>2 DEF TradeType
<1> HIDE DEF funding, settled, settlements
<1>11. t \in TradeType
  BY <1>2, <1>3, <1>9, <1>10 DEF TradeType, S
<1>12. /\ t.id = trade.id /\ t.marks = trade.marks /\ t.entered = trade.entered
       /\ t.settlements = settlements /\ t.settled = settled
  BY <1>2, <1>3 DEF TradeType
<1>13. OwnRows(t)
  BY <1>2, <1>9, <1>12 DEF OwnRows
<1> QED
  BY <1>11, <1>12, <1>13 DEF t, settled

\* A boundary crossed by the candle is charged once, and may take the margin.
LEMMA SettleCrossedAudited ==
    ASSUME Solvent, Solvent', Audited, SettleCrossed
    PROVE  Audited'
<1> DEFINE boundary == NextBoundary(cursor)
<1>1. /\ phase = "funding" /\ Running /\ cursor' = boundary
      /\ SettleIfDue(boundary, "funding")
      /\ UNCHANGED <<candle, next, bars, pending>> /\ UNCHANGED tape
  BY DEF SettleCrossed, Running, Ended, tape
<1>2. cursor \in Nat /\ boundary \in Nat /\ cursor' \in Nat
  BY <1>1 DEF Solvent, Typed
<1>3. OnTape'
  BY <1>1, TapeStands DEF Audited
<1>4. pending = <<>> /\ SettledThrough(cursor)
  BY <1>1 DEF Audited, Queue, Settlement
<1>5. Books /\ SoundLog(evidence) /\ LevelIsCurrent
  BY <1>1 DEF Audited
<1>6. phase' = "funding" => Queue'
  BY <1>1, <1>4 DEF Queue, Shaped
<1> HIDE DEF boundary
\* What is charged through cursor, and at boundary if due, is charged through
\* boundary.
<1>7. ASSUME position' # None, position # None,
             trade'.entered = trade.entered,
             trade.settled \subseteq trade'.settled,
             trade.entered < boundary /\ boundary % FundingEvery = 0
                 => boundary \in trade'.settled
      PROVE  SettledThrough(cursor)'
  <2> SUFFICES ASSUME NEW b \in trade.entered + 1 .. boundary,
                      b % FundingEvery = 0
               PROVE  b \in trade'.settled
    BY <1>1, <1>7 DEF SettledThrough
  <2>1. trade.entered \in Nat
    BY <1>5, <1>7 DEF Books, Paired, TradeType
  <2>2. b \in Nat /\ trade.entered < b /\ b <= boundary
    BY <1>2, <2>1
  <2>3. CASE cursor < b
    <3>1. boundary <= b
      BY <1>2, <2>2, <2>3, NoBoundaryBetween DEF boundary
    <3>2. b = boundary
      BY <1>2, <2>2, <3>1
    <3> QED
      BY <1>7, <2>2, <3>2
  <2>4. CASE ~(cursor < b)
    <3>1. b \in trade.entered + 1 .. cursor
      BY <1>2, <2>1, <2>2, <2>4
    <3> QED
      BY <1>4, <1>7, <3>1 DEF SettledThrough
  <2> QED
    BY <2>3, <2>4
<1>8. ASSUME phase' = "funding", Books', SoundLog(evidence)', LevelIsCurrent',
             SettledThrough(cursor)'
      PROVE  Audited'
  <2>1. Settlement'
    BY <1>8 DEF Settlement
  <2> QED
    BY <1>3, <1>6, <1>8, <2>1
    DEF Audited, Phases, NoInconsistency, SurvivorsStayInside
<1>9. CASE ~Due(boundary)
  <2>1. /\ phase' = "funding"
        /\ UNCHANGED <<cash, position, trade, evidence>>
    BY <1>1, <1>9 DEF SettleIfDue, books
  <2>2. Books' /\ SoundLog(evidence)' /\ LevelIsCurrent'
    BY <1>5, <2>1 DEF Books, Paired, LevelIsCurrent
  <2>3. SettledThrough(cursor)'
    <3>1. CASE position = None
      BY <2>1, <3>1 DEF SettledThrough
    <3>2. CASE position # None
      BY <1>7, <1>9, <2>1, <3>2 DEF Due
    <3> QED
      BY <3>1, <3>2
  <2> QED
    BY <1>8, <2>1, <2>2, <2>3
<1>10. CASE Due(boundary)
  <2>1. position # None /\ Settle(boundary, "funding")
    BY <1>1, <1>10 DEF SettleIfDue, Due
  <2>2. PICK rate \in Rates, price \in FundingPrices(boundary) :
            \/ /\ decisions' = decisions + 1
               /\ Exit(Charged(price, rate), Billed(boundary, price, rate),
                       price, FALSE, boundary + 1, decisions + 1,
                       "LIQUIDATION",
                       Append(evidence, DecisionRow(decisions + 1, boundary)),
                       "funding")
            \/ /\ position' = Charged(price, rate)
               /\ trade' = Billed(boundary, price, rate)
               /\ phase' = "funding"
               /\ UNCHANGED <<cash, realized, decisions, evidence>>
    BY <2>1, SettleOutcomes
  <2> DEFINE p == Charged(price, rate)
             t == Billed(boundary, price, rate)
  <2>3. Held(p, t) /\ price \in Int
    BY <1>2, <2>1, SettlementHolds
  <2>4. /\ Accounts /\ Held(position, trade) /\ position \in PositionType
        /\ trade \in TradeType /\ OwnRows(trade)
    BY <2>1, HeldIsSound
  <2>5. p.liquidation = LiquidationPrice(p.side, p.entry, p.qty, p.margin)
    BY <2>4 DEF Charged, PositionType
  <2>6. /\ t \in TradeType /\ OwnRows(t) /\ t.entered = trade.entered
        /\ t.settled = trade.settled \cup {boundary}
    BY <1>2, <2>1, BilledIsSound
  <2> HIDE DEF p, t
  <2>7. CASE /\ decisions' = decisions + 1
             /\ Exit(p, t, price, FALSE, boundary + 1, decisions + 1,
                     "LIQUIDATION",
                     Append(evidence, DecisionRow(decisions + 1, boundary)),
                     "funding")
    <3> DEFINE log == Append(evidence, DecisionRow(decisions + 1, boundary))
    <3>1. decisions + 1 \in Nat
      BY DEF Solvent, Typed
    <3>2. SoundLog(log) /\ Recorded(log, decisions + 1, boundary)
      BY <1>2, <1>5, <3>1, AddDecision
    <3> HIDE DEF log
    <3>3. FollowsDecision(log, decisions + 1, "LIQUIDATION", boundary + 1)
      <4>1. decisions + 1 # None
        BY <3>1, EngineAssumption
      <4>2. boundary < boundary + 1 /\ boundary + 1 <= boundary + Span
        BY <1>2, EngineAssumption
      <4> QED
        BY <3>2, <4>1, <4>2 DEF Recorded, FollowsDecision
    <3>4. /\ Books' /\ SoundLog(evidence')
          /\ \/ phase' \in {"failed", "rejected"}
             \/ phase' = "funding" /\ position' = None
      <4>1. boundary + 1 \in Nat /\ "LIQUIDATION" \in ExitReason
        BY <1>2 DEF ExitReason
      <4>2. decisions + 1 \in Nat \cup {None}
        BY <3>1
      <4>3. Exit(p, t, price, FALSE, boundary + 1, decisions + 1,
                 "LIQUIDATION", log, "funding")
        BY <2>7 DEF log
      <4> QED
        BY <1>5, <2>3, <2>4, <2>6, <3>2, <3>3, <4>1, <4>2, <4>3,
           ExitIsSound
    <3>5. CASE phase' \in {"failed", "rejected"}
      BY <1>3, <3>4, <3>5, EndedAudited
    <3>6. CASE phase' = "funding" /\ position' = None
      BY <1>3, <1>6, <3>4, <3>6, FlatAudited
    <3> QED
      BY <3>4, <3>5, <3>6
  <2>8. CASE /\ position' = p /\ trade' = t /\ phase' = "funding"
             /\ UNCHANGED <<cash, realized, decisions, evidence>>
    <3>1. p \in PositionType /\ p # None
      BY <2>3, EngineAssumption DEF Held
    <3>2. Books' /\ SoundLog(evidence)'
      BY <1>5, <2>6, <2>8, <3>1 DEF Books, Paired
    <3>3. LevelIsCurrent'
      BY <2>5, <2>8 DEF LevelIsCurrent, p
    <3>4. SettledThrough(cursor)'
      <4>1. position' # None /\ trade'.entered = trade.entered
        BY <2>6, <2>8, <3>1
      <4>2. trade.settled \subseteq trade'.settled /\ boundary \in trade'.settled
        BY <2>6, <2>8
      <4> QED
        BY <1>7, <2>1, <4>1, <4>2
    <3> QED
      BY <1>8, <2>8, <3>2, <3>3, <3>4
  <2> QED
    BY <2>2, <2>7, <2>8 DEF p, t
<1> QED
  BY <1>9, <1>10

-----------------------------------------------------------------------------
(* The triggers, the mark and the orders of a candle *)

\* Beyond and StrictlyBeyond compare signed prices.
LEMMA BeyondAsOrder ==
    ASSUME NEW side, NEW a \in Int, NEW b \in Int
    PROVE  /\ Beyond(side, a, b) <=> Sign(side) * a <= Sign(side) * b
           /\ StrictlyBeyond(side, a, b) <=> Sign(side) * a < Sign(side) * b
<1>1. Sign(side) = 1 \/ Sign(side) = -1
  BY DEF Sign
<1> QED
  BY <1>1 DEF Beyond, StrictlyBeyond

\* A candle that triggers nothing stayed inside the protections.
LEMMA UntriggeredIsInside ==
    ASSUME Solvent, Audited, position # None, ~Triggered,
           candle.openTime > trade.entered
    PROVE  LET worst == Adverse(position.side)
               best == Favourable(position.side)
               d == Sign(position.side)
           IN  /\ trade.stop # None => d * worst > d * trade.stop
               /\ trade.take # None => d * best < d * trade.take
               /\ position.liquidation > 0 => d * worst > d * position.liquidation
<1>1. /\ ~StopHit(position) /\ ~LiquidationHit(position) /\ ~TargetHit(position)
  <2>1. TriggerReason(position) = None
    BY DEF Triggered, Checked
  <2>2. None \notin {"LIQUIDATION", "STOP_LOSS", "TAKE_PROFIT"}
    BY EngineAssumption DEF ExitReason
  <2> QED
    BY <2>1, <2>2 DEF TriggerReason
<1>2. /\ Adverse(position.side) \in Int /\ Favourable(position.side) \in Int
  BY DEF Solvent, Typed, CandleType, Price, Adverse, Favourable
<1>3. /\ position.liquidation \in Nat
      /\ trade.stop \in Nat \cup {None} /\ trade.take \in Nat \cup {None}
  BY HeldIsSound DEF PositionType, TradeType
<1>4. ASSUME NEW a \in Int, NEW b \in Int, ~Beyond(position.side, a, b)
      PROVE  Sign(position.side) * a > Sign(position.side) * b
  <2>1. Sign(position.side) * a \in Int /\ Sign(position.side) * b \in Int
    BY SignTwice
  <2> QED
    BY <1>4, <2>1, BeyondAsOrder
<1>5. trade.stop # None =>
          Sign(position.side) * Adverse(position.side)
              > Sign(position.side) * trade.stop
  BY <1>1, <1>2, <1>3, <1>4 DEF StopHit
<1>6. trade.take # None =>
          Sign(position.side) * Favourable(position.side)
              < Sign(position.side) * trade.take
  <2> SUFFICES ASSUME trade.take # None
               PROVE  Sign(position.side) * Favourable(position.side)
                          < Sign(position.side) * trade.take
    OBVIOUS
  <2>1. trade.take \in Int /\ ~Beyond(position.side, trade.take, Favourable(position.side))
    BY <1>1, <1>3 DEF TargetHit
  <2>2. /\ Sign(position.side) * trade.take \in Int
        /\ Sign(position.side) * Favourable(position.side) \in Int
    BY <1>2, <2>1, SignTwice
  <2>3. Sign(position.side) * trade.take
            > Sign(position.side) * Favourable(position.side)
    BY <1>2, <1>4, <2>1
  <2> QED
    BY <2>2, <2>3
<1>7. position.liquidation > 0 =>
          Sign(position.side) * Adverse(position.side)
              > Sign(position.side) * position.liquidation
  BY <1>1, <1>2, <1>3, <1>4 DEF LiquidationHit, LiquidationLevel
<1> QED
  BY <1>5, <1>6, <1>7

LEMMA WalkTriggersAudited ==
    ASSUME Solvent, Solvent', Audited, WalkTriggers
    PROVE  Audited'
<1>1. /\ phase = "triggers" /\ Running
      /\ UNCHANGED <<candle, next, bars, cursor, pending>> /\ UNCHANGED tape
  BY DEF WalkTriggers, Running, Ended, tape
<1>2. OnTape'
  BY <1>1, TapeStands DEF Audited
<1>3. /\ pending = <<>> /\ SettledThrough(candle.closeTime)
      /\ LevelIsCurrent /\ Books /\ SoundLog(evidence)
  BY <1>1 DEF Audited, Queue, Settlement
<1>4. phase' = "mark" => Queue'
  BY <1>1, <1>3 DEF Queue, Shaped
<1>5. CASE ~Triggered
  <2>1. /\ phase' = "mark" /\ UNCHANGED <<cash, position, trade, evidence>>
    BY <1>5 DEF WalkTriggers, books
  <2>2. Books' /\ SoundLog(evidence)' /\ LevelIsCurrent' /\ Settlement'
    BY <1>1, <1>3, <2>1 DEF Books, Paired, LevelIsCurrent, Settlement, SettledThrough
  <2>3. SurvivorsStayInside'
    <3>1. position # None /\ candle.openTime > trade.entered =>
          LET worst == Adverse(position.side)
              best == Favourable(position.side)
              d == Sign(position.side)
          IN  /\ trade.stop # None => d * worst > d * trade.stop
              /\ trade.take # None => d * best < d * trade.take
              /\ position.liquidation > 0 => d * worst > d * position.liquidation
      BY <1>5, UntriggeredIsInside
    <3> QED
      BY <1>1, <2>1, <3>1 DEF SurvivorsStayInside, Adverse, Favourable
  <2> QED
    BY <1>2, <1>4, <2>1, <2>2, <2>3 DEF Audited, Phases, NoInconsistency
<1>6. CASE Triggered
  <2> DEFINE reason == TriggerReason(position)
             reference == TriggerReference(position, reason)
             gap == GapFilled(position, reason)
             log == Append(evidence, DecisionRow(decisions + 1, candle.openTime))
  <2>1. Exit(position, trade, reference, gap, candle.closeTime, decisions + 1,
             reason, log, "mark")
    BY <1>6 DEF WalkTriggers
  <2>2. /\ Accounts /\ Held(position, trade) /\ trade \in TradeType
        /\ OwnRows(trade)
    BY <1>6, HeldIsSound DEF Triggered
  <2>3. reference \in Int
    BY <1>6, <2>2, TriggerReferenceTyped DEF Solvent
  <2>4. reason \in ExitReason
    BY <1>6 DEF Triggered, TriggerReason, ExitReason
  <2>5. /\ decisions + 1 \in Nat /\ candle.openTime \in Nat
        /\ candle.closeTime \in Nat
        /\ candle.closeTime = candle.openTime + Span
    BY DEF Solvent, Typed, CandleType, Audited, OnTape, Proper
  <2>6. SoundLog(log) /\ Recorded(log, decisions + 1, candle.openTime)
    BY <1>3, <2>5, AddDecision
  <2> HIDE DEF log, reason, reference, gap
  <2>7. FollowsDecision(log, decisions + 1, reason, candle.closeTime)
    <3>1. decisions + 1 # None
      BY <2>5, EngineAssumption
    <3>2. /\ candle.openTime < candle.closeTime
          /\ candle.closeTime <= candle.openTime + Span
      BY <2>5, EngineAssumption
    <3> QED
      BY <2>6, <3>1, <3>2 DEF Recorded, FollowsDecision
  <2>8. decisions + 1 \in Nat \cup {None}
    BY <2>5
  <2>9. /\ Books' /\ SoundLog(evidence')
        /\ \/ phase' \in {"failed", "rejected"}
           \/ phase' = "mark" /\ position' = None
    BY <1>3, <2>1, <2>2, <2>3, <2>4, <2>5, <2>6, <2>7, <2>8, ExitIsSound
  <2>10. CASE phase' \in {"failed", "rejected"}
    BY <1>2, <2>9, <2>10, EndedAudited
  <2>11. CASE phase' = "mark" /\ position' = None
    BY <1>2, <1>4, <2>9, <2>11, FlatAudited
  <2> QED
    BY <2>9, <2>10, <2>11
<1> QED
  BY <1>5, <1>6

\* The row of a held bar waits with the trade, that of a flat bar names none.
LEMMA MarkGridAudited ==
    ASSUME Solvent, Audited, MarkGrid
    PROVE  Audited'
<1>1. /\ phase = "mark" /\ Running /\ phase' = "analyze"
      /\ UNCHANGED <<candle, next, bars, cursor, cash, position, pending>>
      /\ UNCHANGED tape
  BY DEF MarkGrid, Running, Ended, tape
<1>2. OnTape'
  BY <1>1, TapeStands DEF Audited
<1>3. /\ pending = <<>> /\ SettledThrough(candle.closeTime)
      /\ LevelIsCurrent /\ Books /\ SoundLog(evidence) /\ SurvivorsStayInside
      /\ bars \in Nat
  BY <1>1, EngineAssumption DEF Audited, Queue, Settlement, OnTape
<1>4. Queue' /\ LevelIsCurrent'
  BY <1>1, <1>3 DEF Queue, Shaped, LevelIsCurrent
<1>5. CASE position = None
  <2> DEFINE row == PositionRow(bars, None)
  <2>1. trade' = trade /\ evidence' = Append(evidence, row)
    BY <1>5 DEF MarkGrid
  <2>2. row \in EvidenceType /\ row.table = "POSITION" /\ row.trade = None
    BY <1>3 DEF PositionRow, EvidenceType
  <2> HIDE DEF row
  <2>3. SoundLog(Append(evidence, row))
    BY <1>3, <2>2, AddRow
  <2>4. Books' /\ Settlement' /\ SurvivorsStayInside'
    BY <1>1, <1>3, <1>5, <2>1
    DEF Books, Paired, Settlement, SettledThrough, SurvivorsStayInside
  <2> QED
    BY <1>1, <1>2, <1>4, <2>1, <2>3, <2>4 DEF Audited, Phases, NoInconsistency
<1>6. CASE position # None
  <2> DEFINE row == PositionRow(bars, trade.id)
             S == [table : {"POSITION"}, seq : Nat, trade : Nat]
             marks == Append(trade.marks, row)
  <2>1. /\ position \in PositionType /\ trade \in TradeType /\ OwnRows(trade)
    BY <1>6, HeldIsSound
  <2>2. trade' = [trade EXCEPT !.marks = marks] /\ evidence' = evidence
    BY <1>6, <2>1 DEF MarkGrid, TradeType
  <2>3. trade.marks \in Seq(S) /\ trade.id \in Nat
    BY <2>1 DEF TradeType
  <2>4. row \in S /\ row.trade = trade.id
    BY <1>3, <2>3 DEF PositionRow
  <2> HIDE DEF S, row
  <2>5. /\ marks \in Seq(S) /\ Len(trade.marks) \in Nat
        /\ DOMAIN trade.marks = 1 .. Len(trade.marks)
        /\ DOMAIN marks = 1 .. Len(trade.marks) + 1
        /\ \A i \in 1 .. Len(trade.marks) : marks[i] = trade.marks[i]
        /\ marks[Len(trade.marks) + 1] = row
    BY <2>3, <2>4
  <2> HIDE DEF marks
  <2>6. \A i \in DOMAIN marks : marks[i].trade = trade.id
    <3> SUFFICES ASSUME NEW i \in 1 .. Len(trade.marks) + 1
                 PROVE  marks[i].trade = trade.id
      BY <2>5
    <3>1. CASE i = Len(trade.marks) + 1
      BY <2>4, <2>5, <3>1
    <3>2. CASE i # Len(trade.marks) + 1
      <4>1. i \in 1 .. Len(trade.marks)
        BY <2>5, <3>2
      <4> QED
        BY <2>1, <2>5, <4>1 DEF OwnRows
    <3> QED
      BY <3>1, <3>2
  <2>7. trade' \in TradeType
    BY <2>1, <2>2, <2>5 DEF TradeType, S
  <2>8. /\ trade'.id = trade.id /\ trade'.marks = marks
        /\ trade'.settlements = trade.settlements
        /\ trade'.settled = trade.settled /\ trade'.entered = trade.entered
        /\ trade'.stop = trade.stop /\ trade'.take = trade.take
    BY <2>1, <2>2 DEF TradeType
  <2>9. OwnRows(trade)'
    BY <2>1, <2>6, <2>8 DEF OwnRows
  <2>10. Books'
    BY <1>1, <1>3, <2>1, <2>7, <2>9 DEF Books, Paired
  <2>11. Settlement' /\ SurvivorsStayInside'
    BY <1>1, <1>3, <2>8
    DEF Settlement, SettledThrough, SurvivorsStayInside
  <2>12. SoundLog(evidence)'
    BY <1>3, <2>2
  <2> QED
    BY <1>1, <1>2, <1>4, <2>10, <2>11, <2>12 DEF Audited, Phases, NoInconsistency
<1> QED
  BY <1>5, <1>6

\* After the decision of a candle: what is queued was decided at its close, has
\* its DECISION row, and waits for the adjacent candle.
LEMMA AnalyzedAudited ==
    ASSUME Solvent, Audited, phase = "analyze", Analyzed,
           UNCHANGED tape, UNCHANGED <<cursor, cash, position, trade>>,
           SoundLog(evidence)', QueuedAt(candle.closeTime)',
           Shaped(pending', position), pending' # <<>> => Follows
    PROVE  Audited'
<1>1. /\ Running /\ UNCHANGED <<candle, next, bars>>
      /\ phase' \in {"gap", "turn"}
      /\ phase' = "gap" => Gap
      /\ phase' = "turn" => ~Gap
  BY DEF Running, Ended, tape, Analyzed
<1>2. OnTape'
  BY TapeStands DEF Audited
<1>3. /\ SettledThrough(candle.closeTime)
      /\ LevelIsCurrent /\ Books /\ SurvivorsStayInside
  BY <1>1 DEF Audited, Settlement
<1>4. Books' /\ LevelIsCurrent' /\ SurvivorsStayInside' /\ Settlement'
  BY <1>1, <1>3
  DEF Books, Paired, LevelIsCurrent, SurvivorsStayInside, Settlement, SettledThrough
<1>5. Queue'
  BY <1>1 DEF Queue, Follows, Gap
<1> QED
  BY <1>1, <1>2, <1>4, <1>5 DEF Audited, Phases, NoInconsistency

LEMMA NoSignalAudited ==
    ASSUME Solvent, Audited, NoSignal
    PROVE  Audited'
<1>1. /\ phase = "analyze" /\ Running /\ Analyzed /\ UNCHANGED tape
      /\ UNCHANGED <<cursor, cash, position, trade, pending, evidence>>
  BY DEF NoSignal, Running, Ended, books
<1>2. pending = <<>> /\ SoundLog(evidence)
  BY <1>1 DEF Audited, Queue
<1>3. QueuedAt(candle.closeTime)' /\ Shaped(pending', position) /\ SoundLog(evidence)'
  BY <1>1, <1>2 DEF QueuedAt, Shaped
<1> QED
  BY <1>1, <1>2, <1>3, AnalyzedAudited

\* Orders are queued with the decision they carry out.
LEMMA ActAudited ==
    ASSUME Solvent, Audited, phase = "analyze", NEW orders \in Seq(OrderType),
           \/ Skip /\ orders = <<>>
           \/ Act(orders) /\ Follows,
           Shaped(orders, position),
           \A i \in DOMAIN orders : /\ orders[i].decided = candle.closeTime
                                    /\ orders[i].decision = decisions + 1
    PROVE  Audited'
<1> DEFINE log == Append(evidence, DecisionRow(decisions + 1, candle.closeTime))
           skipped == Append(evidence, SkipRow(decisions + 1, candle.closeTime))
<1>1. Running /\ SoundLog(evidence) /\ pending = <<>>
  BY DEF Running, Ended, Audited, Queue
<1>2. decisions + 1 \in Nat /\ candle.closeTime \in Nat
  BY DEF Solvent, Typed, CandleType
<1>3. SoundLog(log) /\ Recorded(log, decisions + 1, candle.closeTime)
      /\ SoundLog(skipped)
  BY <1>1, <1>2, AddDecision
<1>4. <<>> \o orders = orders
  BY ConcatEmptySeq
<1>5. /\ Analyzed /\ UNCHANGED tape /\ UNCHANGED <<cursor, cash, position, trade>>
      /\ pending' = orders
      /\ \/ evidence' = log /\ Follows
         \/ evidence' = skipped /\ orders = <<>>
  BY <1>1, <1>4 DEF Skip, Act, Decide, books
<1>6. UNCHANGED candle
  BY <1>5 DEF tape
<1> HIDE DEF log, skipped
<1>7. SoundLog(evidence)'
  BY <1>3, <1>5
<1>8. QueuedAt(candle.closeTime)'
  <2>1. CASE evidence' = log
    BY <1>3, <1>5, <1>6, <2>1 DEF QueuedAt, Recorded
  <2>2. CASE orders = <<>>
    BY <1>5, <2>2 DEF QueuedAt
  <2> QED
    BY <1>5, <2>1, <2>2
<1>9. Shaped(pending', position) /\ (pending' # <<>> => Follows)
  BY <1>5
<1> QED
  BY <1>5, <1>7, <1>8, <1>9, AnalyzedAudited

\* What an order built from a signal carries.
LEMMA OrderFields ==
    ASSUME NEW reason, NEW side, NEW qty, NEW s
    PROVE  /\ Order(reason, side, qty, s).reason = reason
           /\ Order(reason, side, qty, s).decided = candle.closeTime
           /\ Order(reason, side, qty, s).decision = decisions + 1
BY DEF Order

LEMMA DecisionsAudited ==
    ASSUME Solvent, Audited, NEW s \in Protections,
           \/ ExitSignal(s) \/ AmbiguousSignal(s)
           \/ \E qty \in 1 .. MaxQty, within \in BOOLEAN :
                  EntrySignal(s, qty, within)
    PROVE  Audited'
<1>1. None # "SIGNAL_EXIT" /\ None # "REVERSAL"
  BY EngineAssumption DEF ExitReason
<1>2. ASSUME Skip, phase = "analyze" PROVE Audited'
  <2> DEFINE orders == <<>>
  <2>1. /\ orders \in Seq(OrderType) /\ Shaped(orders, position)
        /\ \A i \in DOMAIN orders : /\ orders[i].decided = candle.closeTime
                                    /\ orders[i].decision = decisions + 1
    BY DEF Shaped
  <2> QED
    BY <1>2, <2>1, ActAudited
<1>3. ASSUME position # None, NEW reason \in {"SIGNAL_EXIT", "REVERSAL"}
      PROVE  /\ ExitOrder(reason, s) \in OrderType
             /\ Exits(ExitOrder(reason, s))
             /\ ExitOrder(reason, s).decided = candle.closeTime
             /\ ExitOrder(reason, s).decision = decisions + 1
  <2>1. position.side \in Sides /\ position.qty \in Nat
    BY <1>3 DEF Solvent, Typed, PositionType
  <2>2. reason \in {None, "SIGNAL_EXIT", "REVERSAL"}
    OBVIOUS
  <2>3. Order(reason, position.side, position.qty, s) \in OrderType
    BY <2>1, <2>2, OrderTyped DEF Solvent
  <2>4. reason # None
    BY <1>1
  <2> QED
    BY <2>3, <2>4, OrderFields DEF ExitOrder, Exits
<1>4. CASE ExitSignal(s)
  <2>1. phase = "analyze"
    BY <1>4 DEF ExitSignal
  <2>2. CASE Skip
    BY <1>2, <2>1, <2>2
  <2>3. CASE position # None /\ Follows /\ Act(<<ExitOrder("SIGNAL_EXIT", s)>>)
    <3> DEFINE o == ExitOrder("SIGNAL_EXIT", s)
               orders == <<o>>
    <3>1. /\ o \in OrderType /\ Exits(o) /\ o.decided = candle.closeTime
          /\ o.decision = decisions + 1
      BY <1>3, <2>3
    <3> HIDE DEF o
    <3>2. /\ orders \in Seq(OrderType) /\ Len(orders) = 1 /\ orders[1] = o
          /\ DOMAIN orders = {1}
      BY <3>1
    <3>3. Act(orders)
      BY <2>3 DEF o
    <3> HIDE DEF orders
    <3>4. Shaped(orders, position)
      BY <2>3, <3>1, <3>2 DEF Shaped
    <3>5. \A i \in DOMAIN orders : /\ orders[i].decided = candle.closeTime
                                   /\ orders[i].decision = decisions + 1
      BY <3>1, <3>2
    <3> QED
      BY <2>1, <2>3, <3>2, <3>3, <3>4, <3>5, ActAudited
  <2> QED
    BY <1>4, <2>2, <2>3 DEF ExitSignal, Plannable
<1>5. CASE AmbiguousSignal(s)
  <2>1. /\ phase' = "failed" /\ UNCHANGED tape
        /\ UNCHANGED <<cash, position, trade, evidence>>
    BY <1>5 DEF AmbiguousSignal, Fails
  <2>2. OnTape' /\ Books' /\ SoundLog(evidence)'
    BY <2>1, TapeStands DEF Audited, Books, Paired
  <2> QED
    BY <2>1, <2>2, EndedAudited
<1>6. ASSUME NEW qty \in 1 .. MaxQty, NEW within \in BOOLEAN,
             EntrySignal(s, qty, within)
      PROVE  Audited'
  <2> DEFINE entry == Order(None, DerivedSide(s), qty, s)
             exit == ExitOrder("REVERSAL", s)
  <2>1. /\ phase = "analyze"
        /\ \/ Skip
           \/ Follows /\ position = None /\ Act(<<entry>>)
           \/ Follows /\ position # None /\ Act(<<exit, entry>>)
    BY <1>6 DEF EntrySignal, Plannable
  <2>2. /\ entry \in OrderType /\ ~Exits(entry)
        /\ entry.decided = candle.closeTime /\ entry.decision = decisions + 1
    <3>1. DerivedSide(s) \in Sides /\ qty \in Nat
      BY DEF DerivedSide, Sides
    <3>2. entry \in OrderType
      BY <3>1, OrderTyped DEF Solvent
    <3> QED
      BY <3>2, OrderFields DEF Exits
  <2>3. position # None =>
          /\ exit \in OrderType /\ Exits(exit)
          /\ exit.decided = candle.closeTime /\ exit.decision = decisions + 1
    BY <1>3
  <2> HIDE DEF entry, exit
  <2>4. CASE Skip
    BY <1>2, <2>1, <2>4
  <2>5. CASE Follows /\ position = None /\ Act(<<entry>>)
    <3> DEFINE orders == <<entry>>
    <3>1. /\ orders \in Seq(OrderType) /\ Len(orders) = 1 /\ orders[1] = entry
          /\ DOMAIN orders = {1}
      BY <2>2
    <3>2. Act(orders)
      BY <2>5
    <3> HIDE DEF orders
    <3>3. Shaped(orders, position)
      BY <2>2, <2>5, <3>1 DEF Shaped
    <3>4. \A i \in DOMAIN orders : /\ orders[i].decided = candle.closeTime
                                   /\ orders[i].decision = decisions + 1
      BY <2>2, <3>1
    <3> QED
      BY <2>1, <2>5, <3>1, <3>2, <3>3, <3>4, ActAudited
  <2>6. CASE Follows /\ position # None /\ Act(<<exit, entry>>)
    <3> DEFINE orders == <<exit, entry>>
    <3>1. /\ orders \in Seq(OrderType) /\ Len(orders) = 2
          /\ orders[1] = exit /\ orders[2] = entry /\ DOMAIN orders = {1, 2}
      BY <2>2, <2>3, <2>6
    <3>2. Act(orders)
      BY <2>6
    <3> HIDE DEF orders
    <3>3. Shaped(orders, position)
      BY <2>2, <2>3, <2>6, <3>1 DEF Shaped
    <3>4. \A i \in DOMAIN orders : /\ orders[i].decided = candle.closeTime
                                   /\ orders[i].decision = decisions + 1
      BY <2>2, <2>3, <2>6, <3>1
    <3> QED
      BY <2>1, <2>6, <3>1, <3>2, <3>3, <3>4, ActAudited
  <2> QED
    BY <2>1, <2>4, <2>5, <2>6
<1> QED
  BY <1>4, <1>5, <1>6

-----------------------------------------------------------------------------
(* The end of a candle *)

\* Behind the last candle before a gap nothing is queued, so the exit fills.
LEMMA CloseAtDataGapAudited ==
    ASSUME Solvent, Solvent', Audited, CloseAtDataGap
    PROVE  Audited'
<1>1. /\ phase = "gap" /\ Running
      /\ UNCHANGED <<candle, next, bars, cursor, pending>> /\ UNCHANGED tape
  BY DEF CloseAtDataGap, Running, Ended, tape
<1>2. OnTape'
  BY <1>1, TapeStands DEF Audited
<1>3. Books /\ SoundLog(evidence) /\ pending = <<>>
  BY <1>1 DEF Audited, Queue, Follows, Gap
<1>4. phase' = "turn" /\ position' = None => Queue'
  BY <1>1, <1>3 DEF Queue, QueuedAt, Shaped
<1>5. CASE position = None
  <2>1. phase' = "turn" /\ UNCHANGED <<cash, position, trade, evidence>>
    BY <1>3, <1>5 DEF CloseAtDataGap, books
  <2>2. Books' /\ SoundLog(evidence)'
    BY <1>3, <2>1 DEF Books, Paired
  <2> QED
    BY <1>2, <1>4, <1>5, <2>1, <2>2, FlatAudited
<1>6. CASE position # None
  <2> DEFINE log == Append(evidence, DecisionRow(decisions + 1, candle.closeTime))
  <2>1. Exit(position, trade, candle.close, FALSE, candle.closeTime + 1,
             decisions + 1, "DATA_GAP", log, "turn")
    BY <1>3, <1>6 DEF CloseAtDataGap, GapExitTime
  <2>2. /\ Accounts /\ Held(position, trade) /\ trade \in TradeType
        /\ OwnRows(trade)
    BY <1>6, HeldIsSound
  <2>3. /\ decisions + 1 \in Nat /\ candle.closeTime \in Nat
        /\ candle.close \in Int
    BY DEF Solvent, Typed, CandleType, Price
  <2>4. SoundLog(log) /\ Recorded(log, decisions + 1, candle.closeTime)
    BY <1>3, <2>3, AddDecision
  <2> HIDE DEF log
  <2>5. FollowsDecision(log, decisions + 1, "DATA_GAP", candle.closeTime + 1)
    <3>1. decisions + 1 # None
      BY <2>3, EngineAssumption
    <3>2. /\ candle.closeTime < candle.closeTime + 1
          /\ candle.closeTime + 1 <= candle.closeTime + Span
      BY <2>3, EngineAssumption
    <3> QED
      BY <2>4, <3>1, <3>2 DEF Recorded, FollowsDecision
  <2>6. /\ decisions + 1 \in Nat \cup {None} /\ candle.closeTime + 1 \in Nat
        /\ "DATA_GAP" \in ExitReason
    BY <2>3 DEF ExitReason
  <2>7. /\ Books' /\ SoundLog(evidence')
        /\ \/ phase' \in {"failed", "rejected"}
           \/ phase' = "turn" /\ position' = None
    BY <1>3, <2>1, <2>2, <2>3, <2>4, <2>5, <2>6, ExitIsSound
  <2>8. CASE phase' \in {"failed", "rejected"}
    BY <1>2, <2>7, <2>8, EndedAudited
  <2>9. CASE phase' = "turn" /\ position' = None
    BY <1>2, <1>4, <2>7, <2>9, FlatAudited
  <2> QED
    BY <2>7, <2>8, <2>9
<1> QED
  BY <1>5, <1>6

\* The exit at the end of the data is the one without a decision.
LEMMA FinalizeAudited ==
    ASSUME Solvent, Solvent', Audited, Finalize
    PROVE  Audited'
<1>1. /\ phase = "turn" /\ Running
      /\ UNCHANGED <<candle, next, bars, cursor, pending>> /\ UNCHANGED tape
  BY DEF Finalize, Running, Ended, tape
<1>2. OnTape'
  BY <1>1, TapeStands DEF Audited
<1>3. Books /\ SoundLog(evidence)
  BY <1>1 DEF Audited
<1>4. CASE position = None
  <2>1. phase' = "finished" /\ UNCHANGED <<cash, position, trade, evidence>>
    BY <1>4 DEF Finalize, books
  <2>2. Books' /\ SoundLog(evidence)'
    BY <1>3, <2>1 DEF Books, Paired
  <2> QED
    BY <1>2, <2>1, <2>2, EndedAudited
<1>5. CASE position # None
  <2>1. Exit(position, trade, candle.close, FALSE, candle.closeTime + 1,
             None, "END_OF_DATA", evidence, "finished")
    BY <1>5 DEF Finalize
  <2>2. /\ Accounts /\ Held(position, trade) /\ trade \in TradeType
        /\ OwnRows(trade)
    BY <1>5, HeldIsSound
  <2>3. candle.closeTime + 1 \in Nat /\ candle.close \in Int
    BY DEF Solvent, Typed, CandleType, Price
  <2>4. /\ FollowsDecision(evidence, None, "END_OF_DATA", candle.closeTime + 1)
        /\ None \in Nat \cup {None} /\ "END_OF_DATA" \in ExitReason
    BY DEF FollowsDecision, ExitReason
  <2>5. /\ Books' /\ SoundLog(evidence')
        /\ \/ phase' \in {"failed", "rejected"}
           \/ phase' = "finished" /\ position' = None
    BY <1>3, <2>1, <2>2, <2>3, <2>4, ExitIsSound
  <2> QED
    BY <1>2, <2>5, EndedAudited
<1> QED
  BY <1>4, <1>5

LEMMA CandleIsProper ==
    ASSUME NEW s \in Shapes, NEW at \in Nat
    PROVE  Proper(Candle(s, at)) /\ Candle(s, at).openTime = at
BY EngineAssumption DEF Proper, Candle

\* The tape moves on by whole candles, up to MaxBars of them.
LEMMA SuccessorIsProper ==
    ASSUME NEW c \in CandleType, NEW n \in 1 .. MaxBars,
           NEW x \in Successors(c, n), x # None
    PROVE  Proper(x) /\ x.openTime >= c.closeTime /\ n < MaxBars
<1>1. n # MaxBars
  BY DEF Successors
<1>2. PICK s \in Shapes, g \in 0 .. MaxGap : x = Candle(s, c.closeTime + g * Span)
  BY DEF Successors
<1>3. c.closeTime \in Nat /\ g * Span \in Nat
  BY EngineAssumption DEF CandleType
<1>4. Proper(x) /\ x.openTime = c.closeTime + g * Span
  BY <1>2, <1>3, CandleIsProper
<1>5. n \in Int /\ MaxBars \in Int /\ n <= MaxBars
  BY EngineAssumption
<1> QED
  BY <1>1, <1>3, <1>4, <1>5

\* A position or an order is carried over to an adjacent candle only, which
\* opens at the boundary charged last.
LEMMA NextCandleAudited ==
    ASSUME Solvent, Audited, NextCandle
    PROVE  Audited'
<1>1. /\ phase = "turn" /\ Running /\ next # None /\ candle' = next
      /\ bars' = bars + 1 /\ next' \in Successors(next, bars + 1)
      /\ phase' = "open"
      /\ UNCHANGED <<cash, position, trade, pending, evidence>>
  BY DEF NextCandle, Running, Ended, books
<1>2. OnTape'
  <2>1. Proper(next) /\ bars \in 1 .. MaxBars /\ bars < MaxBars
    BY <1>1 DEF Audited, OnTape
  <2>2. bars + 1 \in 1 .. MaxBars
    BY <2>1, EngineAssumption
  <2>3. next \in CandleType
    BY <1>1 DEF Solvent, Typed
  <2>4. next' # None => Proper(next)' /\ next'.openTime >= next.closeTime
                        /\ bars + 1 < MaxBars
    BY <1>1, <2>2, <2>3, SuccessorIsProper DEF Proper
  <2>5. Proper(candle)'
    BY <1>1, <2>1 DEF Proper
  <2> QED
    BY <1>1, <2>2, <2>4, <2>5 DEF OnTape
<1>3. Books' /\ SoundLog(evidence)' /\ LevelIsCurrent'
  BY <1>1 DEF Audited, Books, Paired, LevelIsCurrent
<1>4. Queue'
  <2>1. /\ QueuedAt(candle.closeTime) /\ Shaped(pending, position)
        /\ pending # <<>> => next.openTime = candle.closeTime
    BY <1>1 DEF Audited, Queue, Follows
  <2>2. QueuedAt(candle.openTime)'
    BY <1>1, <2>1 DEF QueuedAt, Recorded
  <2> QED
    BY <1>1, <2>1, <2>2 DEF Queue
<1>5. Settlement'
  <2>1. /\ SettledThrough(candle.closeTime)
        /\ position # None => next.openTime = candle.closeTime
    BY <1>1 DEF Audited, Settlement, Queue, Gap
  <2>2. SettledThrough(candle.openTime)'
    BY <1>1, <2>1 DEF SettledThrough
  <2> QED
    BY <1>1, <2>2 DEF Settlement
<1> QED
  BY <1>1, <1>2, <1>3, <1>4, <1>5
  DEF Audited, Phases, NoInconsistency, SurvivorsStayInside

LEMMA InitAudited == Init => Audited
<1> SUFFICES ASSUME Init PROVE Audited
  OBVIOUS
<1>1. /\ phase = "open" /\ bars = 1 /\ cash = InitialCash
      /\ position = None /\ trade = None /\ pending = <<>> /\ evidence = <<>>
      /\ next \in Successors(candle, 1)
  BY DEF Init
<1>2. candle \in CandleType
  BY InitSolvent DEF Solvent, Typed
<1>3. OnTape
  <2>1. PICK s \in Shapes, k \in 0 .. FundingEvery \div Span :
            candle = Candle(s, k * Span)
    BY DEF Init
  <2>2. k * Span \in Nat
    BY EngineAssumption
  <2>3. Proper(candle)
    BY <2>1, <2>2, CandleIsProper
  <2>4. 1 \in 1 .. MaxBars
    BY EngineAssumption
  <2>5. next # None => Proper(next) /\ next.openTime >= candle.closeTime
                       /\ 1 < MaxBars
    BY <1>1, <1>2, <2>4, SuccessorIsProper
  <2> QED
    BY <1>1, <2>3, <2>4, <2>5 DEF OnTape
<1>4. Books
  BY <1>1, EngineAssumption DEF Books, Paired
<1>5. SoundLog(evidence)
  <2>1. evidence \in Seq(EvidenceType)
    BY <1>1
  <2>2. DOMAIN evidence = {}
    BY <1>1
  <2> QED
    BY <2>1, <2>2 DEF SoundLog, Timely, Resolved
<1>6. LevelIsCurrent /\ Settlement
  BY <1>1 DEF LevelIsCurrent, Settlement, SettledThrough
<1>7. Queue
  BY <1>1 DEF Queue, QueuedAt, Shaped
<1> QED
  BY <1>1, <1>3, <1>4, <1>5, <1>6, <1>7
  DEF Audited, Phases, NoInconsistency, SurvivorsStayInside

-----------------------------------------------------------------------------
(* What a forced exit costs *)

\* The maintenance share of a price is below the price.
LEMMA MaintenanceIsLess ==
    ASSUME NEW entry \in Nat \ {0}
    PROVE  (entry * Maintenance) \div RateScale \in 0 .. entry - 1
<1> DEFINE x == entry * Maintenance
           k == x \div RateScale
<1>1. RateScale \in Nat \ {0} /\ Maintenance \in Nat /\ Maintenance <= RateScale - 1
  BY EngineAssumption
<1>2. x \in Nat
  BY <1>1
<1>3. x < entry * RateScale
  <2>1. x <= entry * (RateScale - 1)
    BY <1>1
  <2>2. entry * (RateScale - 1) = entry * RateScale - entry
    BY <1>1
  <2>3. entry * RateScale \in Int
    BY <1>1
  <2> HIDE DEF x
  <2> QED
    BY <1>2, <2>1, <2>2, <2>3
<1> HIDE DEF x
<1>4. k \in Nat /\ x = k * RateScale + (x % RateScale) /\ (x % RateScale) \in Nat
  BY <1>1, <1>2
<1> HIDE DEF k
<1>5. k < entry
  <2> SUFFICES ASSUME entry <= k PROVE FALSE
    BY <1>4
  <2>1. entry * RateScale <= k * RateScale
    BY <1>1, <1>4
  <2>2. entry * RateScale \in Int /\ k * RateScale \in Int
    BY <1>1, <1>4
  <2> QED
    BY <1>2, <1>3, <1>4, <2>1, <2>2
<1> QED
  BY <1>4, <1>5 DEF k, x

\* Above the liquidation level the loss of a unit is within its share of the
\* margin, also when the level is clipped at zero and taken for "never set".
LEMMA LevelCoversMargin ==
    ASSUME NEW p \in PositionType,
           p.liquidation = LiquidationPrice(p.side, p.entry, p.qty, p.margin)
    PROVE  /\ LiquidationLevel(p) \in Nat
           /\ Sign(p.side) * LiquidationLevel(p) - Sign(p.side) * p.entry
                  >= -(p.margin \div p.qty)
<1> DEFINE s == Sign(p.side)
           m == p.margin \div p.qty
           k == (p.entry * Maintenance) \div RateScale
           level == LiquidationLevel(p)
<1>1. /\ p.side \in Sides /\ p.qty \in Nat \ {0} /\ p.entry \in Nat \ {0}
      /\ p.margin \in Nat /\ p.liquidation \in Nat
  BY DEF PositionType, Price
<1>2. m \in Nat
  BY <1>1
<1>3. k \in 0 .. p.entry - 1
  BY <1>1, MaintenanceIsLess
<1>4. p.liquidation = NotNegative(p.entry - s * (m - k))
  BY DEF LiquidationPrice
<1>5. s = 1 \/ s = -1
  BY DEF Sign
<1>6. level \in Nat
  <2>1. Margin(p.entry * p.qty) \in Int
    <3>1. p.entry * p.qty \in Int
      BY <1>1
    <3> QED
      BY <3>1, EngineAssumption DEF Margin
  <2>2. LiquidationPrice(p.side, p.entry, p.qty, Margin(p.entry * p.qty)) \in Nat
    BY <1>1, <2>1, LiquidationPriceTyped
  <2> QED
    BY <1>1, <2>2 DEF LiquidationLevel
<1>7. p.liquidation > 0 => level = p.liquidation
  BY DEF LiquidationLevel
<1> HIDE DEF s, m, k, level
<1>8. s * level - s * p.entry >= -m
  <2>1. CASE p.liquidation > 0
    <3>1. level = p.entry - s * (m - k)
      <4>1. p.entry - s * (m - k) \in Int
        BY <1>1, <1>2, <1>3, <1>5
      <4> QED
        BY <1>1, <1>4, <1>7, <2>1, <4>1 DEF NotNegative
    <3>2. CASE s = 1
      BY <1>1, <1>2, <1>3, <3>1, <3>2
    <3>3. CASE s = -1
      BY <1>1, <1>2, <1>3, <3>1, <3>3
    <3> QED
      BY <1>5, <3>2, <3>3
  <2>2. CASE ~(p.liquidation > 0)
    <3>1. p.entry - s * (m - k) <= 0
      <4>1. p.entry - s * (m - k) \in Int
        BY <1>1, <1>2, <1>3, <1>5
      <4> QED
        BY <1>1, <1>4, <2>2, <4>1 DEF NotNegative
    <3>2. s # -1
      BY <1>1, <1>2, <1>3, <3>1
    <3>3. s = 1
      BY <1>5, <3>2
    <3> QED
      BY <1>1, <1>2, <1>3, <1>6, <3>1, <3>3
  <2> QED
    BY <2>1, <2>2
<1> QED
  BY <1>6, <1>8 DEF s, m, level

\* A trigger fills no worse than at the liquidation level, except at an open
\* beyond it.
LEMMA TriggersFillInTime ==
    ASSUME Solvent, Audited, phase = "triggers", Triggered
    PROVE  \/ StrictlyBeyond(position.side, candle.open, LiquidationLevel(position))
           \/ Sign(position.side)
                  * TriggerReference(position, TriggerReason(position))
                  >= Sign(position.side) * LiquidationLevel(position)
<1> DEFINE side == position.side
           s == Sign(side)
           level == LiquidationLevel(position)
           reason == TriggerReason(position)
           reference == TriggerReference(position, reason)
           adverse == Adverse(side)
           best == Favourable(side)
<1> SUFFICES ASSUME ~StrictlyBeyond(side, candle.open, level)
             PROVE  s * reference >= s * level
  OBVIOUS
<1>1. /\ position # None /\ position \in PositionType /\ trade \in TradeType
  BY HeldIsSound DEF Triggered
<1>2. LevelIsCurrent
  BY DEF Audited, Running, Ended
<1>3. level \in Nat
  BY <1>1, <1>2, LevelCoversMargin DEF LevelIsCurrent
<1>4. /\ candle.open \in Int /\ candle.low \in Int /\ candle.high \in Int
      /\ candle.low <= candle.open /\ candle.open <= candle.high
  BY DEF Solvent, Typed, CandleType, Price, Audited, OnTape, Proper
<1>5. trade.stop \in Nat \cup {None} /\ trade.take \in Nat \cup {None}
  BY <1>1 DEF TradeType
<1>6. s = 1 \/ s = -1
  BY DEF Sign
<1>7. adverse \in Int /\ best \in Int /\ s * adverse <= s * candle.open
  BY <1>4 DEF Adverse, Favourable, Sign
<1>8. s * candle.open >= s * level
  <2>1. ~(s * candle.open < s * level)
    BY <1>3, <1>4, BeyondAsOrder
  <2> QED
    BY <1>3, <1>4, <1>6, <2>1
\* The reference is the level that triggered, or the open.
<1>9. \/ reference = candle.open
      \/ reference = TriggerLevel(position, reason)
  BY DEF TriggerReference
<1>10. CASE reason = "LIQUIDATION"
  <2>1. reference = level
    BY <1>10 DEF TriggerReference, TriggerLevel
  <2> QED
    BY <1>3, <1>6, <2>1
<1>11. CASE reason = "STOP_LOSS"
  <2>1. trade.stop # None /\ StopHit(position)
        /\ ~(LiquidationHit(position) /\ StopInvalid(position))
    <3>1. None # "STOP_LOSS"
      BY EngineAssumption DEF ExitReason
    <3>2. StopHit(position) /\ ~(LiquidationHit(position) /\ StopInvalid(position))
      BY <1>11, <3>1 DEF TriggerReason
    <3> QED
      BY <3>2 DEF StopHit
  <2>2. TriggerLevel(position, reason) = trade.stop /\ trade.stop \in Int
    BY <1>5, <1>11, <2>1 DEF TriggerLevel
  <2>3. s * trade.stop >= s * level
    <3>1. s * adverse <= s * trade.stop
      BY <1>7, <2>1, <2>2, BeyondAsOrder DEF StopHit
    <3>2. \/ ~(s * adverse <= s * level)
          \/ ~(s * trade.stop < s * level)
      BY <1>3, <1>7, <2>1, <2>2, BeyondAsOrder DEF LiquidationHit, StopInvalid
    <3> HIDE DEF s, level, adverse
    <3> QED
      BY <1>3, <1>6, <1>7, <2>2, <3>1, <3>2
  <2> QED
    BY <1>8, <1>9, <2>2, <2>3
<1>12. CASE reason = "TAKE_PROFIT"
  <2>1. trade.take # None /\ ~LiquidationHit(position)
    <3>1. None # "TAKE_PROFIT"
      BY EngineAssumption DEF ExitReason
    <3>2. TargetHit(position) /\ ~LiquidationHit(position)
      BY <1>12, <3>1 DEF TriggerReason
    <3> QED
      BY <3>2 DEF TargetHit
  <2>2. TriggerLevel(position, reason) = trade.take /\ trade.take \in Int
    BY <1>5, <1>12, <2>1 DEF TriggerLevel
  <2>3. ~(s * adverse <= s * level)
    BY <1>3, <1>7, <2>1, BeyondAsOrder DEF LiquidationHit
  <2>4. CASE reference = candle.open
    BY <1>8, <2>4
  <2>5. CASE reference # candle.open
    <3>1. reference = trade.take /\ ~GapFilled(position, reason)
      BY <1>12, <2>2, <2>5 DEF TriggerReference
    <3>2. ~(s * trade.take < s * candle.open)
      BY <1>4, <1>12, <2>2, <3>1, BeyondAsOrder DEF GapFilled
    <3> HIDE DEF s, level, adverse, reference
    <3> QED
      BY <1>3, <1>4, <1>6, <1>7, <2>2, <2>3, <3>1, <3>2
  <2> QED
    BY <2>4, <2>5
<1>13. reason \in {"LIQUIDATION", "STOP_LOSS", "TAKE_PROFIT"}
  BY DEF Triggered, TriggerReason
<1> QED
  BY <1>10, <1>11, <1>12, <1>13

\* A loss per unit within the share of the margin is within the margin.
LEMMA ShareCoversMargin ==
    ASSUME NEW margin \in Nat, NEW qty \in Nat \ {0}, NEW d \in Int,
           d >= -(margin \div qty)
    PROVE  margin + d * qty >= 0
<1> DEFINE m == margin \div qty
<1>1. m \in Nat /\ margin = m * qty + (margin % qty) /\ (margin % qty) \in Nat
  OBVIOUS
<1> HIDE DEF m
<1>2. d >= -m
  BY DEF m
<1>3. 0 <= d + m
  BY <1>1, <1>2
<1>4. 0 <= (d + m) * qty
  BY <1>1, <1>3
<1>5. (d + m) * qty = d * qty + m * qty
  BY <1>1
<1>6. d * qty \in Int /\ m * qty \in Int
  BY <1>1
<1> QED
  BY <1>1, <1>4, <1>5, <1>6

\* So a triggered exit costs no more than the margin and the slippage.
LEMMA ForcedExitIsCovered ==
    ASSUME Solvent, Audited, WalkTriggers, position # None, position' = None
    PROVE  \/ cash' + Fee + GapFactor * Slip * position.qty >= cash
           \/ StrictlyBeyond(position.side, candle.open, LiquidationLevel(position))
<1> DEFINE side == position.side
           s == Sign(side)
           qty == position.qty
           entry == position.entry
           margin == position.margin
           level == LiquidationLevel(position)
           reason == TriggerReason(position)
           reference == TriggerReference(position, reason)
           gap == GapFilled(position, reason)
           slip == ExitSlip(gap)
           loss == s * reference - s * entry
<1> SUFFICES ASSUME ~StrictlyBeyond(side, candle.open, level)
             PROVE  cash' + Fee + GapFactor * Slip * qty >= cash
  OBVIOUS
<1>1. phase = "triggers" /\ Triggered
  BY DEF WalkTriggers, books
<1>2. /\ Held(position, trade) /\ position \in PositionType /\ cash \in Int
  BY HeldIsSound DEF Accounts
<1>3. /\ qty \in Nat \ {0} /\ entry \in Int /\ margin \in Nat
  BY <1>2 DEF PositionType, Price
<1>4. reference \in Int
  BY <1>1, <1>2, TriggerReferenceTyped DEF Solvent
<1>5. cash' = cash + Recovered(position, ExitPrice(side, reference, gap)) - Fee
  <2>1. Exit(position, trade, reference, gap, candle.closeTime, decisions + 1,
             reason, Append(evidence, DecisionRow(decisions + 1, candle.openTime)),
             "mark")
    BY <1>1 DEF WalkTriggers
  <2> HIDE DEF reference, gap, reason
  <2> QED
    BY <2>1 DEF Exit, Fails
<1>6. loss >= -(margin \div qty)
  <2>1. s * reference >= s * level
    BY <1>1, TriggersFillInTime
  <2>2. level \in Nat /\ s * level - s * entry >= -(margin \div qty)
    <3>1. LevelIsCurrent
      BY <1>1 DEF Audited, Running, Ended
    <3> QED
      BY <1>2, <3>1, LevelCoversMargin DEF LevelIsCurrent
  <2>3. /\ s * level \in Int /\ s * entry \in Int /\ s * reference \in Int
        /\ margin \div qty \in Int
    <3> HIDE DEF level, entry, reference, margin, qty
    <3>1. level \in Int /\ entry \in Int /\ reference \in Int
      BY <1>3, <1>4, <2>2
    <3>2. margin \div qty \in Int
      BY <1>3
    <3> QED
      BY <3>1, <3>2, SignTwice
  <2> HIDE DEF s, level, entry, reference
  <2> QED
    BY <2>1, <2>2, <2>3
<1>7. s = 1 \/ s = -1
  BY DEF Sign
<1>8. Fee \in Int /\ Slip \in Nat /\ GapFactor \in Nat \ {0}
  BY EngineAssumption
<1>9. slip \in Nat /\ GapFactor * Slip \in Nat /\ slip <= GapFactor * Slip
  BY <1>8 DEF ExitSlip
<1>10. Recovered(position, ExitPrice(side, reference, gap))
           = margin + s * ((reference - s * slip) - entry) * qty
  BY DEF Recovered, Gain, ExitPrice
<1> HIDE DEF reference, gap, slip, qty, entry, margin, s
<1>11. s * ((reference - s * slip) - entry) = loss - slip
  BY <1>3, <1>4, <1>7, <1>9
<1>12. loss \in Int
  BY <1>3, <1>4, <1>7
<1> HIDE DEF loss
<1>13. margin + loss * qty >= 0
  BY <1>3, <1>6, <1>12, ShareCoversMargin
<1>14. (loss - slip) * qty = loss * qty - slip * qty
  BY <1>3, <1>9, <1>12
<1> DEFINE g == GapFactor * Slip
<1>15. slip * qty <= g * qty
  BY <1>3, <1>9
<1>16. slip * qty \in Int /\ loss * qty \in Int /\ g * qty \in Int
  BY <1>3, <1>9, <1>12
<1> HIDE DEF g
<1>17. cash' = cash + (margin + (loss * qty - slip * qty)) - Fee
  BY <1>5, <1>10, <1>11, <1>14
<1>18. cash' + Fee + g * qty >= cash
  BY <1>2, <1>3, <1>8, <1>13, <1>15, <1>16, <1>17
<1> QED
  BY <1>18 DEF g

-----------------------------------------------------------------------------
(* That nothing is missing from the evidence *)

PositionRows(log) == {i \in DOMAIN log : log[i].table = "POSITION"}

\* The POSITION rows of log are those of the bars first to last, in order.
MarksBars(log, first, last) ==
    /\ {log[i].seq : i \in PositionRows(log)} = first .. last
    /\ \A i, j \in PositionRows(log) : i < j => log[i].seq < log[j].seq

Executed(log, id) ==
    \E i \in DOMAIN log : log[i].table = "EXECUTION" /\ log[i].decision = id

\* Every decision to act was executed, or is one of those in owed.
ExecutedBut(log, owed) ==
    \A i \in DOMAIN log :
        log[i].table = "DECISION" =>
            Executed(log, log[i].id) \/ log[i].id \in owed

\* After n bars the rows in buffer are those of the latest of them, and log
\* has the others.
Accounted(n, buffer, log, owed) ==
    /\ Len(buffer) <= n
    /\ MarksBars(log, 1, n - Len(buffer))
    /\ \A i \in DOMAIN buffer : buffer[i].seq = n - Len(buffer) + i
    /\ ExecutedBut(log, owed)

\* Bars that were marked.
Passed ==
    IF phase \in {"analyze", "gap", "turn", "finished"} THEN bars ELSE bars - 1

Buffer == IF position = None THEN <<>> ELSE trade.marks

Owed == {pending[i].decision : i \in DOMAIN pending}

Broken == {"failed", "rejected", "inconsistent"}

Complete ==
    phase \notin Broken =>
        /\ Accounted(Passed, Buffer, evidence, Owed)
        /\ phase = "finished" => position = None /\ pending = <<>>

\* Two runs of POSITION rows that follow each other.
LEMMA MarksJoin ==
    ASSUME NEW log \in Seq(EvidenceType), NEW rows \in Seq(EvidenceType),
           NEW m \in Nat, NEW k \in Nat,
           MarksBars(log, 1, m), MarksBars(rows, m + 1, m + k)
    PROVE  MarksBars(log \o rows, 1, m + k)
<1> DEFINE longer == log \o rows
           n == Len(log)
<1>1. /\ Grows(log, longer) /\ DOMAIN longer = 1 .. n + Len(rows)
      /\ \A i \in 1 .. Len(rows) : longer[n + i] = rows[i]
      /\ \A i \in DOMAIN longer :
             \/ i \in DOMAIN log /\ longer[i] = log[i]
             \/ \E r \in 1 .. Len(rows) : i = n + r /\ longer[i] = rows[r]
  BY ConcatenationGrows
<1>2. /\ n \in Nat /\ DOMAIN log = 1 .. n
      /\ Len(rows) \in Nat /\ DOMAIN rows = 1 .. Len(rows)
  BY LenProperties
<1> HIDE DEF longer, n
<1>3. ASSUME NEW i \in PositionRows(longer)
      PROVE  \/ i \in PositionRows(log) /\ longer[i].seq = log[i].seq
             \/ \E r \in PositionRows(rows) :
                    i = n + r /\ longer[i].seq = rows[r].seq
  BY <1>1, <1>2 DEF PositionRows
<1>4. \A i \in PositionRows(log) : log[i].seq \in 1 .. m
  BY DEF MarksBars
<1>5. \A r \in PositionRows(rows) : rows[r].seq \in m + 1 .. m + k
  BY DEF MarksBars
<1>6. ASSUME NEW i \in PositionRows(longer)
      PROVE  longer[i].seq \in 1 .. m + k
  BY <1>3, <1>4, <1>5
<1>7. ASSUME NEW q \in 1 .. m + k
      PROVE  \E i \in PositionRows(longer) : longer[i].seq = q
  <2>1. CASE q \in 1 .. m
    <3>1. PICK i \in PositionRows(log) : log[i].seq = q
      BY <2>1 DEF MarksBars
    <3>2. i \in PositionRows(longer) /\ longer[i] = log[i]
      BY <1>1 DEF PositionRows, Grows
    <3> QED
      BY <3>1, <3>2
  <2>2. CASE q \in m + 1 .. m + k
    <3>1. PICK r \in PositionRows(rows) : rows[r].seq = q
      BY <2>2 DEF MarksBars
    <3>2. r \in 1 .. Len(rows) /\ n + r \in DOMAIN longer
      BY <1>1, <1>2 DEF PositionRows
    <3>3. n + r \in PositionRows(longer) /\ longer[n + r] = rows[r]
      BY <1>1, <3>2 DEF PositionRows
    <3> QED
      BY <3>1, <3>3
  <2> QED
    BY <2>1, <2>2
<1>8. ASSUME NEW i \in PositionRows(longer), NEW j \in PositionRows(longer), i < j
      PROVE  longer[i].seq < longer[j].seq
  <2>1. CASE i \in PositionRows(log) /\ longer[i].seq = log[i].seq
    <3>1. CASE j \in PositionRows(log) /\ longer[j].seq = log[j].seq
      BY <1>8, <2>1, <3>1 DEF MarksBars
    <3>2. CASE \E r \in PositionRows(rows) : longer[j].seq = rows[r].seq
      BY <1>4, <1>5, <2>1, <3>2
    <3> QED
      BY <1>3, <3>1, <3>2
  <2>2. ASSUME NEW r \in PositionRows(rows), i = n + r, longer[i].seq = rows[r].seq
        PROVE  longer[i].seq < longer[j].seq
    <3>1. r \in 1 .. Len(rows)
      BY <1>2 DEF PositionRows
    <3>2. j \notin PositionRows(log)
      <4>1. PositionRows(log) \subseteq 1 .. n
        BY <1>2 DEF PositionRows
      <4>2. j \in DOMAIN longer
        BY DEF PositionRows
      <4> QED
        BY <1>1, <1>2, <1>8, <2>2, <3>1, <4>1, <4>2
    <3>3. PICK s \in PositionRows(rows) : j = n + s /\ longer[j].seq = rows[s].seq
      BY <1>3, <3>2
    <3>4. s \in 1 .. Len(rows)
      BY <1>2 DEF PositionRows
    <3>5. r < s
      BY <1>2, <1>8, <2>2, <3>1, <3>3, <3>4
    <3> QED
      BY <2>2, <3>3, <3>5 DEF MarksBars
  <2> QED
    BY <1>3, <2>1, <2>2
<1> QED
  BY <1>6, <1>7, <1>8 DEF MarksBars, longer

\* Rows that execute what was owed, and decide what is left.
LEMMA ExecutionJoin ==
    ASSUME NEW log \in Seq(EvidenceType), NEW rows \in Seq(EvidenceType),
           NEW owed, NEW left, ExecutedBut(log, owed),
           \A id \in owed : id \in left \/ Executed(rows, id),
           \A i \in DOMAIN rows : rows[i].table = "DECISION" => rows[i].id \in left
    PROVE  ExecutedBut(log \o rows, left)
<1> DEFINE longer == log \o rows
           n == Len(log)
<1>1. /\ Grows(log, longer) /\ DOMAIN longer = 1 .. n + Len(rows)
      /\ \A i \in 1 .. Len(rows) : longer[n + i] = rows[i]
      /\ \A i \in DOMAIN longer :
             \/ i \in DOMAIN log /\ longer[i] = log[i]
             \/ \E r \in 1 .. Len(rows) : i = n + r /\ longer[i] = rows[r]
  BY ConcatenationGrows
<1>2. /\ n \in Nat /\ Len(rows) \in Nat /\ DOMAIN rows = 1 .. Len(rows)
  BY LenProperties
<1> HIDE DEF longer, n
<1>3. \A id : Executed(log, id) => Executed(longer, id)
  BY <1>1 DEF Executed, Grows
<1>4. ASSUME NEW id, Executed(rows, id) PROVE Executed(longer, id)
  <2>1. PICK r \in 1 .. Len(rows) :
            rows[r].table = "EXECUTION" /\ rows[r].decision = id
    BY <1>2, <1>4 DEF Executed
  <2>2. n + r \in DOMAIN longer /\ longer[n + r] = rows[r]
    BY <1>1, <1>2
  <2> QED
    BY <2>1, <2>2 DEF Executed
<1>5. ASSUME NEW i \in DOMAIN longer, longer[i].table = "DECISION"
      PROVE  Executed(longer, longer[i].id) \/ longer[i].id \in left
  <2>1. CASE i \in DOMAIN log /\ longer[i] = log[i]
    <3>1. Executed(log, log[i].id) \/ log[i].id \in owed
      BY <1>5, <2>1 DEF ExecutedBut
    <3> QED
      BY <1>3, <1>4, <2>1, <3>1
  <2>2. CASE \E r \in 1 .. Len(rows) : longer[i] = rows[r]
    BY <1>2, <1>5, <2>2
  <2> QED
    BY <1>1, <2>1, <2>2
<1> QED
  BY <1>5 DEF ExecutedBut, longer

\* One row that is no POSITION row.
LEMMA AccountRow ==
    ASSUME NEW n \in Int, NEW buffer, Len(buffer) \in Nat,
           NEW log \in Seq(EvidenceType), NEW owed, NEW left,
           Accounted(n, buffer, log, owed),
           NEW row \in EvidenceType, row.table # "POSITION",
           row.table = "DECISION" => row.id \in left,
           \A id \in owed :
               id \in left \/ (row.table = "EXECUTION" /\ row.decision = id)
    PROVE  /\ Accounted(n, buffer, Append(log, row), left)
           /\ Append(log, row) \in Seq(EvidenceType)
<1> DEFINE rows == <<row>>
           m == n - Len(buffer)
<1>1. /\ rows \in Seq(EvidenceType) /\ DOMAIN rows = {1} /\ rows[1] = row
      /\ Append(log, row) = log \o rows /\ Append(log, row) \in Seq(EvidenceType)
  OBVIOUS
<1> HIDE DEF rows
<1>2. m \in Nat /\ MarksBars(log, 1, m)
  BY DEF Accounted
<1>3. MarksBars(rows, m + 1, m + 0)
  <2>1. PositionRows(rows) = {}
    BY <1>1 DEF PositionRows
  <2>2. m + 1 .. m + 0 = {}
    BY <1>2
  <2> QED
    BY <2>1, <2>2 DEF MarksBars
<1>4. MarksBars(log \o rows, 1, m)
  <2>1. MarksBars(log \o rows, 1, m + 0)
    <3> HIDE DEF m
    <3> QED
      BY <1>1, <1>2, <1>3, MarksJoin
  <2>2. m + 0 = m
    BY <1>2
  <2> QED
    BY <2>1, <2>2
<1>5. ExecutedBut(log \o rows, left)
  <2>1. ExecutedBut(log, owed)
    BY DEF Accounted
  <2>2. \A id \in owed : id \in left \/ Executed(rows, id)
    BY <1>1 DEF Executed
  <2> QED
    BY <1>1, <2>1, <2>2, ExecutionJoin
<1> QED
  BY <1>1, <1>4, <1>5 DEF Accounted

\* A decision is owed its execution, a skipped signal nothing.
LEMMA AccountDecision ==
    ASSUME NEW n \in Int, NEW buffer, Len(buffer) \in Nat,
           NEW log \in Seq(EvidenceType), NEW owed,
           Accounted(n, buffer, log, owed), NEW id \in Nat, NEW at \in Nat
    PROVE  /\ Accounted(n, buffer, Append(log, DecisionRow(id, at)), owed \cup {id})
           /\ Append(log, DecisionRow(id, at)) \in Seq(EvidenceType)
           /\ Accounted(n, buffer, Append(log, SkipRow(id, at)), owed)
<1> DEFINE row == DecisionRow(id, at)
           skip == SkipRow(id, at)
           left == owed \cup {id}
<1>1. row \in EvidenceType /\ row.table = "DECISION" /\ row.id = id
  BY DEF DecisionRow, EvidenceType
<1>2. skip \in EvidenceType /\ skip.table = "SKIP"
  BY DEF SkipRow, EvidenceType
<1>3. id \in left /\ \A i \in owed : i \in left
  OBVIOUS
<1> HIDE DEF row, skip, left
<1>4. /\ Accounted(n, buffer, Append(log, row), left)
      /\ Append(log, row) \in Seq(EvidenceType)
  <2>1. /\ row.table # "POSITION" /\ row.table = "DECISION" => row.id \in left
        /\ \A i \in owed :
               i \in left \/ (row.table = "EXECUTION" /\ row.decision = i)
    BY <1>1, <1>3
  <2> QED
    BY <1>1, <2>1, AccountRow
<1>5. Accounted(n, buffer, Append(log, skip), owed)
  <2>1. /\ skip.table # "POSITION" /\ skip.table = "DECISION" => skip.id \in owed
        /\ \A i \in owed :
               i \in owed \/ (skip.table = "EXECUTION" /\ skip.decision = i)
    BY <1>2
  <2> QED
    BY <1>2, <2>1, AccountRow
<1> QED
  BY <1>4, <1>5 DEF row, skip, left

\* An exit releases the rows of its trade, and executes its decision.
LEMMA ExitAccounts ==
    ASSUME NEW n \in Int, NEW owed, NEW left,
           NEW p, NEW t \in TradeType, OwnRows(t),
           NEW log \in Seq(EvidenceType), Accounted(n, t.marks, log, owed),
           NEW reference, NEW gap, NEW at \in Nat,
           NEW decision \in Nat \cup {None}, NEW reason \in ExitReason, NEW then,
           \A id \in owed : id \in left \/ id = decision,
           Exit(p, t, reference, gap, at, decision, reason, log, then)
    PROVE  \/ phase' \in Broken
           \/ phase' = then /\ position' = None /\ Accounted(n, <<>>, evidence', left)
<1> DEFINE row == ExecutionRow(decision, reason, at)
           executed == Append(log, row)
           rows == Flushed(t, at, reason)
           k == Len(t.marks)
           m == n - k
<1>1. /\ row \in EvidenceType /\ row.table = "EXECUTION" /\ row.decision = decision
  BY DEF ExecutionRow, EvidenceType
<1>2. \/ phase' \in Broken
      \/ phase' = then /\ position' = None /\ evidence' = executed \o rows
  BY DEF Exit, Fails, Broken, row
<1> HIDE DEF row
<1>3. /\ rows \in Seq(EvidenceType) /\ k \in Nat
      /\ \A i \in 1 .. Len(rows) : rows[i].table \notin {"EXECUTION", "DECISION"}
      /\ \A i \in 1 .. k : /\ i + 1 \in 1 .. Len(rows) /\ rows[i + 1] = t.marks[i]
                           /\ t.marks[i].table = "POSITION"
      /\ \A i \in 1 .. Len(rows) : rows[i].table = "POSITION" => i - 1 \in 1 .. k
  <2>1. rows \in Seq(EvidenceType) /\ k \in Nat
    BY FlushedRows
  <2>2. \A i \in 1 .. Len(rows) : rows[i].table \notin {"EXECUTION", "DECISION"}
    BY FlushedRows
  <2>3. \A i \in 1 .. k : /\ i + 1 \in 1 .. Len(rows) /\ rows[i + 1] = t.marks[i]
                          /\ t.marks[i].table = "POSITION"
    BY FlushedRows
  <2>4. \A i \in 1 .. Len(rows) : rows[i].table = "POSITION" => i - 1 \in 1 .. k
    BY FlushedRows
  <2> HIDE DEF rows, k
  <2> QED
    BY <2>1, <2>2, <2>3, <2>4
<1>4. DOMAIN rows = 1 .. Len(rows) /\ Len(rows) \in Nat /\ DOMAIN t.marks = 1 .. k
  <2>1. t.marks \in Seq([table : {"POSITION"}, seq : Nat, trade : Nat])
    BY DEF TradeType
  <2> HIDE DEF rows
  <2> QED
    BY <1>3, <2>1, LenProperties
<1> HIDE DEF rows, executed
<1>5. Accounted(n, t.marks, executed, left) /\ executed \in Seq(EvidenceType)
  BY <1>1, <1>3, AccountRow DEF executed
<1>6. /\ m \in Nat /\ MarksBars(executed, 1, m) /\ ExecutedBut(executed, left)
      /\ \A i \in 1 .. k : t.marks[i].seq = m + i
  <2>1. /\ k <= n /\ MarksBars(executed, 1, m) /\ ExecutedBut(executed, left)
        /\ \A i \in DOMAIN t.marks : t.marks[i].seq = m + i
    BY <1>5 DEF Accounted
  <2>2. m \in Nat
    BY <1>3, <2>1
  <2> QED
    BY <1>4, <2>1, <2>2
<1> HIDE DEF k, m
<1>7. \A i \in PositionRows(rows) :
          i - 1 \in 1 .. k /\ i \in Int /\ rows[i].seq = m + (i - 1)
  <2> SUFFICES ASSUME NEW i \in PositionRows(rows)
               PROVE  i - 1 \in 1 .. k /\ i \in Int /\ rows[i].seq = m + (i - 1)
    OBVIOUS
  <2>1. i \in 1 .. Len(rows) /\ rows[i].table = "POSITION"
    BY <1>4 DEF PositionRows
  <2>2. i - 1 \in 1 .. k /\ (i - 1) + 1 = i
    BY <1>3, <1>4, <2>1
  <2>3. rows[(i - 1) + 1] = t.marks[i - 1]
    BY <1>3, <2>2
  <2> QED
    BY <1>6, <2>1, <2>2, <2>3
<1>8. \A i \in 1 .. k : i + 1 \in PositionRows(rows) /\ rows[i + 1].seq = m + i
  BY <1>3, <1>4, <1>6 DEF PositionRows
<1>9. MarksBars(rows, m + 1, m + k)
  <2>1. \A i \in PositionRows(rows) : rows[i].seq \in m + 1 .. m + k
    BY <1>3, <1>6, <1>7
  <2>2. ASSUME NEW q \in m + 1 .. m + k
        PROVE  \E i \in PositionRows(rows) : rows[i].seq = q
    <3>1. q - m \in 1 .. k /\ m + (q - m) = q
      BY <1>3, <1>6
    <3> QED
      BY <1>8, <3>1
  <2>3. \A i, j \in PositionRows(rows) : i < j => rows[i].seq < rows[j].seq
    BY <1>3, <1>6, <1>7
  <2> QED
    BY <2>1, <2>2, <2>3 DEF MarksBars
<1>10. MarksBars(executed \o rows, 1, m + k)
  BY <1>3, <1>5, <1>6, <1>9, MarksJoin
<1>11. ExecutedBut(executed \o rows, left)
  BY <1>3, <1>4, <1>5, <1>6, ExecutionJoin
<1>12. m + k = n /\ n - 0 = n /\ 0 <= n
  BY <1>3, <1>6 DEF m
<1>13. Accounted(n, <<>>, executed \o rows, left)
  <2>1. Len(<<>>) = 0 /\ DOMAIN <<>> = {}
    OBVIOUS
  <2> QED
    BY <1>10, <1>11, <1>12, <2>1 DEF Accounted
<1> QED
  BY <1>2, <1>13

\* What a running engine has to account for.
LEMMA AccountsAreTyped ==
    ASSUME Solvent, Audited
    PROVE  /\ Passed \in Int /\ bars \in Int /\ Len(Buffer) \in Nat
           /\ evidence \in Seq(EvidenceType) /\ decisions + 1 \in Nat
           /\ candle.openTime \in Nat /\ candle.closeTime \in Nat
           /\ pending \in Seq(OrderType)
           /\ position # None =>
                  /\ trade \in TradeType /\ OwnRows(trade) /\ Buffer = trade.marks
<1>1. bars \in Int
  BY EngineAssumption DEF Audited, OnTape
<1>2. Passed \in Int
  BY <1>1 DEF Passed
<1>3. evidence \in Seq(EvidenceType)
  BY DEF Audited, SoundLog
<1>4. /\ decisions + 1 \in Nat /\ candle.openTime \in Nat
      /\ candle.closeTime \in Nat /\ pending \in Seq(OrderType)
  BY DEF Solvent, Typed, CandleType
<1>5. position # None =>
          trade \in TradeType /\ OwnRows(trade) /\ Buffer = trade.marks
  BY HeldIsSound DEF Buffer
<1>6. Len(Buffer) \in Nat
  <2>1. CASE position = None
    BY <2>1 DEF Buffer
  <2>2. CASE position # None
    <3>1. trade.marks \in Seq([table : {"POSITION"}, seq : Nat, trade : Nat])
      BY <1>5, <2>2 DEF TradeType
    <3> QED
      BY <1>5, <2>2, <3>1, LenProperties
  <2> QED
    BY <2>1, <2>2
<1> QED
  BY <1>1, <1>2, <1>3, <1>4, <1>5, <1>6

\* A decision recorded with the exit that carries it out.
LEMMA ExitNowComplete ==
    ASSUME Solvent, Audited, Complete, phase \notin Broken, position # None,
           NEW p, NEW t \in TradeType, OwnRows(t), t.marks = trade.marks,
           NEW reference, NEW gap, NEW at \in Nat, NEW decided \in Nat,
           NEW reason \in ExitReason,
           NEW then, then # "finished",
           Exit(p, t, reference, gap, at, decisions + 1, reason,
                Append(evidence, DecisionRow(decisions + 1, decided)), then),
           Passed' = Passed \/ phase' # then, pending' = pending
    PROVE  Complete'
<1> DEFINE id == decisions + 1
           log == Append(evidence, DecisionRow(id, decided))
<1>1. /\ Passed \in Int /\ Len(Buffer) \in Nat /\ Buffer = trade.marks
      /\ evidence \in Seq(EvidenceType) /\ id \in Nat
  BY AccountsAreTyped
<1>2. Accounted(Passed, Buffer, evidence, Owed)
  BY DEF Complete
<1>3. Exit(p, t, reference, gap, at, id, reason, log, then)
  OBVIOUS
<1>4. /\ Accounted(Passed, Buffer, log, Owed \cup {id})
      /\ log \in Seq(EvidenceType)
  BY <1>1, <1>2, AccountDecision
<1> HIDE DEF id, log
<1>5. /\ Accounted(Passed, t.marks, log, Owed \cup {id})
      /\ id \in Nat \cup {None}
      /\ \A i \in Owed \cup {id} : i \in Owed \/ i = id
  BY <1>1, <1>4
<1>6. \/ phase' \in Broken
      \/ /\ phase' = then /\ position' = None
         /\ Accounted(Passed, <<>>, evidence', Owed)
  BY <1>1, <1>3, <1>4, <1>5, ExitAccounts
<1>7. Owed' = Owed
  BY DEF Owed
<1>8. position' = None => Buffer' = <<>>
  BY DEF Buffer
<1> QED
  BY <1>6, <1>7, <1>8 DEF Complete

LEMMA CompleteStands ==
    ASSUME Complete, phase \notin Broken, phase' # "finished", Passed' = Passed,
           UNCHANGED <<position, trade, pending, evidence>>
    PROVE  Complete'
<1>1. Accounted(Passed, Buffer, evidence, Owed)
  BY DEF Complete
<1>2. Passed' = Passed /\ Buffer' = Buffer /\ Owed' = Owed /\ evidence' = evidence
  BY DEF Buffer, Owed
<1> QED
  BY <1>1, <1>2 DEF Complete

\* A settlement leaves the marks of its trade, or releases them.
LEMMA SettleComplete ==
    ASSUME Solvent, Audited, Complete, phase \in {"open", "funding"},
           NEW boundary \in Nat, NEW then \in {"orders", "funding"},
           SettleIfDue(boundary, then), UNCHANGED <<bars, pending>>
    PROVE  Complete'
<1>1. phase \notin Broken /\ then # "finished" /\ (phase' = then => Passed' = Passed)
  BY DEF Broken, Passed
<1>2. CASE ~Due(boundary)
  <2>1. phase' = then /\ UNCHANGED <<position, trade, pending, evidence>>
    BY <1>2 DEF SettleIfDue, books
  <2> QED
    BY <1>1, <2>1, CompleteStands
<1>3. CASE Due(boundary)
  <2>1. position # None /\ Settle(boundary, then)
    BY <1>3 DEF SettleIfDue, Due
  <2>2. PICK rate \in Rates, price \in FundingPrices(boundary) :
            \/ /\ decisions' = decisions + 1
               /\ Exit(Charged(price, rate), Billed(boundary, price, rate),
                       price, FALSE, boundary + 1, decisions + 1,
                       "LIQUIDATION",
                       Append(evidence, DecisionRow(decisions + 1, boundary)),
                       then)
            \/ /\ position' = Charged(price, rate)
               /\ trade' = Billed(boundary, price, rate)
               /\ phase' = then
               /\ UNCHANGED <<cash, realized, decisions, evidence>>
    BY <2>1, SettleOutcomes
  <2> DEFINE p == Charged(price, rate)
             t == Billed(boundary, price, rate)
  <2>3. t \in TradeType /\ OwnRows(t) /\ t.marks = trade.marks
    BY <2>1, BilledIsSound
  <2>4. p # None
    <3>1. Held(p, t)
      BY <2>1, SettlementHolds
    <3> QED
      BY <3>1, EngineAssumption DEF Held
  <2> HIDE DEF p, t
  <2>5. CASE Exit(p, t, price, FALSE, boundary + 1, decisions + 1,
                  "LIQUIDATION",
                  Append(evidence, DecisionRow(decisions + 1, boundary)), then)
    <3>1. boundary + 1 \in Nat /\ "LIQUIDATION" \in ExitReason
      BY DEF ExitReason
    <3> QED
      BY <1>1, <2>1, <2>3, <2>5, <3>1, ExitNowComplete
  <2>6. CASE /\ position' = p /\ trade' = t /\ phase' = then
             /\ evidence' = evidence
    <3>1. Buffer' = Buffer /\ Owed' = Owed /\ Passed' = Passed
      BY <1>1, <2>1, <2>3, <2>4, <2>6 DEF Buffer, Owed
    <3>2. Accounted(Passed, Buffer, evidence, Owed)
      BY <1>1 DEF Complete
    <3> QED
      BY <1>1, <2>6, <3>1, <3>2 DEF Complete
  <2> QED
    BY <2>2, <2>5, <2>6 DEF p, t
<1> QED
  BY <1>2, <1>3

\* The order that fills was owed its execution.
LEMMA FillOrderComplete ==
    ASSUME Solvent, Audited, Complete, FillOrder
    PROVE  Complete'
<1> DEFINE o == Head(pending)
           at == FillTime(o)
<1>1. /\ phase = "orders" /\ phase \notin Broken /\ pending # <<>>
      /\ pending' = Tail(pending) /\ bars' = bars
  BY DEF FillOrder, Broken, tape
<1>2. /\ Passed \in Int /\ Len(Buffer) \in Nat /\ evidence \in Seq(EvidenceType)
      /\ candle.openTime \in Nat /\ pending \in Seq(OrderType)
  BY AccountsAreTyped
<1>3. /\ o \in OrderType /\ \A id \in Owed : id \in Owed' \/ id = o.decision
  <2>1. /\ o \in OrderType /\ o = pending[1]
        /\ DOMAIN pending = 1 .. Len(pending) /\ Len(pending) \in Nat
        /\ DOMAIN Tail(pending) = 1 .. Len(pending) - 1
        /\ \A i \in 1 .. Len(pending) - 1 : Tail(pending)[i] = pending[i + 1]
    BY <1>1, <1>2
  <2> HIDE DEF o
  <2>2. ASSUME NEW i \in DOMAIN pending
        PROVE  pending[i].decision \in Owed' \/ pending[i].decision = o.decision
    <3>1. CASE i = 1
      BY <2>1, <3>1
    <3>2. CASE i # 1
      <4>1. /\ i - 1 \in DOMAIN Tail(pending) /\ i - 1 \in 1 .. Len(pending) - 1
            /\ (i - 1) + 1 = i
        BY <2>1, <3>2
      <4>2. Tail(pending)[i - 1] = pending[i]
        BY <2>1, <4>1
      <4> QED
        BY <1>1, <4>1, <4>2 DEF Owed
    <3> QED
      BY <3>1, <3>2
  <2> QED
    BY <2>1, <2>2 DEF Owed
<1>4. /\ o.decision \in Nat /\ o.decided \in Nat
      /\ o.reason # None => o.reason \in ExitReason
  <2> HIDE DEF o
  <2> QED
    BY <1>3 DEF OrderType, ExitReason
<1>5. at \in Nat
  BY <1>2, <1>4 DEF FillTime
<1>6. Accounted(Passed, Buffer, evidence, Owed)
  BY <1>1 DEF Complete
<1>7. \/ phase' \in Broken
      \/ /\ position # None /\ o.reason # None
         /\ Exit(position, trade, candle.open, FALSE, at, o.decision, o.reason,
                 evidence, "orders")
      \/ /\ position = None
         /\ \E q \in Fitting(o) : OpenTrade(o, q, at)
  BY DEF FillOrder, FillExit, FillEntry, Fails, Broken
<1> HIDE DEF o, at
<1>8. phase' = "orders" => Passed' = Passed
  BY <1>1 DEF Passed
<1>9. CASE phase' \in Broken
  BY <1>9 DEF Complete
<1>10. CASE /\ position # None /\ o.reason # None
            /\ Exit(position, trade, candle.open, FALSE, at, o.decision, o.reason,
                    evidence, "orders")
  <2>1. trade \in TradeType /\ OwnRows(trade) /\ Buffer = trade.marks
    BY <1>10, AccountsAreTyped
  <2>2. /\ Accounted(Passed, trade.marks, evidence, Owed)
        /\ o.reason \in ExitReason /\ o.decision \in Nat \cup {None}
    BY <1>4, <1>6, <1>10, <2>1
  <2>3. \/ phase' \in Broken
        \/ /\ phase' = "orders" /\ position' = None
           /\ Accounted(Passed, <<>>, evidence', Owed')
    BY <1>2, <1>3, <1>5, <1>10, <2>1, <2>2, ExitAccounts
  <2>4. position' = None => Buffer' = <<>>
    BY DEF Buffer
  <2> QED
    BY <1>8, <1>9, <2>3, <2>4 DEF Complete
<1>11. CASE /\ position = None
            /\ \E q \in Fitting(o) : OpenTrade(o, q, at)
  <2> DEFINE row == ExecutionRow(o.decision, None, at)
  <2>1. /\ phase' = "orders" /\ evidence' = Append(evidence, row)
        /\ trade'.marks = <<>>
    BY <1>11 DEF OpenTrade
  <2>2. row \in EvidenceType /\ row.table = "EXECUTION" /\ row.decision = o.decision
    BY <1>4, <1>5 DEF ExecutionRow, EvidenceType
  <2> HIDE DEF row
  <2>3. Buffer = <<>> /\ Buffer' = <<>>
    BY <1>11, <2>1 DEF Buffer
  <2>4. /\ row.table # "POSITION" /\ row.table = "DECISION" => row.id \in Owed'
        /\ \A id \in Owed :
               id \in Owed' \/ (row.table = "EXECUTION" /\ row.decision = id)
    BY <1>3, <2>2
  <2>5. Accounted(Passed, Buffer, Append(evidence, row), Owed')
    BY <1>2, <1>6, <2>2, <2>4, AccountRow
  <2> QED
    BY <1>8, <2>1, <2>3, <2>5 DEF Complete
<1> QED
  BY <1>7, <1>9, <1>10, <1>11

LEMMA WalkTriggersComplete ==
    ASSUME Solvent, Audited, Complete, WalkTriggers
    PROVE  Complete'
<1>1. phase = "triggers" /\ phase \notin Broken /\ UNCHANGED <<bars, pending>>
  BY DEF WalkTriggers, Broken, tape
<1>2. phase' = "mark" => Passed' = Passed
  BY <1>1 DEF Passed
<1>3. CASE ~Triggered
  <2>1. phase' = "mark" /\ UNCHANGED <<position, trade, pending, evidence>>
    BY <1>1, <1>3 DEF WalkTriggers, books
  <2> QED
    BY <1>1, <1>2, <2>1, CompleteStands
<1>4. CASE Triggered
  <2> DEFINE reason == TriggerReason(position)
             reference == TriggerReference(position, reason)
             gap == GapFilled(position, reason)
  <2>1. position # None /\ reason \in ExitReason
    BY <1>4 DEF Triggered, TriggerReason, ExitReason
  <2>2. Exit(position, trade, reference, gap, candle.closeTime, decisions + 1,
             reason, Append(evidence, DecisionRow(decisions + 1, candle.openTime)),
             "mark")
    BY <1>4 DEF WalkTriggers
  <2>3. /\ trade \in TradeType /\ OwnRows(trade) /\ candle.openTime \in Nat
        /\ candle.closeTime \in Nat
    BY <2>1, AccountsAreTyped
  <2> HIDE DEF reason, reference, gap
  <2> QED
    BY <1>1, <1>2, <2>1, <2>2, <2>3, ExitNowComplete
<1> QED
  BY <1>3, <1>4

\* The row of a bar without a position is recorded at once.
LEMMA AccountMark ==
    ASSUME NEW n \in Nat, NEW log \in Seq(EvidenceType), NEW owed,
           Accounted(n, <<>>, log, owed)
    PROVE  Accounted(n + 1, <<>>, Append(log, PositionRow(n + 1, None)), owed)
<1> DEFINE row == PositionRow(n + 1, None)
           rows == <<row>>
<1>1. row \in EvidenceType /\ row.table = "POSITION" /\ row.seq = n + 1
  BY DEF PositionRow, EvidenceType
<1> HIDE DEF row
<1>2. /\ rows \in Seq(EvidenceType) /\ DOMAIN rows = {1} /\ rows[1] = row
      /\ Append(log, row) = log \o rows
  BY <1>1
<1> HIDE DEF rows
<1>3. MarksBars(log, 1, n) /\ ExecutedBut(log, owed)
  <2>1. n - Len(<<>>) = n
    OBVIOUS
  <2> QED
    BY <2>1 DEF Accounted
<1>4. MarksBars(rows, n + 1, n + 1)
  <2>1. PositionRows(rows) = {1} /\ n + 1 .. n + 1 = {n + 1}
    BY <1>1, <1>2 DEF PositionRows
  <2>2. {rows[i].seq : i \in PositionRows(rows)} = {n + 1}
    BY <1>1, <1>2, <2>1
  <2>3. \A i, j \in PositionRows(rows) : ~(i < j)
    BY <2>1
  <2> QED
    BY <2>1, <2>2, <2>3 DEF MarksBars
<1>5. MarksBars(log \o rows, 1, n + 1)
  BY <1>2, <1>3, <1>4, MarksJoin
<1>6. ExecutedBut(log \o rows, owed)
  <2>1. /\ \A id \in owed : id \in owed \/ Executed(rows, id)
        /\ \A i \in DOMAIN rows : rows[i].table = "DECISION" => rows[i].id \in owed
    BY <1>1, <1>2
  <2> QED
    BY <1>2, <1>3, <2>1, ExecutionJoin
<1>7. /\ n + 1 - Len(<<>>) = n + 1 /\ Len(<<>>) <= n + 1
      /\ \A i \in DOMAIN <<>> : FALSE
  OBVIOUS
<1>8. Accounted(n + 1, <<>>, log \o rows, owed)
  <2> DEFINE longer == log \o rows
  <2> HIDE DEF longer
  <2>1. MarksBars(longer, 1, n + 1) /\ ExecutedBut(longer, owed)
    BY <1>5, <1>6 DEF longer
  <2>2. Accounted(n + 1, <<>>, longer, owed)
    BY <1>7, <2>1 DEF Accounted
  <2> QED
    BY <2>2 DEF longer
<1> QED
  BY <1>2, <1>8 DEF row

LEMMA MarkGridComplete ==
    ASSUME Solvent, Audited, Complete, MarkGrid
    PROVE  Complete'
<1>1. /\ phase = "mark" /\ phase' = "analyze" /\ phase \notin Broken
      /\ UNCHANGED <<bars, position, pending>>
  BY DEF MarkGrid, Broken, tape
<1>2. /\ evidence \in Seq(EvidenceType) /\ bars \in Int /\ Len(Buffer) \in Nat
      /\ position # None => trade \in TradeType /\ Buffer = trade.marks
  BY AccountsAreTyped
<1>3. Passed = bars - 1 /\ Passed' = bars /\ Owed' = Owed
  BY <1>1 DEF Passed, Owed
<1>4. Accounted(bars - 1, Buffer, evidence, Owed)
  BY <1>1, <1>3 DEF Complete
<1>5. bars - 1 \in Nat
  BY <1>2, <1>4 DEF Accounted
<1>6. CASE position = None
  <2>1. evidence' = Append(evidence, PositionRow(bars, None))
    BY <1>6 DEF MarkGrid
  <2>2. Buffer = <<>> /\ Buffer' = <<>> /\ (bars - 1) + 1 = bars
    BY <1>1, <1>2, <1>6 DEF Buffer
  <2>3. Accounted((bars - 1) + 1, <<>>,
                  Append(evidence, PositionRow((bars - 1) + 1, None)), Owed)
    BY <1>2, <1>4, <1>5, <2>2, AccountMark
  <2>4. Accounted(bars, <<>>, evidence', Owed)
    BY <2>1, <2>2, <2>3
  <2> QED
    BY <1>1, <1>3, <2>2, <2>4 DEF Complete
<1>7. CASE position # None
  <2> DEFINE row == PositionRow(bars, trade.id)
             k == Len(Buffer)
  <2>1. /\ evidence' = evidence
        /\ trade' = [trade EXCEPT !.marks = Append(@, row)]
    BY <1>7 DEF MarkGrid
  <2>2. Buffer \in Seq([table : {"POSITION"}, seq : Nat, trade : Nat])
    BY <1>2, <1>7 DEF TradeType
  <2>3. Buffer' = Append(Buffer, row)
    BY <1>1, <1>2, <1>7, <2>1 DEF Buffer, TradeType
  <2>4. row.seq = bars
    BY DEF PositionRow
  <2> HIDE DEF row
  <2>5. /\ DOMAIN Buffer = 1 .. k /\ k \in Nat
        /\ DOMAIN Append(Buffer, row) = 1 .. k + 1
        /\ Len(Append(Buffer, row)) = k + 1
        /\ \A i \in 1 .. k : Append(Buffer, row)[i] = Buffer[i]
        /\ Append(Buffer, row)[k + 1] = row
    BY <2>2
  <2>6. /\ k <= bars - 1 /\ MarksBars(evidence, 1, bars - 1 - k)
        /\ \A i \in 1 .. k : Buffer[i].seq = bars - 1 - k + i
        /\ ExecutedBut(evidence, Owed)
    BY <1>4, <2>5 DEF Accounted
  <2> HIDE DEF k
  <2>7. bars - (k + 1) = bars - 1 - k /\ k + 1 <= bars
    BY <1>2, <2>5, <2>6
  <2>8. ASSUME NEW i \in 1 .. k + 1
        PROVE  Append(Buffer, row)[i].seq = bars - 1 - k + i
    <3>1. CASE i = k + 1
      BY <1>2, <2>4, <2>5, <3>1
    <3>2. CASE i # k + 1
      <4>1. i \in 1 .. k
        BY <2>5, <3>2
      <4> QED
        BY <2>5, <2>6, <4>1
    <3> QED
      BY <3>1, <3>2
  <2>9. Accounted(bars, Append(Buffer, row), evidence, Owed)
    BY <2>5, <2>6, <2>7, <2>8 DEF Accounted
  <2> QED
    BY <1>1, <1>3, <2>1, <2>3, <2>9 DEF Complete
<1> QED
  BY <1>6, <1>7

\* A decision to act is queued with at least one order that carries it out.
LEMMA ActComplete ==
    ASSUME Solvent, Audited, Complete, phase = "analyze",
           NEW orders \in Seq(OrderType),
           \/ Skip
           \/ /\ Act(orders) /\ 1 \in DOMAIN orders
              /\ orders[1].decision = decisions + 1
    PROVE  Complete'
<1>1. phase \notin Broken /\ pending = <<>>
  BY DEF Broken, Audited, Queue, Running, Ended
<1>2. /\ Passed \in Int /\ Len(Buffer) \in Nat /\ evidence \in Seq(EvidenceType)
      /\ decisions + 1 \in Nat /\ candle.closeTime \in Nat
  BY AccountsAreTyped
<1>3. Accounted(Passed, Buffer, evidence, Owed) /\ Owed = {}
  BY <1>1 DEF Complete, Owed
<1> DEFINE log == Append(evidence, DecisionRow(decisions + 1, candle.closeTime))
           skipped == Append(evidence, SkipRow(decisions + 1, candle.closeTime))
<1>4. /\ Accounted(Passed, Buffer, log, {decisions + 1})
      /\ Accounted(Passed, Buffer, skipped, {})
  <2>1. /\ Accounted(Passed, Buffer, log, Owed \cup {decisions + 1})
        /\ Accounted(Passed, Buffer, skipped, Owed)
    BY <1>2, <1>3, AccountDecision
  <2>2. Owed \cup {decisions + 1} = {decisions + 1}
    BY <1>3
  <2> HIDE DEF log, skipped
  <2> QED
    BY <1>3, <2>1, <2>2
<1>5. <<>> \o orders = orders /\ <<>> \o <<>> = <<>>
  BY ConcatEmptySeq
<1>6. /\ phase' \in {"gap", "turn"} /\ UNCHANGED <<bars, position, trade>>
      /\ \/ evidence' = log /\ pending' = orders /\ 1 \in DOMAIN orders
            /\ orders[1].decision = decisions + 1
         \/ evidence' = skipped /\ pending' = <<>>
  BY <1>1, <1>5 DEF Skip, Act, Decide, Analyzed, tape, books
<1> HIDE DEF log, skipped
<1>7. Passed' = Passed /\ Buffer' = Buffer
  BY <1>6 DEF Passed, Buffer
<1>8. Accounted(Passed, Buffer, evidence', Owed')
  <2>1. CASE evidence' = log /\ pending' = orders /\ 1 \in DOMAIN orders
             /\ orders[1].decision = decisions + 1
    <3>1. {decisions + 1} \subseteq Owed'
      BY <2>1 DEF Owed
    <3> QED
      BY <1>4, <2>1, <3>1 DEF Accounted, ExecutedBut
  <2>2. CASE evidence' = skipped /\ pending' = <<>>
    <3>1. Owed' = {}
      BY <2>2 DEF Owed
    <3> QED
      BY <1>4, <2>2, <3>1
  <2> QED
    BY <1>6, <2>1, <2>2
<1> QED
  BY <1>6, <1>7, <1>8 DEF Complete

LEMMA DecisionsComplete ==
    ASSUME Solvent, Audited, Complete, NEW s \in Protections,
           \/ ExitSignal(s) \/ AmbiguousSignal(s)
           \/ \E qty \in 1 .. MaxQty, within \in BOOLEAN :
                  EntrySignal(s, qty, within)
    PROVE  Complete'
<1>1. ASSUME Skip, phase = "analyze" PROVE Complete'
  <2>1. <<>> \in Seq(OrderType)
    OBVIOUS
  <2> QED
    BY <1>1, <2>1, ActComplete
<1>2. ASSUME position # None, NEW reason \in {"SIGNAL_EXIT", "REVERSAL"}
      PROVE  /\ ExitOrder(reason, s) \in OrderType
             /\ ExitOrder(reason, s).decision = decisions + 1
  <2>1. position.side \in Sides /\ position.qty \in Nat
    BY <1>2 DEF Solvent, Typed, PositionType
  <2>2. reason \in {None, "SIGNAL_EXIT", "REVERSAL"}
    OBVIOUS
  <2> QED
    BY <2>1, <2>2, OrderTyped, OrderFields DEF Solvent, ExitOrder
<1>3. CASE ExitSignal(s)
  <2> DEFINE o == ExitOrder("SIGNAL_EXIT", s)
  <2>1. /\ phase = "analyze"
        /\ Skip \/ (position # None /\ Act(<<o>>))
    BY <1>3 DEF ExitSignal
  <2>2. CASE position # None /\ Act(<<o>>)
    <3>1. o \in OrderType /\ o.decision = decisions + 1
      BY <1>2, <2>2
    <3> HIDE DEF o
    <3>2. /\ <<o>> \in Seq(OrderType) /\ 1 \in DOMAIN <<o>>
          /\ <<o>>[1].decision = decisions + 1
      BY <3>1
    <3> QED
      BY <2>1, <2>2, <3>2, ActComplete
  <2> QED
    BY <1>1, <2>1, <2>2
<1>4. CASE AmbiguousSignal(s)
  <2>1. phase' = "failed"
    BY <1>4 DEF AmbiguousSignal, Fails
  <2> QED
    BY <2>1 DEF Complete, Broken
<1>5. ASSUME NEW qty \in 1 .. MaxQty, NEW within \in BOOLEAN,
             EntrySignal(s, qty, within)
      PROVE  Complete'
  <2> DEFINE entry == Order(None, DerivedSide(s), qty, s)
             exit == ExitOrder("REVERSAL", s)
  <2>1. /\ phase = "analyze"
        /\ \/ Skip
           \/ Act(<<entry>>)
           \/ position # None /\ Act(<<exit, entry>>)
    BY <1>5 DEF EntrySignal
  <2>2. entry \in OrderType /\ entry.decision = decisions + 1
    <3>1. DerivedSide(s) \in Sides /\ qty \in Nat
      BY DEF DerivedSide, Sides
    <3> QED
      BY <3>1, OrderTyped, OrderFields DEF Solvent
  <2>3. position # None => exit \in OrderType /\ exit.decision = decisions + 1
    BY <1>2
  <2> HIDE DEF entry, exit
  <2>4. CASE Act(<<entry>>)
    <3>1. /\ <<entry>> \in Seq(OrderType) /\ 1 \in DOMAIN <<entry>>
          /\ <<entry>>[1].decision = decisions + 1
      BY <2>2
    <3> QED
      BY <2>1, <2>4, <3>1, ActComplete
  <2>5. CASE position # None /\ Act(<<exit, entry>>)
    <3>1. /\ <<exit, entry>> \in Seq(OrderType) /\ 1 \in DOMAIN <<exit, entry>>
          /\ <<exit, entry>>[1].decision = decisions + 1
      BY <2>2, <2>3, <2>5
    <3> QED
      BY <2>1, <2>5, <3>1, ActComplete
  <2> QED
    BY <1>1, <2>1, <2>4, <2>5
<1> QED
  BY <1>3, <1>4, <1>5

LEMMA CloseAtDataGapComplete ==
    ASSUME Solvent, Audited, Complete, CloseAtDataGap
    PROVE  Complete'
<1>1. phase = "gap" /\ phase \notin Broken /\ UNCHANGED <<bars, pending>>
  BY DEF CloseAtDataGap, Broken, tape
<1>2. phase' = "turn" => Passed' = Passed
  BY <1>1 DEF Passed
<1>3. CASE phase' \in Broken
  BY <1>3 DEF Complete
<1>4. CASE phase' \notin Broken /\ position = None
  <2>1. phase' = "turn" /\ UNCHANGED <<position, trade, pending, evidence>>
    BY <1>1, <1>4 DEF CloseAtDataGap, Fails, Broken, books
  <2> QED
    BY <1>1, <1>2, <2>1, CompleteStands
<1>5. CASE phase' \notin Broken /\ position # None
  <2>1. Exit(position, trade, candle.close, FALSE, candle.closeTime + 1,
             decisions + 1, "DATA_GAP",
             Append(evidence, DecisionRow(decisions + 1, candle.closeTime)),
             "turn")
    BY <1>5 DEF CloseAtDataGap, Fails, Broken, GapExitTime
  <2>2. /\ trade \in TradeType /\ OwnRows(trade)
        /\ candle.closeTime \in Nat /\ candle.closeTime + 1 \in Nat
        /\ "DATA_GAP" \in ExitReason
    BY <1>5, AccountsAreTyped DEF ExitReason
  <2> QED
    BY <1>1, <1>2, <1>5, <2>1, <2>2, ExitNowComplete
<1> QED
  BY <1>3, <1>4, <1>5

\* The loop ends flat, with nothing queued.
LEMMA FinalizeComplete ==
    ASSUME Solvent, Audited, Complete, Finalize
    PROVE  Complete'
<1>1. /\ phase = "turn" /\ phase \notin Broken /\ UNCHANGED <<bars, pending>>
      /\ next = None
  BY DEF Finalize, Broken, tape
<1>2. pending = <<>>
  BY <1>1 DEF Audited, Queue, Running, Ended, Follows
<1>3. /\ phase' = "finished" => Passed' = Passed
      /\ Owed = {} /\ Owed' = {} /\ pending' = <<>>
  BY <1>1, <1>2 DEF Passed, Owed
<1>4. Accounted(Passed, Buffer, evidence, Owed) /\ Passed \in Int
  BY <1>1, AccountsAreTyped DEF Complete
<1>5. CASE position = None
  <2>1. /\ phase' = "finished" /\ position' = None
        /\ UNCHANGED <<position, trade, pending, evidence>>
    BY <1>1, <1>5 DEF Finalize, books
  <2>2. Buffer' = Buffer
    BY <2>1 DEF Buffer
  <2> QED
    BY <1>3, <1>4, <2>1, <2>2 DEF Complete
<1>6. CASE position # None
  <2>1. Exit(position, trade, candle.close, FALSE, candle.closeTime + 1,
             None, "END_OF_DATA", evidence, "finished")
    BY <1>6 DEF Finalize
  <2>2. /\ trade \in TradeType /\ OwnRows(trade) /\ Buffer = trade.marks
        /\ candle.closeTime + 1 \in Nat /\ evidence \in Seq(EvidenceType)
        /\ "END_OF_DATA" \in ExitReason
    BY <1>6, AccountsAreTyped DEF ExitReason
  <2>3. /\ None \in Nat \cup {None} /\ \A id \in Owed : id \in {} \/ id = None
        /\ Accounted(Passed, trade.marks, evidence, Owed)
    BY <1>3, <1>4, <2>2
  <2>4. \/ phase' \in Broken
        \/ /\ phase' = "finished" /\ position' = None
           /\ Accounted(Passed, <<>>, evidence', {})
    BY <1>4, <2>1, <2>2, <2>3, ExitAccounts
  <2>5. position' = None => Buffer' = <<>>
    BY DEF Buffer
  <2> QED
    BY <1>3, <2>4, <2>5 DEF Complete
<1> QED
  BY <1>5, <1>6

LEMMA InitComplete == Init => Complete
<1> SUFFICES ASSUME Init PROVE Complete
  OBVIOUS
<1>1. /\ phase = "open" /\ bars = 1 /\ position = None /\ pending = <<>>
      /\ evidence = <<>>
  BY DEF Init
<1>2. Passed = 0 /\ Buffer = <<>> /\ Owed = {}
  BY <1>1 DEF Passed, Buffer, Owed
<1>3. /\ PositionRows(evidence) = {} /\ 1 .. 0 = {}
      /\ \A i \in DOMAIN evidence : FALSE
  BY <1>1 DEF PositionRows
<1>4. MarksBars(evidence, 1, 0) /\ ExecutedBut(evidence, Owed)
  BY <1>3 DEF MarksBars, ExecutedBut
<1>5. Len(<<>>) = 0 /\ DOMAIN <<>> = {}
  OBVIOUS
<1>6. Accounted(0, <<>>, evidence, Owed)
  BY <1>4, <1>5 DEF Accounted
<1> QED
  BY <1>1, <1>2, <1>6 DEF Complete

\* Every step accounts for the bars and the decisions before it.
LEMMA StepsComplete ==
    Solvent /\ Audited /\ Complete /\ [Next]_vars => Complete'
<1> SUFFICES ASSUME Solvent, Audited, Complete, [Next]_vars PROVE Complete'
  OBVIOUS
<1>1. CASE SettleAtOpen
  <2>1. /\ phase = "open" /\ UNCHANGED <<bars, pending>>
        /\ SettleIfDue(candle.openTime, "orders")
    BY <1>1 DEF SettleAtOpen, tape
  <2>2. candle.openTime \in Nat
    BY AccountsAreTyped
  <2> QED
    BY <2>1, <2>2, SettleComplete
<1>2. CASE FillOrder
  BY <1>2, FillOrderComplete
<1>3. CASE OrdersFilled \/ FundingSettled
  <2>1. /\ phase \in {"orders", "funding"} /\ phase \notin Broken
        /\ phase' \in {"funding", "triggers"}
        /\ UNCHANGED <<bars, position, trade, pending, evidence>>
    BY <1>3 DEF OrdersFilled, FundingSettled, Broken, tape, books
  <2>2. Passed' = Passed /\ phase' # "finished"
    BY <2>1 DEF Passed
  <2> QED
    BY <2>1, <2>2, CompleteStands
<1>4. CASE SettleCrossed
  <2>1. /\ phase = "funding" /\ UNCHANGED <<bars, pending>>
        /\ SettleIfDue(NextBoundary(cursor), "funding")
    BY <1>4 DEF SettleCrossed, tape
  <2>2. NextBoundary(cursor) \in Nat
    <3>1. cursor \in Nat
      BY DEF Solvent, Typed
    <3>2. cursor \div FundingEvery \in Nat /\ FundingEvery \in Nat
      BY <3>1, EngineAssumption
    <3> QED
      BY <3>2 DEF NextBoundary
  <2> QED
    BY <2>1, <2>2, SettleComplete
<1>5. CASE WalkTriggers
  BY <1>5, WalkTriggersComplete
<1>6. CASE MarkGrid
  BY <1>6, MarkGridComplete
<1>7. CASE NoSignal
  <2>1. /\ phase = "analyze" /\ phase \notin Broken
        /\ phase' \in {"gap", "turn"}
        /\ UNCHANGED <<bars, position, trade, pending, evidence>>
    BY <1>7 DEF NoSignal, Analyzed, Broken, tape, books
  <2>2. Passed' = Passed /\ phase' # "finished"
    BY <2>1 DEF Passed
  <2> QED
    BY <2>1, <2>2, CompleteStands
<1>8. CASE \E s \in Protections :
              \/ ExitSignal(s) \/ AmbiguousSignal(s)
              \/ \E qty \in 1 .. MaxQty, within \in BOOLEAN :
                     EntrySignal(s, qty, within)
  BY <1>8, DecisionsComplete
<1>9. CASE CloseAtDataGap
  BY <1>9, CloseAtDataGapComplete
<1>10. CASE NextCandle
  <2>1. /\ phase = "turn" /\ phase \notin Broken /\ phase' = "open"
        /\ bars' = bars + 1
        /\ UNCHANGED <<position, trade, pending, evidence>>
    BY <1>10 DEF NextCandle, Broken, books
  <2>2. Passed' = Passed /\ phase' # "finished"
    <3>1. bars \in Int
      BY AccountsAreTyped
    <3> QED
      BY <2>1, <3>1 DEF Passed
  <2> QED
    BY <2>1, <2>2, CompleteStands
<1>11. CASE Finalize
  BY <1>11, FinalizeComplete
<1>12. CASE UNCHANGED vars
  <2>1. UNCHANGED <<phase, bars, position, trade, pending, evidence>>
    BY <1>12 DEF vars
  <2>2. Passed' = Passed /\ Buffer' = Buffer /\ Owed' = Owed
    BY <2>1 DEF Passed, Buffer, Owed
  <2> QED
    BY <2>1, <2>2 DEF Complete
<1> QED
  BY <1>1, <1>2, <1>3, <1>4, <1>5, <1>6, <1>7, <1>8, <1>9, <1>10, <1>11,
     <1>12 DEF Next

-----------------------------------------------------------------------------
(* Theorems *)

\* Every step keeps what the audit relies on.
LEMMA StepsAudited == Solvent /\ Solvent' /\ Audited /\ [Next]_vars => Audited'
<1> SUFFICES ASSUME Solvent, Solvent', Audited, [Next]_vars PROVE Audited'
  OBVIOUS
<1>1. CASE SettleAtOpen
  BY <1>1, SettleAtOpenAudited
<1>2. CASE FillOrder
  BY <1>2, FillOrderAudited
<1>3. CASE OrdersFilled
  BY <1>3, OrdersFilledAudited
<1>4. CASE SettleCrossed
  BY <1>4, SettleCrossedAudited
<1>5. CASE FundingSettled
  BY <1>5, FundingSettledAudited
<1>6. CASE WalkTriggers
  BY <1>6, WalkTriggersAudited
<1>7. CASE MarkGrid
  BY <1>7, MarkGridAudited
<1>8. CASE NoSignal
  BY <1>8, NoSignalAudited
<1>9. CASE \E s \in Protections :
              \/ ExitSignal(s) \/ AmbiguousSignal(s)
              \/ \E qty \in 1 .. MaxQty, within \in BOOLEAN :
                     EntrySignal(s, qty, within)
  BY <1>9, DecisionsAudited
<1>10. CASE CloseAtDataGap
  BY <1>10, CloseAtDataGapAudited
<1>11. CASE NextCandle
  BY <1>11, NextCandleAudited
<1>12. CASE Finalize
  BY <1>12, FinalizeAudited
<1>13. CASE UNCHANGED vars
  <2>1. /\ UNCHANGED <<phase, candle, next, bars, cursor, cash, position, trade>>
        /\ UNCHANGED <<pending, evidence>>
    BY <1>13 DEF vars
  <2>2. OnTape' /\ Books' /\ SoundLog(evidence)' /\ NoInconsistency'
        /\ SurvivorsStayInside' /\ phase' \in Phases
    BY <2>1 DEF Audited, OnTape, Proper, Books, Paired, NoInconsistency,
                SurvivorsStayInside
  <2>3. Running => LevelIsCurrent' /\ Queue' /\ Settlement'
    <3> SUFFICES ASSUME Running PROVE LevelIsCurrent' /\ Queue' /\ Settlement'
      OBVIOUS
    <3>1. LevelIsCurrent /\ Queue /\ Settlement
      BY DEF Audited
    <3>2. LevelIsCurrent' /\ Settlement'
      BY <2>1, <3>1 DEF LevelIsCurrent, Settlement, SettledThrough
    <3>3. Queue'
      BY <2>1, <3>1 DEF Queue, QueuedAt, Recorded, Follows, Gap
    <3> QED
      BY <3>2, <3>3
  <2> QED
    BY <2>1, <2>2, <2>3 DEF Audited, Running
<1> QED
  BY <1>1, <1>2, <1>3, <1>4, <1>5, <1>6, <1>7, <1>8, <1>9, <1>10, <1>11,
     <1>12, <1>13 DEF Next

LEMMA AlwaysAudited == Spec => [](Solvent /\ Audited)
BY InitSolvent, InitAudited, StepsSolvent, StepsAudited, PTL DEF Spec

\* The books keep their types, cash is never negative (_checked_cash) and a
\* position is held exactly while a trade is active.
THEOREM EngineIsTyped == Spec => []TypeOK
<1>1. Solvent /\ Audited => TypeOK
  <2> SUFFICES ASSUME Solvent, Audited PROVE TypeOK
    OBVIOUS
  <2>1. /\ candle \in CandleType /\ next \in CandleType \cup {None}
        /\ cursor \in Nat /\ decisions \in Nat /\ realized \in Int
    BY DEF Solvent, Typed, Accounts
  <2>2. phase \in Phases /\ bars \in 1 .. MaxBars /\ cash \in Nat
    BY DEF Audited, OnTape, Books
  <2>3. /\ position \in PositionType \cup {None} /\ trade \in TradeType \cup {None}
        /\ position = None <=> trade = None
    BY EngineAssumption DEF Audited, Books, Paired
  <2> QED
    BY <2>1, <2>2, <2>3 DEF TypeOK
<1> QED
  BY <1>1, AlwaysAudited, PTL

\* None of the guards of run() and step_open() against an inconsistent loop
\* fires: an exit queued at a close finds its position at the next open, an
\* entry finds a flat book, and no order is carried over a missing candle.
THEOREM LoopStaysConsistent == Spec => []NoInconsistency
<1>1. Audited => NoInconsistency
  BY DEF Audited
<1> QED
  BY <1>1, AlwaysAudited, PTL

\* A position that is held once the triggers of a candle were walked is inside
\* its stop, its target and the liquidation price that the funding of the same
\* candle left it (resolve_triggers).
THEOREM SurvivorsAreInside == Spec => []SurvivorsStayInside
<1>1. Audited => SurvivorsStayInside
  BY DEF Audited
<1> QED
  BY <1>1, AlwaysAudited, PTL

\* Every fill follows its decision by at most one timeframe, and only the exit
\* at the end of the data has none (the timestamp_order audit).
THEOREM FillsFollowDecisions == Spec => []TimingAuditClean
<1>1. Audited => TimingAuditClean
  BY DEF Audited, SoundLog, Timely, FollowsDecision, TimingAuditClean, Rows
<1> QED
  BY <1>1, AlwaysAudited, PTL

\* A row that names a trade is inserted after the row of that trade, although
\* the trade is recorded last: the foreign keys hold at every insert.
THEOREM TradesPrecedeTheirRows == Spec => []ReferencesResolve
<1>1. Audited => ReferencesResolve
  BY DEF Audited, SoundLog, Resolved, ReferencesResolve, Rows
<1> QED
  BY <1>1, AlwaysAudited, PTL

\* Nothing is held or queued when the loop turns to a candle that does not
\* follow (close_at_data_gap, and the planning of orders).
THEOREM FlatAcrossGaps == Spec => NoExposureAcrossGap
<1>1. Solvent /\ Audited /\ [Next]_vars =>
          [candle' # candle /\ candle'.openTime # candle.closeTime
              => position' = None /\ pending' = <<>>]_vars
  <2> SUFFICES ASSUME Audited, Next, candle' # candle,
                      candle'.openTime # candle.closeTime
               PROVE  position' = None /\ pending' = <<>>
    BY DEF vars
  <2>1. NextCandle
    BY DEF Next, SettleAtOpen, FillOrder, OrdersFilled, SettleCrossed,
           FundingSettled, WalkTriggers, MarkGrid, NoSignal, ExitSignal,
           AmbiguousSignal, EntrySignal, Skip, Act, Decide, CloseAtDataGap,
           Finalize, tape
  <2>2. /\ phase = "turn" /\ Running /\ next # None /\ candle' = next
        /\ position' = position /\ pending' = pending
    BY <2>1 DEF NextCandle, Running, Ended, books
  <2>3. Gap /\ ~Follows
    BY <2>2 DEF Gap, Follows
  <2> QED
    BY <2>2, <2>3 DEF Audited, Queue
<1> QED
  BY <1>1, AlwaysAudited, PTL DEF Spec, NoExposureAcrossGap

\* An exit by stop, target or liquidation costs no more than the margin and the
\* slippage, unless the candle opened beyond the liquidation price already.
THEOREM LossesStayInTheMargin == Spec => OnlyAJumpTakesMoreThanTheMargin
<1>1. Solvent /\ Audited /\ [Next]_vars =>
          [phase = "triggers" /\ position # None /\ position' = None =>
               \/ cash' + Fee + GapFactor * Slip * position.qty >= cash
               \/ StrictlyBeyond(position.side, candle.open,
                                 LiquidationLevel(position))]_vars
  <2> SUFFICES ASSUME Solvent, Audited, Next, phase = "triggers",
                      position # None, position' = None
               PROVE  \/ cash' + Fee + GapFactor * Slip * position.qty >= cash
                      \/ StrictlyBeyond(position.side, candle.open,
                                        LiquidationLevel(position))
    BY DEF vars
  <2>1. WalkTriggers
    BY DEF Next, SettleAtOpen, FillOrder, OrdersFilled, SettleCrossed,
           FundingSettled, MarkGrid, NoSignal, ExitSignal, AmbiguousSignal,
           EntrySignal, CloseAtDataGap, NextCandle, Finalize
  <2> QED
    BY <2>1, ForcedExitIsCovered
<1> QED
  BY <1>1, AlwaysAudited, PTL DEF Spec, OnlyAJumpTakesMoreThanTheMargin

\* The evidence of a finished run has one POSITION row for every bar, in order,
\* although those of held bars wait for their trade, and the execution of every
\* decision to act (the evidence_complete audit).
THEOREM AuditIsComplete == Spec => []EvidenceComplete
<1>1. Solvent /\ Audited /\ Complete => EvidenceComplete
  <2> SUFFICES ASSUME Solvent, Audited, Complete, phase = "finished"
               PROVE  /\ \A i \in Rows("DECISION") :
                             \E j \in Rows("EXECUTION") :
                                 evidence[j].decision = evidence[i].id
                      /\ {evidence[i].seq : i \in Rows("POSITION")} = 1 .. bars
                      /\ \A i, j \in Rows("POSITION") :
                             i < j => evidence[i].seq < evidence[j].seq
    BY DEF EvidenceComplete
  <2>1. /\ Accounted(Passed, Buffer, evidence, Owed)
        /\ Passed = bars /\ Buffer = <<>> /\ Owed = {}
    BY DEF Complete, Broken, Passed, Buffer, Owed
  <2>2. ExecutedBut(evidence, {}) /\ MarksBars(evidence, 1, bars - Len(<<>>))
    BY <2>1 DEF Accounted
  <2>3. bars - Len(<<>>) = bars
    BY AccountsAreTyped
  <2>4. MarksBars(evidence, 1, bars)
    BY <2>2, <2>3
  <2>5. \A i \in Rows("DECISION") :
            \E j \in Rows("EXECUTION") : evidence[j].decision = evidence[i].id
    BY <2>2 DEF ExecutedBut, Executed, Rows
  <2>6. Rows("POSITION") = PositionRows(evidence)
    BY DEF Rows, PositionRows
  <2> QED
    BY <2>4, <2>5, <2>6 DEF MarksBars
<1>2. Spec => [](Solvent /\ Audited /\ Complete)
  BY InitSolvent, InitAudited, InitComplete, StepsSolvent, StepsAudited,
     StepsComplete, PTL DEF Spec
<1> QED
  BY <1>1, <1>2, PTL
-----------------------------------------------------------------------------
(* The bills of funding *)

SettlementRows(log) == {j \in DOMAIN log : log[j].table = "FUNDING_SETTLEMENT"}
TradeRows(log) == {i \in DOMAIN log : log[i].table = "TRADE"}
RowsOf(log, id) == {j \in SettlementRows(log) : log[j].trade = id}
Payments(log) == [j \in SettlementRows(log) |-> -log[j].payment]

SettlementType ==
    [table : {"FUNDING_SETTLEMENT"}, trade : Nat, at : Nat, payment : Int,
     theoretical : Int]

Boundaries(from, to) == {b \in from + 1 .. to : b % FundingEvery = 0}

\* These rows charge each of these times once, and this much in all.
Bills(log, rows, times, amount) ==
    /\ {log[j].at : j \in rows} = times
    /\ \A j, k \in rows : log[j].at = log[k].at => j = k
    /\ SumOver(Payments(log), rows) = amount

Capped(row) == row.payment # row.theoretical

\* What takes the last of the margin ends the trade.
EndsIfCapped(row, at, reason) ==
    Capped(row) => /\ row.payment > row.theoretical
                   /\ reason = "LIQUIDATION" /\ at = row.at + 1

ClosedBill(log, t) ==
    /\ Bills(log, RowsOf(log, t.id), Boundaries(t.entered, t.exited), t.funding)
    /\ \A j \in RowsOf(log, t.id) : EndsIfCapped(log[j], t.exited, t.reason)

\* Every completed trade is billed, and the next id is not in use.
Billing(log) ==
    /\ \A i \in TradeRows(log) :
           ClosedBill(log, log[i]) /\ log[i].id <= Cardinality(TradeRows(log))
    /\ \A j \in SettlementRows(log) : log[j].trade <= Cardinality(TradeRows(log))

OpenBill(t, log) ==
    /\ t.id = Cardinality(TradeRows(log)) + 1
    /\ Bills(t.settlements, DOMAIN t.settlements, t.settled, t.funding)

UncappedSoFar(t) == \A k \in DOMAIN t.settlements : ~Capped(t.settlements[k])

ChargedWithin(t, time) == t.settled \subseteq Boundaries(t.entered, time)

\* The time up to which boundaries may have been charged.
Reached ==
    IF phase \in {"open", "orders"} THEN candle.openTime
    ELSE IF phase = "funding" THEN cursor ELSE candle.closeTime

\* Candles open and close at whole multiples of the timeframe.
Opens == {Span * k : k \in Nat}

OnGrid ==
    /\ candle.openTime \in Opens /\ candle.closeTime \in Opens
    /\ next # None => next.openTime \in Opens
    /\ phase = "funding" => cursor <= candle.closeTime

\* Of the open trade, each boundary reached is charged once, in full.
Paying(t, log, time) ==
    OpenBill(t, log) /\ UncappedSoFar(t) /\ ChargedWithin(t, time)

FundingKept ==
    /\ Billing(evidence)
    /\ phase \notin Broken /\ position # None => Paying(trade, evidence, Reached)

\* No boundary falls right after a close: closes and boundaries are whole
\* minutes, and an exit after a close is stamped one millisecond later.
ClosesOffBoundaries == \A k \in Nat : (Span * k + 1) % FundingEvery # 0

\* A growing log keeps its bills.
LEMMA BillsStand ==
    ASSUME NEW log \in Seq(EvidenceType), NEW longer, Grows(log, longer),
           NEW rows \in SUBSET SettlementRows(log), NEW times, NEW amount
    PROVE  /\ IsFiniteSet(rows)
           /\ Bills(log, rows, times, amount) => Bills(longer, rows, times, amount)
<1>1. IsFiniteSet(rows)
  <2>1. Len(log) \in Nat /\ DOMAIN log = 1 .. Len(log)
    BY LenProperties
  <2>2. IsFiniteSet(1 .. Len(log)) /\ rows \subseteq 1 .. Len(log)
    BY <2>1, FS_Interval DEF SettlementRows
  <2> QED
    BY <2>2, FS_Subset
<1>2. \A j \in rows : /\ j \in DOMAIN log /\ longer[j] = log[j]
                      /\ j \in SettlementRows(log) /\ j \in SettlementRows(longer)
  BY DEF Grows, SettlementRows
<1>3. \A j \in rows : Payments(log)[j] = Payments(longer)[j]
  BY <1>2 DEF Payments
<1>4. SumOver(Payments(log), rows) = SumOver(Payments(longer), rows)
  BY <1>1, <1>3, SumOfSame
<1>5. {log[j].at : j \in rows} = {longer[j].at : j \in rows}
  BY <1>2
<1> QED
  BY <1>1, <1>2, <1>4, <1>5 DEF Bills

\* A trade stays billed while no row more names it.
LEMMA ClosedBillStands ==
    ASSUME NEW log \in Seq(EvidenceType), NEW longer, Grows(log, longer), NEW t,
           ClosedBill(log, t), RowsOf(longer, t.id) = RowsOf(log, t.id)
    PROVE  ClosedBill(longer, t)
<1>1. RowsOf(log, t.id) \in SUBSET SettlementRows(log)
  BY DEF RowsOf
<1>2. Bills(longer, RowsOf(log, t.id), Boundaries(t.entered, t.exited), t.funding)
  BY <1>1, BillsStand DEF ClosedBill
<1>3. \A j \in RowsOf(log, t.id) : longer[j] = log[j]
  BY <1>1 DEF Grows, SettlementRows
<1> QED
  BY <1>2, <1>3 DEF ClosedBill

\* Rows of other tables leave the bills as they are.
LEMMA OtherRows ==
    ASSUME NEW log \in Seq(EvidenceType), NEW row \in EvidenceType,
           row.table \notin {"TRADE", "FUNDING_SETTLEMENT"}
    PROVE  /\ Append(log, row) \in Seq(EvidenceType)
           /\ TradeRows(Append(log, row)) = TradeRows(log)
           /\ Billing(log) => Billing(Append(log, row))
<1> DEFINE longer == Append(log, row)
<1>1. /\ longer \in Seq(EvidenceType) /\ Grows(log, longer)
      /\ \A i \in DOMAIN longer : i \in DOMAIN log \/ longer[i] = row
  <2>1. /\ longer \in Seq(EvidenceType) /\ Len(longer) = Len(log) + 1
        /\ \A i \in 1 .. Len(log) : longer[i] = log[i]
        /\ longer[Len(log) + 1] = row
    BY AppendProperties
  <2>2. /\ Len(log) \in Nat /\ DOMAIN log = 1 .. Len(log)
        /\ DOMAIN longer = 1 .. Len(log) + 1
    BY <2>1, LenProperties
  <2> HIDE DEF longer
  <2> QED
    BY <2>1, <2>2 DEF Grows
<1> HIDE DEF longer
<1>2. TradeRows(longer) = TradeRows(log) /\ SettlementRows(longer) = SettlementRows(log)
  BY <1>1 DEF TradeRows, SettlementRows, Grows
<1>3. /\ \A i \in TradeRows(log) : longer[i] = log[i]
      /\ \A j \in SettlementRows(log) : longer[j] = log[j]
  BY <1>1 DEF TradeRows, SettlementRows, Grows
<1>4. \A id : RowsOf(longer, id) = RowsOf(log, id)
  BY <1>2, <1>3 DEF RowsOf
<1>5. ASSUME Billing(log) PROVE Billing(longer)
  <2>1. \A i \in TradeRows(log) : ClosedBill(longer, longer[i])
    BY <1>1, <1>3, <1>4, <1>5, ClosedBillStands DEF Billing
  <2> QED
    BY <1>2, <1>3, <1>5, <2>1 DEF Billing
<1> QED
  BY <1>1, <1>2, <1>5 DEF longer

\* Completing a trade bills it.
LEMMA FlushBills ==
    ASSUME NEW log \in Seq(EvidenceType), Billing(log),
           NEW t \in TradeType, OwnRows(t), OpenBill(t, log),
           NEW at \in Nat, NEW reason \in ExitReason,
           t.settled = Boundaries(t.entered, at),
           \A k \in DOMAIN t.settlements : EndsIfCapped(t.settlements[k], at, reason)
    PROVE  Billing(log \o Flushed(t, at, reason))
<1> DEFINE rows == Flushed(t, at, reason)
           full == log \o rows
           n == Len(log)
           off == n + (1 + Len(t.marks))
           m == Len(t.settlements)
           mine == {off + k : k \in 1 .. m}
           c == Cardinality(TradeRows(log))
<1>1. /\ rows \in Seq(EvidenceType) /\ Len(t.marks) \in Nat /\ m \in Nat
      /\ 1 \in 1 .. Len(rows) /\ rows[1] = TradeRow(t, at, reason)
      /\ \A i \in 1 .. Len(rows) : rows[i].table = "TRADE" => i = 1
  BY FlushedRows
<1>2. \A k \in 1 .. m : /\ 1 + Len(t.marks) + k \in 1 .. Len(rows)
                        /\ rows[1 + Len(t.marks) + k] = t.settlements[k]
                        /\ t.settlements[k].table = "FUNDING_SETTLEMENT"
                        /\ t.settlements[k].trade = t.id
  BY FlushedRows, ZenonT(60)
<1>3. \A i \in 1 .. Len(rows) :
          rows[i].table = "FUNDING_SETTLEMENT" =>
              \E k \in 1 .. m : i = 1 + Len(t.marks) + k
  BY FlushedRows
<1> HIDE DEF rows
<1>4. /\ Grows(log, full) /\ DOMAIN full = 1 .. n + Len(rows)
      /\ \A i \in 1 .. Len(rows) : full[n + i] = rows[i]
      /\ \A i \in DOMAIN full :
             \/ i \in DOMAIN log /\ full[i] = log[i]
             \/ \E r \in 1 .. Len(rows) : i = n + r /\ full[i] = rows[r]
  BY <1>1, ConcatenationGrows
<1>5. /\ n \in Nat /\ DOMAIN log = 1 .. n /\ Len(rows) \in Nat
      /\ DOMAIN t.settlements = 1 .. m
  BY <1>1, LenProperties DEF TradeType
<1>6. c \in Nat /\ IsFiniteSet(TradeRows(log))
  <2>1. IsFiniteSet(1 .. n) /\ TradeRows(log) \subseteq 1 .. n
    BY <1>5, FS_Interval DEF TradeRows
  <2> QED
    BY <2>1, FS_Subset, FS_CardinalityType
<1> HIDE DEF full, c, off, m
<1>7. /\ n + 1 \in DOMAIN full /\ n + 1 \notin DOMAIN log
      /\ full[n + 1] = TradeRow(t, at, reason)
  BY <1>1, <1>4, <1>5
<1>8. /\ TradeRow(t, at, reason).table = "TRADE" /\ TradeRow(t, at, reason).id = t.id
      /\ TradeRow(t, at, reason).entered = t.entered
      /\ TradeRow(t, at, reason).exited = at
      /\ TradeRow(t, at, reason).reason = reason
      /\ TradeRow(t, at, reason).funding = t.funding
  BY DEF TradeRow
<1>9. /\ TradeRows(full) = TradeRows(log) \cup {n + 1}
      /\ n + 1 \notin TradeRows(log)
  <2>1. ASSUME NEW i \in DOMAIN full, full[i].table = "TRADE"
        PROVE  i \in TradeRows(log) \/ i = n + 1
    BY <1>1, <1>4, <2>1 DEF TradeRows
  <2> QED
    BY <1>4, <1>7, <1>8, <2>1 DEF TradeRows, Grows
<1>10. Cardinality(TradeRows(full)) = c + 1
  BY <1>6, <1>9, FS_AddElement DEF c
<1>11. t.id = c + 1 /\ Bills(t.settlements, 1 .. m, t.settled, t.funding)
  BY <1>5 DEF OpenBill, c
<1>12. \A k \in 1 .. m : /\ off + k \in DOMAIN full /\ off + k \notin DOMAIN log
                         /\ full[off + k] = t.settlements[k]
  <2> TAKE k \in 1 .. m
  <2> DEFINE r == 1 + Len(t.marks) + k
  <2>1. /\ r \in 1 .. Len(rows) /\ rows[r] = t.settlements[k]
        /\ off + k = n + r /\ r \in Nat
    BY <1>1, <1>2, <1>5 DEF off
  <2> HIDE DEF r
  <2>2. n + r \in 1 .. n + Len(rows) /\ n + r \notin 1 .. n
    BY <1>5, <2>1
  <2> QED
    BY <1>4, <1>5, <2>1, <2>2
<1>13. /\ SettlementRows(full) = SettlementRows(log) \cup mine
       /\ \A j \in mine : j \notin DOMAIN log /\ full[j].trade = t.id
       /\ \A j \in SettlementRows(log) : full[j] = log[j] /\ log[j].trade <= c
  <2>1. ASSUME NEW i \in DOMAIN full, full[i].table = "FUNDING_SETTLEMENT",
               i \notin DOMAIN log
        PROVE  i \in mine
    <3>1. PICK r \in 1 .. Len(rows) : i = n + r /\ full[i] = rows[r]
      BY <1>4, <2>1
    <3>2. PICK k \in 1 .. m : r = 1 + Len(t.marks) + k
      BY <1>3, <2>1, <3>1
    <3>3. i = off + k
      BY <1>1, <1>5, <3>1, <3>2 DEF off
    <3> QED
      BY <3>3
  <2>2. \A j \in mine : /\ j \in SettlementRows(full) /\ j \notin DOMAIN log
                        /\ full[j].trade = t.id
    <3> TAKE j \in mine
    <3>1. PICK k \in 1 .. m : j = off + k
      OBVIOUS
    <3>2. /\ j \in DOMAIN full /\ j \notin DOMAIN log /\ full[j] = t.settlements[k]
      BY <1>12, <3>1
    <3> QED
      BY <1>2, <3>2 DEF SettlementRows
  <2>3. \A j \in SettlementRows(log) : /\ j \in SettlementRows(full)
                                       /\ full[j] = log[j] /\ log[j].trade <= c
    BY <1>4 DEF SettlementRows, Grows, Billing, c
  <2>4. ASSUME NEW j \in SettlementRows(full) PROVE j \in SettlementRows(log) \cup mine
    <3> HIDE DEF mine
    <3> QED
      BY <1>4, <2>1, <2>4 DEF SettlementRows, Grows
  <2> HIDE DEF mine
  <2> QED
    BY <2>2, <2>3, <2>4
<1>14. ASSUME NEW id, id <= c PROVE RowsOf(full, id) = RowsOf(log, id)
  <2> HIDE DEF mine
  <2>1. id # t.id
    BY <1>6, <1>11, <1>14
  <2> QED
    BY <1>13, <2>1 DEF RowsOf
<1>15. RowsOf(full, t.id) = mine
  <2> HIDE DEF mine
  <2>1. \A j \in SettlementRows(log) : full[j].trade # t.id
    BY <1>6, <1>11, <1>13
  <2> QED
    BY <1>13, <2>1 DEF RowsOf
<1>16. Bills(full, mine, t.settled, t.funding)
  <2> DEFINE f == [k \in 1 .. m |-> off + k]
             w == Payments(t.settlements)
             v == Payments(full)
  <2>1. {full[j].at : j \in mine} = {t.settlements[k].at : k \in 1 .. m}
    BY <1>12
  <2>2. ASSUME NEW j \in mine, NEW l \in mine, full[j].at = full[l].at PROVE j = l
    <3>1. PICK k \in 1 .. m : j = off + k
      OBVIOUS
    <3>2. PICK i \in 1 .. m : l = off + i
      OBVIOUS
    <3>3. t.settlements[k].at = t.settlements[i].at
      BY <1>12, <2>2, <3>1, <3>2
    <3> QED
      BY <1>11, <3>1, <3>2, <3>3 DEF Bills
  <2>3. \A k, l \in 1 .. m : f[k] = f[l] => k = l
    BY <1>1, <1>5 DEF off
  <2>4. \A k \in 1 .. m : w[k] = -t.settlements[k].payment /\ w[k] \in Int
    <3>1. ASSUME NEW k \in 1 .. m PROVE t.settlements[k].payment \in Int
      <4> DEFINE R == [table : {"FUNDING_SETTLEMENT"}, trade : Nat, at : Nat,
                       payment : Int, theoretical : Int]
      <4>1. t.settlements \in Seq(R) /\ \A r \in R : r.payment \in Int
        BY DEF TradeType
      <4> HIDE DEF R
      <4>2. t.settlements[k] \in R
        BY <1>5, <4>1, ElementOfSeq DEF m
      <4> QED
        BY <4>1, <4>2
    <3> QED
      BY <1>2, <1>5, <3>1 DEF Payments, SettlementRows
  <2>5. \A k \in 1 .. m : v[f[k]] = -t.settlements[k].payment
    <3>1. \A k \in 1 .. m : f[k] = off + k /\ off + k \in mine
      OBVIOUS
    <3> HIDE DEF mine, f, off
    <3> QED
      BY <1>12, <1>13, <3>1 DEF Payments
  <2>6. IsFiniteSet(1 .. m) /\ Weighs(w, 1 .. m)
    <3>1. IsFiniteSet(1 .. m)
      BY <1>1, FS_Interval
    <3> QED
      BY <2>4, <3>1 DEF Weighs
  <2>7. \A k \in 1 .. m : v[f[k]] = w[k]
    BY <2>4, <2>5
  <2>8. SumOver(v, mine) = SumOver(w, 1 .. m)
    <3>1. \A k \in 1 .. m : f[k] \in mine
      OBVIOUS
    <3>2. \A j \in mine : \E k \in 1 .. m : j = f[k]
      OBVIOUS
    <3> DEFINE D == 1 .. m
    <3> HIDE DEF D, mine, f, w, v
    <3>3. /\ IsFiniteSet(D) /\ \A k, l \in D : f[k] = f[l] => k = l
          /\ Weighs(w, D) /\ \A k \in D : v[f[k]] = w[k]
      BY <2>3, <2>6, <2>7 DEF D
    <3>4. /\ \A k \in D : f[k] \in mine
          /\ \A j \in mine : \E k \in D : j = f[k]
      BY <3>1, <3>2 DEF D
    <3>5. SumOver(v, mine) = SumOver(w, D)
      BY <3>3, <3>4, SumRenamed
    <3> QED
      BY <3>5 DEF D
  <2> QED
    BY <1>11, <2>1, <2>2, <2>8 DEF Bills, v, w
<1>17. ClosedBill(full, full[n + 1]) /\ full[n + 1].id <= c + 1
  <2>1. \A j \in mine : EndsIfCapped(full[j], at, reason)
    BY <1>5, <1>12
  <2> HIDE DEF mine
  <2> QED
    BY <1>6, <1>7, <1>8, <1>11, <1>15, <1>16, <2>1 DEF ClosedBill
<1>18. ASSUME NEW i \in TradeRows(log)
       PROVE  ClosedBill(full, full[i]) /\ full[i].id <= c + 1
  <2>1. full[i] = log[i] /\ ClosedBill(log, log[i]) /\ log[i].id <= c
    BY <1>4 DEF TradeRows, Grows, Billing, c
  <2>2. ClosedBill(full, log[i])
    BY <1>4, <1>14, <2>1, ClosedBillStands
  <2>3. log[i].id \in Nat
    <3>1. log[i] \in EvidenceType /\ log[i].table = "TRADE"
      BY <1>5, ElementOfSeq DEF TradeRows
    <3> QED
      BY <3>1 DEF EvidenceType
  <2> QED
    BY <1>6, <2>1, <2>2, <2>3
<1>19. ASSUME NEW j \in SettlementRows(full) PROVE full[j].trade <= c + 1
  <2>1. CASE j \in SettlementRows(log)
    <3>1. full[j] = log[j] /\ log[j].trade <= c
      BY <1>13, <2>1
    <3>2. log[j] \in EvidenceType /\ log[j].table = "FUNDING_SETTLEMENT"
      BY <1>5, <2>1, ElementOfSeq DEF SettlementRows
    <3>3. log[j].trade \in Nat
      BY <3>2 DEF EvidenceType
    <3> QED
      BY <1>6, <3>1, <3>3
  <2>2. CASE j \in mine
    <3> HIDE DEF mine
    <3> QED
      BY <1>6, <1>11, <1>13, <2>2
  <2> QED
    BY <1>13, <1>19, <2>1, <2>2
<1> HIDE DEF mine, n
<1> QED
  BY <1>9, <1>10, <1>17, <1>18, <1>19 DEF Billing, full, rows

\* An exit bills its trade, unless it fails.
LEMMA ExitBills ==
    ASSUME NEW p, NEW t \in TradeType, OwnRows(t),
           NEW log \in Seq(EvidenceType), Billing(log), OpenBill(t, log),
           NEW reference, NEW gap, NEW at \in Nat,
           NEW decision \in Nat \cup {None}, NEW reason \in ExitReason, NEW then,
           t.settled = Boundaries(t.entered, at),
           \A k \in DOMAIN t.settlements : EndsIfCapped(t.settlements[k], at, reason),
           Exit(p, t, reference, gap, at, decision, reason, log, then)
    PROVE  /\ Billing(evidence')
           /\ phase' \in Broken \/ position' = None
<1> DEFINE row == ExecutionRow(decision, reason, at)
           executed == Append(log, row)
           flushed == executed \o Flushed(t, at, reason)
<1>1. row \in EvidenceType /\ row.table \notin {"TRADE", "FUNDING_SETTLEMENT"}
  BY DEF ExecutionRow, EvidenceType
<1> HIDE DEF row
<1>2. /\ executed \in Seq(EvidenceType) /\ Billing(executed)
      /\ TradeRows(executed) = TradeRows(log)
  BY <1>1, OtherRows
<1>3. OpenBill(t, executed)
  BY <1>2 DEF OpenBill
<1> HIDE DEF executed
<1>4. Billing(flushed)
  BY <1>2, <1>3, FlushBills
<1>5. \/ phase' = "failed" /\ (evidence' = log \/ evidence' = executed)
      \/ position' = None /\ (evidence' = executed \/ evidence' = flushed)
  BY DEF Exit, Fails, executed, row
<1> QED
  BY <1>2, <1>4, <1>5 DEF Broken

\* The same, where the decision to exit is recorded first.
LEMMA DecidedExitBills ==
    ASSUME Solvent, Audited, Billing(evidence),
           NEW p, NEW t \in TradeType, OwnRows(t), OpenBill(t, evidence),
           NEW reference, NEW gap, NEW at \in Nat, NEW decided \in Nat,
           NEW reason \in ExitReason, NEW then,
           t.settled = Boundaries(t.entered, at),
           \A k \in DOMAIN t.settlements : EndsIfCapped(t.settlements[k], at, reason),
           Exit(p, t, reference, gap, at, decisions + 1, reason,
                Append(evidence, DecisionRow(decisions + 1, decided)), then)
    PROVE  /\ Billing(evidence')
           /\ phase' \in Broken \/ position' = None
<1> DEFINE id == decisions + 1
           row == DecisionRow(id, decided)
           log == Append(evidence, row)
<1>1. id \in Nat \cup {None} /\ evidence \in Seq(EvidenceType)
  BY AccountsAreTyped
<1>2. row \in EvidenceType /\ row.table \notin {"TRADE", "FUNDING_SETTLEMENT"}
  BY AccountsAreTyped DEF DecisionRow, EvidenceType
<1>3. Exit(p, t, reference, gap, at, id, reason, log, then)
  OBVIOUS
<1> HIDE DEF id, row
<1>4. /\ log \in Seq(EvidenceType) /\ Billing(log)
      /\ TradeRows(log) = TradeRows(evidence)
  BY <1>1, <1>2, OtherRows
<1>5. OpenBill(t, log)
  BY <1>4 DEF OpenBill
<1> HIDE DEF log
<1> QED
  BY <1>1, <1>3, <1>4, <1>5, ExitBills

-----------------------------------------------------------------------------
(* The tape of a run lies on the grid of its timeframe *)

LEMMA OpensAdvance ==
    /\ \A k \in Nat : k * Span \in Opens
    /\ \A x \in Opens : /\ x \in Nat
                        /\ \A g \in Nat : x + g * Span \in Opens
    /\ \A x \in Opens : x + Span \in Opens
<1>1. \A k \in Nat : k * Span \in Opens
  <2> TAKE k \in Nat
  <2>1. k * Span = Span * k
    BY EngineAssumption
  <2> QED
    BY <2>1 DEF Opens
<1>2. ASSUME NEW x \in Opens, NEW g \in Nat
      PROVE  x \in Nat /\ x + g * Span \in Opens
  <2>1. PICK k \in Nat : x = Span * k
    BY DEF Opens
  <2>2. Span * k + g * Span = Span * (k + g) /\ k + g \in Nat /\ Span * k \in Nat
    BY EngineAssumption
  <2> QED
    BY <2>1, <2>2 DEF Opens
<1>3. ASSUME NEW x \in Opens PROVE x + Span \in Opens
  <2>1. x + 1 * Span \in Opens
    BY <1>2
  <2>2. 1 * Span = Span
    BY EngineAssumption
  <2> QED
    BY <2>1, <2>2
<1> QED
  BY <1>1, <1>2, <1>3

LEMMA SuccessorsOnGrid ==
    ASSUME NEW c, c.closeTime \in Opens, NEW n, NEW s \in Successors(c, n), s # None
    PROVE  s.openTime \in Opens
<1>1. PICK shape \in Shapes, g \in 0 .. MaxGap :
          s = Candle(shape, c.closeTime + g * Span)
  BY DEF Successors
<1>2. g \in Nat
  BY EngineAssumption
<1> QED
  BY <1>1, <1>2, OpensAdvance DEF Candle

LEMMA InitOnGrid == Init => OnGrid
<1> SUFFICES ASSUME Init PROVE OnGrid
  OBVIOUS
<1>1. PICK s \in Shapes, k \in 0 .. FundingEvery \div Span :
          candle = Candle(s, k * Span)
  BY DEF Init
<1>2. candle.openTime = k * Span /\ candle.closeTime = k * Span + Span /\ k \in Nat
  BY <1>1, EngineAssumption DEF Candle
<1>3. candle.openTime \in Opens /\ candle.closeTime \in Opens
  BY <1>2, OpensAdvance
<1>4. next # None => next.openTime \in Opens
  BY <1>3, SuccessorsOnGrid DEF Init
<1> QED
  BY <1>3, <1>4 DEF OnGrid, Init

LEMMA StepsOnGrid == Solvent /\ Audited /\ OnGrid /\ [Next]_vars => OnGrid'
<1> SUFFICES ASSUME Solvent, Audited, OnGrid, [Next]_vars PROVE OnGrid'
  OBVIOUS
<1>1. candle.openTime <= candle.closeTime
  <2>1. candle.closeTime = candle.openTime + Span /\ candle.openTime \in Nat
    BY DEF Audited, OnTape, Proper, Solvent, Typed, CandleType
  <2> QED
    BY <2>1, EngineAssumption
<1>2. ASSUME UNCHANGED tape, phase' = "funding" => cursor' <= candle.closeTime
      PROVE  OnGrid'
  BY <1>2 DEF OnGrid, tape
<1>3. CASE SettleAtOpen
  <2>1. UNCHANGED tape /\ phase' # "funding"
    BY <1>3, NothingDueAtOpen DEF tape
  <2> QED
    BY <1>2, <2>1
<1>4. CASE FillOrder
  <2>1. phase' # "funding"
    BY <1>4 DEF FillOrder, FillExit, FillEntry, OpenTrade, Exit, Fails
  <2> QED
    BY <1>2, <1>4, <2>1 DEF FillOrder
<1>5. CASE OrdersFilled
  <2>1. cursor' = candle.openTime
    BY <1>5 DEF OrdersFilled, Audited, Settlement, Running, Ended
  <2> QED
    BY <1>1, <1>2, <1>5, <2>1 DEF OrdersFilled
<1>6. CASE SettleCrossed
  BY <1>2, <1>6 DEF SettleCrossed, Crossed
<1>7. CASE FundingSettled
  BY <1>2, <1>7 DEF FundingSettled
<1>8. CASE WalkTriggers
  <2>1. phase' # "funding"
    BY <1>8 DEF WalkTriggers, Exit, Fails
  <2> QED
    BY <1>2, <1>8, <2>1 DEF WalkTriggers
<1>9. CASE MarkGrid
  BY <1>2, <1>9 DEF MarkGrid
<1>10. CASE NoSignal
  BY <1>2, <1>10 DEF NoSignal, Analyzed
<1>11. CASE \E s \in Protections :
               \/ ExitSignal(s) \/ AmbiguousSignal(s)
               \/ \E qty \in 1 .. MaxQty, within \in BOOLEAN :
                      EntrySignal(s, qty, within)
  <2>1. UNCHANGED tape /\ phase' # "funding"
    BY <1>11 DEF ExitSignal, AmbiguousSignal, EntrySignal, Skip, Act, Decide,
                 Analyzed, Fails
  <2> QED
    BY <1>2, <2>1
<1>12. CASE CloseAtDataGap
  <2>1. phase' # "funding"
    BY <1>12 DEF CloseAtDataGap, Exit, Fails
  <2> QED
    BY <1>2, <1>12, <2>1 DEF CloseAtDataGap
<1>13. CASE NextCandle
  <2>1. /\ candle' = next /\ next # None /\ next' \in Successors(next, bars + 1)
        /\ phase' = "open"
    BY <1>13 DEF NextCandle
  <2>2. next.openTime \in Opens /\ next.closeTime = next.openTime + Span
    BY <2>1 DEF OnGrid, Audited, OnTape, Proper
  <2>3. next.closeTime \in Opens
    BY <2>2, OpensAdvance
  <2>4. next' # None => next'.openTime \in Opens
    BY <2>1, <2>3, SuccessorsOnGrid
  <2> QED
    BY <2>1, <2>2, <2>3, <2>4 DEF OnGrid
<1>14. CASE Finalize
  <2>1. phase' # "funding"
    BY <1>14 DEF Finalize, Exit, Fails
  <2> QED
    BY <1>2, <1>14, <2>1 DEF Finalize
<1>15. CASE UNCHANGED vars
  BY <1>15 DEF vars, OnGrid
<1> QED
  BY <1>3, <1>4, <1>5, <1>6, <1>7, <1>8, <1>9, <1>10, <1>11, <1>12, <1>13,
     <1>14, <1>15 DEF Next

-----------------------------------------------------------------------------
(* Charging and completing a trade *)

\* One more row charges one more time.
LEMMA BillGrows ==
    ASSUME NEW s \in Seq(SettlementType), NEW times, NEW amount,
           Bills(s, DOMAIN s, times, amount),
           NEW row \in SettlementType, row.at \notin times
    PROVE  Bills(Append(s, row), DOMAIN Append(s, row), times \cup {row.at},
                 amount - row.payment)
<1> DEFINE longer == Append(s, row)
           n == Len(s)
           w == Payments(s)
           v == Payments(longer)
<1>1. /\ n \in Nat /\ DOMAIN s = 1 .. n /\ DOMAIN longer = 1 .. n + 1
      /\ \A i \in 1 .. n : longer[i] = s[i]
      /\ longer[n + 1] = row
  BY DEF longer, n
<1>2. \A i \in 1 .. n : s[i] \in SettlementType
  BY <1>1, ElementOfSeq
<1> HIDE DEF n, longer
<1>3. 1 .. n + 1 = (1 .. n) \cup {n + 1} /\ n + 1 \notin 1 .. n
  BY <1>1
<1>4. \A i \in 1 .. n + 1 : longer[i] \in SettlementType
  BY <1>1, <1>2, <1>3
<1>5. /\ \A i \in 1 .. n : w[i] = -s[i].payment
      /\ \A i \in 1 .. n + 1 : v[i] = -longer[i].payment
  BY <1>1, <1>2, <1>4 DEF Payments, SettlementRows, SettlementType
<1>6. IsFiniteSet(1 .. n) /\ Weighs(v, (1 .. n) \cup {n + 1})
  <2>1. IsFiniteSet(1 .. n)
    BY <1>1, FS_Interval
  <2>2. \A i \in 1 .. n + 1 : v[i] \in Int
    <3> TAKE i \in 1 .. n + 1
    <3>1. longer[i].payment \in Int
      BY <1>4 DEF SettlementType
    <3> QED
      BY <1>5, <3>1
  <2> QED
    BY <1>3, <2>1, <2>2 DEF Weighs
<1>7. \A i \in 1 .. n : v[i] = w[i]
  BY <1>1, <1>3, <1>5
<1> HIDE DEF v, w
<1>8. SumOver(v, (1 .. n) \cup {n + 1}) = SumOver(v, 1 .. n) + v[n + 1]
  BY <1>3, <1>6, SumAdds
<1>9. SumOver(v, 1 .. n) = SumOver(w, 1 .. n)
  BY <1>6, <1>7, SumOfSame
<1>10. SumOver(w, 1 .. n) = amount /\ amount \in Int
  <2>1. SumOver(w, 1 .. n) = amount
    BY <1>1 DEF Bills, w
  <2>2. Weighs(w, 1 .. n)
    BY <1>6, <1>7 DEF Weighs
  <2> QED
    BY <1>6, <2>1, <2>2, SumType
<1>11. v[n + 1] = -row.payment /\ row.payment \in Int
  BY <1>1, <1>3, <1>5 DEF SettlementType
<1>12. SumOver(v, 1 .. n + 1) = amount - row.payment
  BY <1>3, <1>8, <1>9, <1>10, <1>11
<1>13. {longer[j].at : j \in 1 .. n + 1} = times \cup {row.at}
  <2>1. {s[j].at : j \in 1 .. n} = times
    BY <1>1 DEF Bills
  <2> QED
    BY <1>1, <1>3, <2>1
<1>14. ASSUME NEW j \in 1 .. n + 1, NEW k \in 1 .. n + 1, longer[j].at = longer[k].at
       PROVE  j = k
  <2>1. /\ \A i \in 1 .. n : s[i].at \in times
        /\ \A i, l \in 1 .. n : s[i].at = s[l].at => i = l
    BY <1>1 DEF Bills
  <2>2. CASE j \in 1 .. n /\ k \in 1 .. n
    BY <1>1, <1>14, <2>1, <2>2
  <2>3. CASE j = n + 1 /\ k \in 1 .. n
    BY <1>1, <1>14, <2>1, <2>3
  <2>4. CASE j \in 1 .. n /\ k = n + 1
    BY <1>1, <1>14, <2>1, <2>4
  <2> QED
    BY <1>3, <2>2, <2>3, <2>4
<1> QED
  BY <1>1, <1>12, <1>13, <1>14 DEF Bills, longer, v

\* What was charged within a time was charged within a later one.
LEMMA ChargedWithinLater ==
    ASSUME NEW t \in TradeType, NEW time \in Int, NEW later \in Int, time <= later,
           ChargedWithin(t, time)
    PROVE  ChargedWithin(t, later)
<1>1. t.entered \in Nat
  BY DEF TradeType
<1>2. Boundaries(t.entered, time) \subseteq Boundaries(t.entered, later)
  BY <1>1 DEF Boundaries
<1> QED
  BY <1>2 DEF ChargedWithin

LEMMA PayingLater ==
    ASSUME NEW t \in TradeType, NEW log, NEW time \in Int, NEW later \in Int,
           time <= later, Paying(t, log, time)
    PROVE  Paying(t, log, later)
BY ChargedWithinLater DEF Paying

\* No boundary is left out up to an exit at time, or right after it.
LEMMA WholeBill ==
    ASSUME Audited, position # None, NEW time \in Nat, NEW at \in Nat,
           SettledThrough(time), ChargedWithin(trade, time),
           at = time \/ (at = time + 1 /\ at % FundingEvery # 0)
    PROVE  trade.settled = Boundaries(trade.entered, at)
<1>1. trade.entered \in Nat
  BY DEF Audited, Books, Paired, TradeType
<1>2. trade.settled \subseteq Boundaries(trade.entered, time)
  BY DEF ChargedWithin
<1>3. Boundaries(trade.entered, time) = Boundaries(trade.entered, at)
  <2>1. CASE at = time
    BY <2>1
  <2>2. CASE at = time + 1 /\ at % FundingEvery # 0
    <3>1. \A b \in Int : b # at => (b \in trade.entered + 1 .. time
                                      <=> b \in trade.entered + 1 .. at)
      BY <1>1, <2>2
    <3>2. at \notin trade.entered + 1 .. time
      BY <2>2
    <3>3. \A b \in trade.entered + 1 .. at : b \in Int
      OBVIOUS
    <3>4. \A b \in trade.entered + 1 .. time : b \in Int
      OBVIOUS
    <3> QED
      BY <2>2, <3>1, <3>2, <3>3, <3>4 DEF Boundaries
  <2> QED
    BY <2>1, <2>2
<1>4. Boundaries(trade.entered, time) \subseteq trade.settled
  BY DEF SettledThrough, Boundaries
<1> QED
  BY <1>2, <1>3, <1>4

\* The time reached is a time, and everything up to it was charged.
LEMMA ReachedIsSettled ==
    ASSUME Solvent, Audited, phase \notin Ended
    PROVE  Reached \in Nat /\ SettledThrough(Reached)
<1>1. candle.openTime \in Nat /\ candle.closeTime \in Nat /\ cursor \in Nat
  BY DEF Solvent, Typed, CandleType
<1>2. Settlement /\ phase \in Phases
  BY DEF Audited, Running
<1>3. CASE phase \in {"open", "orders"}
  BY <1>1, <1>2, <1>3 DEF Settlement, Reached
<1>4. CASE phase = "funding"
  BY <1>1, <1>2, <1>4 DEF Settlement, Reached
<1>5. CASE phase \notin {"open", "orders", "funding"}
  <2>1. phase \in {"triggers", "mark", "analyze", "gap", "turn"}
    BY <1>2, <1>5 DEF Phases
  <2> QED
    BY <1>1, <1>2, <1>5, <2>1 DEF Settlement, Reached
<1> QED
  BY <1>3, <1>4, <1>5

\* An exit of the open trade at the time reached, or right after it.
LEMMA ExitKeepsFunding ==
    ASSUME Solvent, Audited, FundingKept, phase \notin Ended, position # None,
           NEW at \in Nat,
           at = Reached \/ (at = Reached + 1 /\ at % FundingEvery # 0),
           NEW reason \in ExitReason, NEW reference, NEW gap, NEW then,
           \/ \E decision \in Nat \cup {None} :
                  Exit(position, trade, reference, gap, at, decision, reason,
                       evidence, then)
           \/ \E decided \in Nat :
                  Exit(position, trade, reference, gap, at, decisions + 1, reason,
                       Append(evidence, DecisionRow(decisions + 1, decided)), then)
    PROVE  FundingKept'
<1>1. phase \notin Broken
  BY DEF Broken, Ended
<1>2. Billing(evidence) /\ Paying(trade, evidence, Reached)
  BY <1>1 DEF FundingKept
<1>3. /\ OpenBill(trade, evidence) /\ UncappedSoFar(trade)
      /\ ChargedWithin(trade, Reached)
  BY <1>2 DEF Paying
<1>4. trade \in TradeType /\ OwnRows(trade) /\ evidence \in Seq(EvidenceType)
  BY HeldIsSound DEF Audited, SoundLog
<1>5. Reached \in Nat /\ SettledThrough(Reached)
  BY ReachedIsSettled
<1>6. trade.settled = Boundaries(trade.entered, at)
  BY <1>3, <1>5, WholeBill
<1>7. \A k \in DOMAIN trade.settlements :
          EndsIfCapped(trade.settlements[k], at, reason)
  BY <1>3 DEF UncappedSoFar, EndsIfCapped
<1>8. Billing(evidence') /\ (phase' \in Broken \/ position' = None)
  <2>1. ASSUME NEW decision \in Nat \cup {None},
               Exit(position, trade, reference, gap, at, decision, reason,
                    evidence, then)
        PROVE  Billing(evidence') /\ (phase' \in Broken \/ position' = None)
    BY <1>2, <1>3, <1>4, <1>6, <1>7, <2>1, ExitBills
  <2>2. ASSUME NEW decided \in Nat,
               Exit(position, trade, reference, gap, at, decisions + 1, reason,
                    Append(evidence, DecisionRow(decisions + 1, decided)), then)
        PROVE  Billing(evidence') /\ (phase' \in Broken \/ position' = None)
    BY <1>2, <1>3, <1>4, <1>6, <1>7, <2>2, DecidedExitBills
  <2> QED
    BY <2>1, <2>2
<1> QED
  BY <1>8 DEF FundingKept

\* A step that leaves the trade and the log, and goes on in time.
LEMMA FundingStands ==
    ASSUME Solvent, Audited, FundingKept, phase \notin Broken,
           UNCHANGED <<position, trade, evidence>>,
           Reached \in Int, Reached' \in Int, Reached <= Reached'
    PROVE  FundingKept'
<1>1. Billing(evidence')
  BY DEF FundingKept
<1>2. ASSUME position' # None PROVE Paying(trade', evidence', Reached')
  <2>1. Paying(trade, evidence, Reached) /\ trade \in TradeType
    BY <1>2, HeldIsSound DEF FundingKept
  <2>2. Paying(trade, evidence, Reached')
    BY <2>1, PayingLater
  <2> QED
    BY <2>2
<1> QED
  BY <1>1, <1>2 DEF FundingKept

LEMMA BoundaryAhead ==
    ASSUME NEW c \in Nat
    PROVE  /\ NextBoundary(c) \in Nat /\ c < NextBoundary(c)
           /\ NextBoundary(c) % FundingEvery = 0
           /\ (NextBoundary(c) + 1) % FundingEvery # 0
<1> DEFINE F == FundingEvery
           q == c \div F + 1
           b == NextBoundary(c)
<1>1. F \in Nat /\ F > 1
  BY EngineAssumption
<1>2. q \in Nat /\ c = (q - 1) * F + (c % F) /\ (c % F) \in 0 .. F - 1
  BY <1>1
<1>3. b = F * q
  BY DEF NextBoundary
<1> HIDE DEF F, q, b
<1>4. b \in Nat /\ (q - 1) * F = b - F
  BY <1>1, <1>2, <1>3
<1>5. c < b
  BY <1>1, <1>2, <1>4
<1>6. ASSUME NEW r \in Nat, r <= 1, NEW d \in Int, b + r = d * F PROVE r = 0
  <2>1. d * F \in Int /\ q * F = b /\ (q + 1) * F = b + F
    BY <1>1, <1>2, <1>3
  <2>2. CASE d <= q
    <3>1. d * F <= q * F
      BY <1>1, <1>2, <2>2
    <3> QED
      BY <1>4, <1>6, <2>1, <3>1
  <2>3. CASE d >= q + 1
    <3>1. (q + 1) * F <= d * F
      BY <1>1, <1>2, <2>3
    <3> QED
      BY <1>1, <1>4, <1>6, <2>1, <3>1
  <2> QED
    BY <1>2, <2>2, <2>3
<1>7. b % F = 0
  <2> DEFINE d == b \div F
             r == b % F
  <2>1. d \in Int /\ r \in 0 .. F - 1 /\ b = d * F + r
    BY <1>1, <1>4
  <2> HIDE DEF d, r
  <2>2. d * F \in Int /\ q * F = b /\ (d + 1) * F = d * F + F
    BY <1>1, <1>2, <1>3, <2>1
  <2>3. ~(q >= d + 1)
    <3> SUFFICES ASSUME q >= d + 1 PROVE FALSE
      OBVIOUS
    <3>1. (d + 1) * F <= q * F
      BY <1>1, <1>2, <2>1
    <3> QED
      BY <1>1, <1>4, <2>1, <2>2, <3>1
  <2>4. q * F <= d * F
    BY <1>1, <1>2, <2>1, <2>3
  <2> QED
    BY <1>4, <2>1, <2>2, <2>4 DEF r
<1>8. (b + 1) % F # 0
  <2> SUFFICES ASSUME (b + 1) % F = 0 PROVE FALSE
    OBVIOUS
  <2>1. (b + 1) \div F \in Int /\ b + 1 = ((b + 1) \div F) * F
    BY <1>1, <1>4
  <2> QED
    BY <1>6, <2>1
<1> QED
  BY <1>4, <1>5, <1>7, <1>8 DEF b, F

\* What a settlement takes: all that is due, or the last of the margin.
LEMMA SettlePays ==
    ASSUME NEW boundary, NEW then, Settle(boundary, then)
    PROVE  \E rate \in Rates, price \in FundingPrices(boundary) :
               \/ /\ decisions' = decisions + 1
                  /\ Exit(Charged(price, rate), Billed(boundary, price, rate),
                          price, FALSE, boundary + 1, decisions + 1,
                          "LIQUIDATION",
                          Append(evidence, DecisionRow(decisions + 1, boundary)),
                          then)
               \/ /\ position' = Charged(price, rate)
                  /\ trade' = Billed(boundary, price, rate)
                  /\ phase' = then /\ evidence' = evidence
                  /\ ~(Theoretical(price, rate) > 0
                       /\ position.margin - Applied(price, rate) = 0)
BY DEF Settle, Charged, Billed, Applied, Theoretical

LEMMA BilledIsPaying ==
    ASSUME Solvent, Audited, position # None, NEW time \in Nat,
           NEW boundary \in Nat, NEW rate \in Rates,
           NEW price \in FundingPrices(boundary),
           Paying(trade, evidence, time), time < boundary,
           boundary % FundingEvery = 0, trade.entered < boundary
    PROVE  LET t == Billed(boundary, price, rate)
           IN  /\ OpenBill(t, evidence) /\ ChargedWithin(t, boundary)
               /\ \A k \in DOMAIN t.settlements :
                      EndsIfCapped(t.settlements[k], boundary + 1, "LIQUIDATION")
               /\ ~(Theoretical(price, rate) > 0
                    /\ position.margin - Applied(price, rate) = 0)
                      => UncappedSoFar(t)
<1> DEFINE t == Billed(boundary, price, rate)
           applied == Applied(price, rate)
           theoretical == Theoretical(price, rate)
           row == SettlementRow(trade.id, boundary, -applied, -theoretical)
           s == trade.settlements
<1>1. /\ applied \in Int /\ theoretical \in Int
      /\ position.margin \in Nat
  <2>1. position \in PositionType
    BY HeldIsSound
  <2> QED
    BY <2>1, SettlementHolds DEF PositionType
<1>2. /\ trade \in TradeType /\ OpenBill(trade, evidence) /\ UncappedSoFar(trade)
      /\ ChargedWithin(trade, time)
  BY HeldIsSound DEF Paying
<1>3. /\ trade.id \in Nat /\ trade.entered \in Nat /\ s \in Seq(SettlementType)
  BY <1>2 DEF TradeType, SettlementType
<1>4. /\ t.id = trade.id /\ t.entered = trade.entered
      /\ t.funding = trade.funding + applied
      /\ t.settled = trade.settled \cup {boundary}
      /\ t.settlements = Append(s, row)
  BY <1>2 DEF Billed, TradeType
<1>5. applied = AppliedFunding(theoretical, position.margin)
  BY DEF Applied
<1> HIDE DEF t, applied, theoretical
<1>6. /\ row \in SettlementType /\ row.at = boundary
      /\ row.payment = -applied /\ row.theoretical = -theoretical
  BY <1>1, <1>3 DEF SettlementRow, SettlementType
<1> HIDE DEF row, s
<1>7. boundary \notin trade.settled
  BY <1>2, <1>3 DEF ChargedWithin, Boundaries
<1>8. OpenBill(t, evidence)
  <2>1. Bills(s, DOMAIN s, trade.settled, trade.funding)
    BY <1>2 DEF OpenBill, s
  <2>2. Bills(Append(s, row), DOMAIN Append(s, row), trade.settled \cup {boundary},
              trade.funding - row.payment)
    BY <1>3, <1>6, <1>7, <2>1, BillGrows
  <2>3. trade.funding - row.payment = trade.funding + applied
    <3>1. trade.funding \in Int
      BY <1>2 DEF TradeType
    <3> QED
      BY <1>1, <1>6, <3>1
  <2> QED
    BY <1>2, <1>4, <2>2, <2>3 DEF OpenBill
<1>9. ChargedWithin(t, boundary)
  <2>1. trade.settled \subseteq Boundaries(trade.entered, boundary)
    BY <1>2, ChargedWithinLater DEF ChargedWithin
  <2>2. boundary \in Boundaries(trade.entered, boundary)
    BY <1>3 DEF Boundaries
  <2> QED
    BY <1>4, <2>1, <2>2 DEF ChargedWithin
<1>10. \A k \in DOMAIN t.settlements :
           ~Capped(t.settlements[k]) \/ t.settlements[k] = row
  <2>1. /\ \A i \in DOMAIN s : ~Capped(s[i])
        /\ Len(s) \in Nat /\ DOMAIN s = 1 .. Len(s)
        /\ DOMAIN t.settlements = 1 .. Len(s) + 1
        /\ \A i \in 1 .. Len(s) : t.settlements[i] = s[i]
        /\ t.settlements[Len(s) + 1] = row
    BY <1>2, <1>3, <1>4 DEF UncappedSoFar, s
  <2> TAKE k \in DOMAIN t.settlements
  <2>2. k \in 1 .. Len(s) \/ k = Len(s) + 1
    BY <2>1
  <2> QED
    BY <2>1, <2>2
<1>11. Capped(row) => row.payment > row.theoretical
  BY <1>1, <1>5, <1>6 DEF Capped, AppliedFunding, Least
<1>12. ~(theoretical > 0 /\ position.margin - applied = 0) => ~Capped(row)
  BY <1>1, <1>5, <1>6 DEF Capped, AppliedFunding, Least
<1>13. \A k \in DOMAIN t.settlements :
           EndsIfCapped(t.settlements[k], boundary + 1, "LIQUIDATION")
  BY <1>6, <1>10, <1>11 DEF EndsIfCapped
<1>14. ~(theoretical > 0 /\ position.margin - applied = 0) => UncappedSoFar(t)
  BY <1>10, <1>12 DEF UncappedSoFar
<1> QED
  BY <1>8, <1>9, <1>13, <1>14 DEF t, applied, theoretical

\* A boundary is charged in full, or with the last of the margin ends the trade.
LEMMA SettleCrossedKeepsFunding ==
    ASSUME Solvent, Audited, FundingKept, SettleCrossed
    PROVE  FundingKept'
<1> DEFINE boundary == NextBoundary(cursor)
<1>1. /\ phase = "funding" /\ cursor' = boundary /\ UNCHANGED candle
      /\ SettleIfDue(boundary, "funding")
  BY DEF SettleCrossed, tape
<1>2. cursor \in Nat
  BY DEF Solvent, Typed
<1>3. /\ boundary \in Nat /\ cursor < boundary /\ boundary % FundingEvery = 0
      /\ (boundary + 1) % FundingEvery # 0
  BY <1>2, BoundaryAhead
<1> HIDE DEF boundary
<1>4. phase \notin Broken /\ phase \notin Ended /\ Reached = cursor
  BY <1>1 DEF Broken, Ended, Reached
<1>5. phase' = "funding" => Reached' = boundary
  BY <1>1 DEF Reached
<1>6. CASE ~Due(boundary)
  <2>1. phase' = "funding" /\ UNCHANGED <<position, trade, evidence>>
    BY <1>1, <1>6 DEF SettleIfDue, books
  <2> QED
    BY <1>2, <1>3, <1>4, <1>5, <2>1, FundingStands
<1>7. CASE Due(boundary)
  <2>1. /\ position # None /\ trade.entered < boundary
        /\ Settle(boundary, "funding")
    BY <1>1, <1>7 DEF SettleIfDue, Due
  <2>2. PICK rate \in Rates, price \in FundingPrices(boundary) :
            \/ /\ decisions' = decisions + 1
               /\ Exit(Charged(price, rate), Billed(boundary, price, rate),
                       price, FALSE, boundary + 1, decisions + 1,
                       "LIQUIDATION",
                       Append(evidence, DecisionRow(decisions + 1, boundary)),
                       "funding")
            \/ /\ position' = Charged(price, rate)
               /\ trade' = Billed(boundary, price, rate)
               /\ phase' = "funding" /\ evidence' = evidence
               /\ ~(Theoretical(price, rate) > 0
                    /\ position.margin - Applied(price, rate) = 0)
    BY <2>1, SettlePays
  <2> DEFINE p == Charged(price, rate)
             t == Billed(boundary, price, rate)
             spent == Theoretical(price, rate) > 0
                          /\ position.margin - Applied(price, rate) = 0
  <2>3. Billing(evidence) /\ Paying(trade, evidence, cursor)
    BY <1>4, <2>1 DEF FundingKept
  <2>4. /\ OpenBill(t, evidence) /\ ChargedWithin(t, boundary)
        /\ \A k \in DOMAIN t.settlements :
               EndsIfCapped(t.settlements[k], boundary + 1, "LIQUIDATION")
        /\ ~spent => UncappedSoFar(t)
    BY <1>2, <1>3, <2>1, <2>3, BilledIsPaying
  <2>5. /\ t \in TradeType /\ OwnRows(t) /\ t.entered = trade.entered
        /\ t.settled = trade.settled \cup {boundary}
    BY <1>3, <2>1, BilledIsSound
  <2> HIDE DEF p, t, spent
  <2>6. CASE Exit(p, t, price, FALSE, boundary + 1, decisions + 1, "LIQUIDATION",
                  Append(evidence, DecisionRow(decisions + 1, boundary)),
                  "funding")
    <3>1. t.settled = Boundaries(t.entered, boundary + 1)
      <4>1. trade.entered \in Nat
        BY <2>1 DEF Audited, Books, Paired, TradeType
      <4>2. t.settled \subseteq Boundaries(trade.entered, boundary + 1)
        <5>1. ChargedWithin(t, boundary + 1)
          BY <1>3, <2>4, <2>5, ChargedWithinLater
        <5> QED
          BY <2>5, <5>1 DEF ChargedWithin
      <4>3. ASSUME NEW b \in Boundaries(trade.entered, boundary + 1)
            PROVE  b \in t.settled
        <5>1. /\ b \in trade.entered + 1 .. boundary + 1 /\ b % FundingEvery = 0
              /\ b \in Nat /\ b # boundary + 1
          BY <1>3, <4>1, <4>3 DEF Boundaries
        <5>2. CASE b <= cursor
          <6>1. b \in trade.entered + 1 .. cursor /\ SettledThrough(cursor)
            BY <1>2, <1>4, <4>1, <5>1, <5>2, ReachedIsSettled
          <6> QED
            BY <2>1, <2>5, <5>1, <6>1 DEF SettledThrough
        <5>3. CASE cursor < b
          <6>1. boundary <= b
            BY <1>2, <5>1, <5>3, NoBoundaryBetween DEF boundary
          <6>2. b = boundary
            BY <1>3, <5>1, <6>1
          <6> QED
            BY <2>5, <6>2
        <5> QED
          BY <1>2, <5>1, <5>2, <5>3
      <4> QED
        BY <2>5, <4>2, <4>3
    <3>2. Billing(evidence') /\ (phase' \in Broken \/ position' = None)
      <4>1. boundary + 1 \in Nat /\ "LIQUIDATION" \in ExitReason
        BY <1>3 DEF ExitReason
      <4> QED
        BY <1>3, <2>3, <2>4, <2>5, <2>6, <3>1, <4>1, DecidedExitBills
    <3> QED
      BY <3>2 DEF FundingKept
  <2>7. CASE /\ position' = p /\ trade' = t /\ phase' = "funding"
             /\ evidence' = evidence /\ ~spent
    BY <1>5, <2>3, <2>4, <2>7 DEF FundingKept, Paying
  <2> QED
    BY <2>2, <2>6, <2>7 DEF p, t, spent
<1> QED
  BY <1>6, <1>7

\* A step that records at most a row of another table.
LEMMA RowKeepsFunding ==
    ASSUME Audited, FundingKept, phase \notin Broken, Reached' = Reached,
           \/ evidence' = evidence
           \/ \E row \in EvidenceType :
                  /\ row.table \notin {"TRADE", "FUNDING_SETTLEMENT"}
                  /\ evidence' = Append(evidence, row),
           position' = position,
           position # None =>
               /\ trade'.id = trade.id /\ trade'.entered = trade.entered
               /\ trade'.funding = trade.funding /\ trade'.settled = trade.settled
               /\ trade'.settlements = trade.settlements
    PROVE  FundingKept'
<1>1. /\ Billing(evidence) /\ evidence \in Seq(EvidenceType)
      /\ position # None => Paying(trade, evidence, Reached)
  BY DEF FundingKept, Audited, SoundLog
<1>2. Billing(evidence') /\ TradeRows(evidence') = TradeRows(evidence)
  BY <1>1, OtherRows
<1>3. ASSUME position' # None PROVE Paying(trade', evidence', Reached')
  BY <1>1, <1>2, <1>3 DEF Paying, OpenBill, UncappedSoFar, ChargedWithin
<1> QED
  BY <1>2, <1>3 DEF FundingKept

\* A trade starts with an empty bill.
LEMMA OpenTradeKeepsFunding ==
    ASSUME Solvent, Audited, FundingKept, phase = "orders",
           NEW o \in OrderType, NEW q \in Nat, NEW at \in Nat,
           OpenTrade(o, q, at)
    PROVE  FundingKept'
<1> DEFINE row == ExecutionRow(o.decision, None, at)
<1>1. Billing(evidence) /\ evidence \in Seq(EvidenceType)
  BY DEF FundingKept, Audited, SoundLog
<1>2. row \in EvidenceType /\ row.table \notin {"TRADE", "FUNDING_SETTLEMENT"}
  BY DEF ExecutionRow, EvidenceType, OrderType
<1>3. /\ evidence' = Append(evidence, row)
      /\ trade'.id = Cardinality(Rows("TRADE")) + 1
      /\ trade'.settled = {} /\ trade'.settlements = <<>> /\ trade'.funding = 0
  BY DEF OpenTrade
<1> HIDE DEF row
<1>4. Billing(evidence') /\ TradeRows(evidence') = TradeRows(evidence)
  BY <1>1, <1>2, <1>3, OtherRows
<1>5. OpenBill(trade', evidence')
  <2>1. Rows("TRADE") = TradeRows(evidence)
    BY DEF Rows, TradeRows
  <2>2. SumOver(Payments(<<>>), {}) = 0
    BY SumOfNothing
  <2>3. DOMAIN <<>> = {}
    OBVIOUS
  <2>4. Bills(<<>>, {}, {}, 0)
    BY <2>2 DEF Bills
  <2> QED
    BY <1>3, <1>4, <2>1, <2>3, <2>4 DEF OpenBill
<1>6. UncappedSoFar(trade')
  <2>1. DOMAIN trade'.settlements = {}
    BY <1>3
  <2> QED
    BY <2>1 DEF UncappedSoFar
<1>7. ChargedWithin(trade', Reached')
  BY <1>3 DEF ChargedWithin
<1> QED
  BY <1>4, <1>5, <1>6, <1>7 DEF FundingKept, Paying

LEMMA OffBoundary ==
    ASSUME ClosesOffBoundaries, NEW x \in Opens
    PROVE  (x + 1) % FundingEvery # 0
BY DEF ClosesOffBoundaries, Opens

LEMMA FillOrderKeepsFunding ==
    ASSUME ClosesOffBoundaries, Solvent, Audited, OnGrid, FundingKept, FillOrder
    PROVE  FundingKept'
<1> DEFINE o == Head(pending)
<1>1. phase = "orders" /\ phase \notin Ended /\ Reached = candle.openTime
  BY DEF FillOrder, Ended, Reached
<1>2. o \in OrderType
  <2>1. pending \in Seq(OrderType) /\ pending # <<>>
    BY DEF FillOrder, Solvent, Typed
  <2> QED
    BY <2>1
<1>3. candle.openTime \in Nat
  BY DEF Solvent, Typed, CandleType
<1>4. ASSUME NEW outcome \in Broken, Fails(outcome, position, trade, evidence)
      PROVE  FundingKept'
  BY <1>4 DEF Fails, FundingKept
<1>5. CASE o.decided # candle.openTime \/ o.decided >= FillTime(o)
  BY <1>4, <1>5 DEF FillOrder, Broken
<1>6. CASE ~(o.decided # candle.openTime \/ o.decided >= FillTime(o))
  <2>1. IF o.reason # None THEN FillExit(o) ELSE FillEntry(o)
    BY <1>6 DEF FillOrder
  <2>2. FillTime(o) = candle.openTime + 1
    BY <1>3, <1>6 DEF FillTime
  <2> HIDE DEF o
  <2>3. /\ o.decision \in Nat \cup {None} /\ o.qty \in Nat
        /\ o.reason # None => o.reason \in ExitReason
    BY <1>2 DEF OrderType, ExitReason
  <2>4. CASE o.reason # None /\ position = None
    BY <1>4, <2>1, <2>4 DEF FillExit, Broken
  <2>5. CASE o.reason # None /\ position # None
    <3>1. Exit(position, trade, candle.open, FALSE, candle.openTime + 1,
               o.decision, o.reason, evidence, "orders")
      BY <2>1, <2>2, <2>5 DEF FillExit
    <3>2. (candle.openTime + 1) % FundingEvery # 0
      BY OffBoundary DEF OnGrid
    <3>3. candle.openTime + 1 \in Nat
      BY <1>3
    <3> QED
      BY <1>1, <2>3, <2>5, <3>1, <3>2, <3>3, ExitKeepsFunding
  <2>6. CASE o.reason = None /\ (position # None \/ Fitting(o) = {})
    BY <1>4, <2>1, <2>6 DEF FillEntry, Broken
  <2>7. CASE o.reason = None /\ position = None /\ Fitting(o) # {}
    <3>1. PICK q \in Fitting(o) : OpenTrade(o, q, FillTime(o))
      BY <2>1, <2>7 DEF FillEntry
    <3>2. q \in Nat /\ FillTime(o) \in Nat
      BY <1>3, <2>2, <2>3 DEF Fitting
    <3> QED
      BY <1>1, <1>2, <3>1, <3>2, OpenTradeKeepsFunding
  <2> QED
    BY <2>4, <2>5, <2>6, <2>7
<1> QED
  BY <1>5, <1>6

LEMMA WalkTriggersKeepsFunding ==
    ASSUME Solvent, Audited, FundingKept, WalkTriggers
    PROVE  FundingKept'
<1>1. /\ phase = "triggers" /\ phase \notin Ended /\ phase \notin Broken
      /\ Reached = candle.closeTime /\ UNCHANGED candle
  BY DEF WalkTriggers, Ended, Broken, Reached, tape
<1>2. candle.openTime \in Nat /\ candle.closeTime \in Nat
  BY DEF Solvent, Typed, CandleType
<1>3. CASE ~Triggered
  <2>1. phase' = "mark" /\ UNCHANGED <<position, trade, evidence>>
    BY <1>3 DEF WalkTriggers, books
  <2>2. Reached' = candle.closeTime
    BY <1>1, <2>1 DEF Reached
  <2> QED
    BY <1>1, <1>2, <2>1, <2>2, FundingStands
<1>4. CASE Triggered
  <2> DEFINE reason == TriggerReason(position)
             reference == TriggerReference(position, reason)
             gap == GapFilled(position, reason)
  <2>1. Exit(position, trade, reference, gap, candle.closeTime, decisions + 1,
             reason, Append(evidence, DecisionRow(decisions + 1, candle.openTime)),
             "mark")
    BY <1>4 DEF WalkTriggers
  <2>2. position # None /\ reason \in ExitReason
    BY <1>4 DEF Triggered, TriggerReason, ExitReason
  <2> HIDE DEF reason, reference, gap
  <2> QED
    BY <1>1, <1>2, <2>1, <2>2, ExitKeepsFunding
<1> QED
  BY <1>3, <1>4

LEMMA MarkGridKeepsFunding ==
    ASSUME Solvent, Audited, FundingKept, MarkGrid
    PROVE  FundingKept'
<1>1. /\ phase = "mark" /\ phase' = "analyze" /\ phase \notin Broken
      /\ UNCHANGED <<candle, bars, position>>
  BY DEF MarkGrid, Broken, tape
<1>2. Reached' = Reached
  BY <1>1 DEF Reached
<1>3. CASE position = None
  <2>1. evidence' = Append(evidence, PositionRow(bars, None))
    BY <1>3 DEF MarkGrid
  <2>2. /\ PositionRow(bars, None) \in EvidenceType
        /\ PositionRow(bars, None).table = "POSITION"
    <3>1. bars \in Nat
      BY AccountsAreTyped, EngineAssumption DEF Audited, OnTape
    <3> QED
      BY <3>1 DEF PositionRow, EvidenceType
  <2> QED
    BY <1>1, <1>2, <1>3, <2>1, <2>2, RowKeepsFunding
<1>4. CASE position # None
  <2>1. /\ evidence' = evidence
        /\ trade' = [trade EXCEPT !.marks = Append(@, PositionRow(bars, trade.id))]
    BY <1>4 DEF MarkGrid
  <2>2. trade \in TradeType
    BY <1>4, HeldIsSound
  <2>3. /\ trade'.id = trade.id /\ trade'.entered = trade.entered
        /\ trade'.funding = trade.funding /\ trade'.settled = trade.settled
        /\ trade'.settlements = trade.settlements
    BY <2>1, <2>2 DEF TradeType
  <2> QED
    BY <1>1, <1>2, <2>1, <2>3, RowKeepsFunding
<1> QED
  BY <1>3, <1>4

LEMMA DecisionsKeepFunding ==
    ASSUME Solvent, Audited, FundingKept, NEW s \in Protections,
           \/ ExitSignal(s) \/ AmbiguousSignal(s)
           \/ \E qty \in 1 .. MaxQty, within \in BOOLEAN :
                  EntrySignal(s, qty, within)
    PROVE  FundingKept'
<1>1. /\ DecisionRow(decisions + 1, candle.closeTime) \in EvidenceType
      /\ SkipRow(decisions + 1, candle.closeTime) \in EvidenceType
      /\ DecisionRow(decisions + 1, candle.closeTime).table = "DECISION"
      /\ SkipRow(decisions + 1, candle.closeTime).table = "SKIP"
  BY AccountsAreTyped DEF DecisionRow, SkipRow, EvidenceType
<1>2. ASSUME phase = "analyze", Skip \/ \E orders : Act(orders)
      PROVE  FundingKept'
  <2>1. /\ phase' \in {"gap", "turn"} /\ UNCHANGED <<candle, position, trade>>
        /\ \E row \in EvidenceType :
               /\ row.table \notin {"TRADE", "FUNDING_SETTLEMENT"}
               /\ evidence' = Append(evidence, row)
    BY <1>1, <1>2 DEF Skip, Act, Decide, Analyzed, tape, books
  <2>2. Reached' = Reached /\ phase \notin Broken
    BY <1>2, <2>1 DEF Reached, Broken
  <2> QED
    BY <2>1, <2>2, RowKeepsFunding
<1>3. CASE ExitSignal(s)
  BY <1>2, <1>3 DEF ExitSignal
<1>4. CASE AmbiguousSignal(s)
  BY <1>4 DEF AmbiguousSignal, Fails, FundingKept, Broken
<1>5. ASSUME NEW qty \in 1 .. MaxQty, NEW within \in BOOLEAN,
             EntrySignal(s, qty, within)
      PROVE  FundingKept'
  BY <1>2, <1>5 DEF EntrySignal
<1> QED
  BY <1>3, <1>4, <1>5

LEMMA CloseAtDataGapKeepsFunding ==
    ASSUME ClosesOffBoundaries, Solvent, Audited, OnGrid, FundingKept,
           CloseAtDataGap
    PROVE  FundingKept'
<1>1. /\ phase = "gap" /\ phase \notin Ended /\ phase \notin Broken
      /\ Reached = candle.closeTime /\ UNCHANGED candle
  BY DEF CloseAtDataGap, Ended, Broken, Reached, tape
<1>2. /\ candle.closeTime \in Nat /\ candle.closeTime + 1 \in Nat
      /\ "DATA_GAP" \in ExitReason
  BY DEF Solvent, Typed, CandleType, ExitReason
<1>3. CASE pending # <<>>
  BY <1>3 DEF CloseAtDataGap, Fails, FundingKept, Broken
<1>4. CASE pending = <<>> /\ position = None
  <2>1. phase' = "turn" /\ UNCHANGED <<position, trade, evidence>>
    BY <1>4 DEF CloseAtDataGap, books
  <2>2. Reached' = candle.closeTime
    BY <1>1, <2>1 DEF Reached
  <2> QED
    BY <1>1, <1>2, <2>1, <2>2, FundingStands
<1>5. CASE pending = <<>> /\ position # None
  <2>1. Exit(position, trade, candle.close, FALSE, candle.closeTime + 1,
             decisions + 1, "DATA_GAP",
             Append(evidence, DecisionRow(decisions + 1, candle.closeTime)),
             "turn")
    BY <1>5 DEF CloseAtDataGap, GapExitTime
  <2>2. (candle.closeTime + 1) % FundingEvery # 0
    BY OffBoundary DEF OnGrid
  <2> QED
    BY <1>1, <1>2, <1>5, <2>1, <2>2, ExitKeepsFunding
<1> QED
  BY <1>3, <1>4, <1>5

LEMMA FinalizeKeepsFunding ==
    ASSUME ClosesOffBoundaries, Solvent, Audited, OnGrid, FundingKept, Finalize
    PROVE  FundingKept'
<1>1. /\ phase = "turn" /\ phase \notin Ended /\ phase \notin Broken
      /\ Reached = candle.closeTime /\ UNCHANGED candle
  BY DEF Finalize, Ended, Broken, Reached, tape
<1>2. /\ candle.closeTime \in Nat /\ candle.closeTime + 1 \in Nat
      /\ "END_OF_DATA" \in ExitReason
  BY DEF Solvent, Typed, CandleType, ExitReason
<1>3. CASE position = None
  <2>1. phase' = "finished" /\ UNCHANGED <<position, trade, evidence>>
    BY <1>3 DEF Finalize, books
  <2>2. Reached' = candle.closeTime
    BY <1>1, <2>1 DEF Reached
  <2> QED
    BY <1>1, <1>2, <2>1, <2>2, FundingStands
<1>4. CASE position # None
  <2>1. Exit(position, trade, candle.close, FALSE, candle.closeTime + 1,
             None, "END_OF_DATA", evidence, "finished")
    BY <1>4 DEF Finalize
  <2>2. (candle.closeTime + 1) % FundingEvery # 0
    BY OffBoundary DEF OnGrid
  <2>3. None \in Nat \cup {None}
    OBVIOUS
  <2> QED
    BY <1>1, <1>2, <1>4, <2>1, <2>2, <2>3, ExitKeepsFunding
<1> QED
  BY <1>3, <1>4

LEMMA InitKeepsFunding == Init => FundingKept
<1> SUFFICES ASSUME Init PROVE FundingKept
  OBVIOUS
<1>1. evidence = <<>> /\ position = None
  BY DEF Init
<1>2. TradeRows(evidence) = {} /\ SettlementRows(evidence) = {}
  BY <1>1 DEF TradeRows, SettlementRows
<1> QED
  BY <1>1, <1>2 DEF FundingKept, Billing

LEMMA StepsKeepFunding ==
    ASSUME ClosesOffBoundaries, Solvent, Audited, OnGrid, FundingKept, [Next]_vars
    PROVE  FundingKept'
<1>1. /\ candle.openTime \in Nat /\ candle.closeTime \in Nat /\ cursor \in Nat
  BY DEF Solvent, Typed, CandleType
<1>2. CASE SettleAtOpen
  <2>1. /\ phase = "open" /\ phase' = "orders"
        /\ UNCHANGED <<candle, position, trade, evidence>>
    BY <1>2, NothingDueAtOpen
  <2>2. /\ Reached = candle.openTime /\ Reached' = candle.openTime
        /\ phase \notin Broken
    BY <2>1 DEF Reached, Broken
  <2> QED
    BY <1>1, <2>1, <2>2, FundingStands
<1>3. CASE OrdersFilled
  <2>1. /\ phase = "orders" /\ phase' = "funding"
        /\ UNCHANGED <<candle, cursor, position, trade, evidence>>
    BY <1>3 DEF OrdersFilled, tape, books
  <2>2. cursor = candle.openTime
    BY <2>1 DEF Audited, Settlement, Running, Ended
  <2>3. /\ Reached = candle.openTime /\ Reached' = candle.openTime
        /\ phase \notin Broken
    BY <2>1, <2>2 DEF Reached, Broken
  <2> QED
    BY <1>1, <2>1, <2>3, FundingStands
<1>4. CASE FundingSettled
  <2>1. /\ phase = "funding" /\ phase' = "triggers"
        /\ UNCHANGED <<candle, cursor, position, trade, evidence>>
    BY <1>4 DEF FundingSettled, tape, books
  <2>2. /\ Reached = cursor /\ Reached' = candle.closeTime
        /\ phase \notin Broken /\ cursor <= candle.closeTime
    BY <2>1 DEF Reached, Broken, OnGrid
  <2> QED
    BY <1>1, <2>1, <2>2, FundingStands
<1>5. CASE NoSignal
  <2>1. /\ phase = "analyze" /\ phase' \in {"gap", "turn"}
        /\ UNCHANGED <<candle, position, trade, evidence>>
    BY <1>5 DEF NoSignal, Analyzed, tape, books
  <2>2. /\ Reached = candle.closeTime /\ Reached' = candle.closeTime
        /\ phase \notin Broken
    BY <2>1 DEF Reached, Broken
  <2> QED
    BY <1>1, <2>1, <2>2, FundingStands
<1>6. CASE NextCandle
  <2>1. /\ phase = "turn" /\ phase' = "open" /\ next # None /\ candle' = next
        /\ UNCHANGED <<position, trade, evidence>>
    BY <1>6 DEF NextCandle, books
  <2>2. candle.closeTime <= next.openTime /\ next.openTime \in Nat
    BY <2>1 DEF Audited, OnTape, Solvent, Typed, CandleType
  <2>3. /\ Reached = candle.closeTime /\ Reached' = next.openTime
        /\ phase \notin Broken
    BY <2>1 DEF Reached, Broken
  <2> QED
    BY <1>1, <2>1, <2>2, <2>3, FundingStands
<1>7. CASE UNCHANGED vars
  BY <1>7 DEF vars, FundingKept, Reached
<1>8. CASE \E s \in Protections :
              \/ ExitSignal(s) \/ AmbiguousSignal(s)
              \/ \E qty \in 1 .. MaxQty, within \in BOOLEAN :
                     EntrySignal(s, qty, within)
  BY <1>8, DecisionsKeepFunding
<1> QED
  BY <1>2, <1>3, <1>4, <1>5, <1>6, <1>7, <1>8, FillOrderKeepsFunding,
     SettleCrossedKeepsFunding, WalkTriggersKeepsFunding, MarkGridKeepsFunding,
     CloseAtDataGapKeepsFunding, FinalizeKeepsFunding DEF Next

\* The audit adds up the payments of a trade's rows.
LEMMA PaymentsAreSummed ==
    ASSUME evidence \in Seq(EvidenceType),
           NEW rows \in SUBSET SettlementRows(evidence)
    PROVE  MapThenSumSet(LAMBDA j : -evidence[j].payment, rows)
               = SumOver(Payments(evidence), rows)
<1> DEFINE w == Payments(evidence)
           h == CHOOSE g : g =
                  [s \in SUBSET rows |->
                      IF s = {} THEN 0
                      ELSE -evidence[CHOOSE x \in s : TRUE].payment
                             + g[s \ {CHOOSE x \in s : TRUE}]]
<1>1. MapThenSumSet(LAMBDA j : -evidence[j].payment, rows) = h[rows]
  BY DEF MapThenSumSet, MapThenFoldSet
<1>2. IsFiniteSet(rows) /\ Weighs(w, rows)
  <2>1. DOMAIN evidence = 1 .. Len(evidence) /\ Len(evidence) \in Nat
    BY LenProperties
  <2>2. IsFiniteSet(1 .. Len(evidence)) /\ rows \subseteq 1 .. Len(evidence)
    BY <2>1, FS_Interval DEF SettlementRows
  <2>3. ASSUME NEW j \in rows PROVE w[j] \in Int
    <3>1. evidence[j] \in EvidenceType /\ evidence[j].table = "FUNDING_SETTLEMENT"
      BY <2>1, ElementOfSeq DEF SettlementRows
    <3>2. evidence[j].payment \in Int
      BY <3>1 DEF EvidenceType
    <3> QED
      BY <3>2 DEF Payments
  <2> QED
    BY <2>2, <2>3, FS_Subset DEF Weighs
<1>3. PICK g : IsTable(g, w, rows) /\ SumOver(w, rows) = g[rows]
  BY <1>2, SumHasTable
<1>4. ASSUME NEW s \in SUBSET rows, s # {}
      PROVE  w[CHOOSE x \in s : TRUE] = -evidence[CHOOSE x \in s : TRUE].payment
  BY <1>4 DEF Payments
<1> HIDE DEF w
<1>5. g = [s \in SUBSET rows |->
              IF s = {} THEN 0
              ELSE -evidence[CHOOSE x \in s : TRUE].payment
                     + g[s \ {CHOOSE x \in s : TRUE}]]
  BY <1>3, <1>4 DEF IsTable
<1>6. h = [s \in SUBSET rows |->
              IF s = {} THEN 0
              ELSE -evidence[CHOOSE x \in s : TRUE].payment
                     + h[s \ {CHOOSE x \in s : TRUE}]]
  BY <1>5
<1> HIDE DEF h
<1>7. IsTable(h, w, rows)
  BY <1>4, <1>6 DEF IsTable
<1>8. h[rows] = g[rows]
  BY <1>2, <1>3, <1>7, TablesAgree
<1> QED
  BY <1>1, <1>3, <1>8 DEF w

LEMMA KeptBillsAreClean ==
    ASSUME Audited, FundingKept
    PROVE  FundingAuditClean
<1>1. Billing(evidence) /\ evidence \in Seq(EvidenceType)
  BY DEF FundingKept, Audited, SoundLog
<1> SUFFICES ASSUME NEW i \in Rows("TRADE")
             PROVE
      LET t == evidence[i]
          rows == {j \in Rows("FUNDING_SETTLEMENT") : evidence[j].trade = t.id}
          expected == {b \in t.entered + 1 .. t.exited : b % FundingEvery = 0}
      IN  /\ {evidence[j].at : j \in rows} = expected
          /\ Cardinality(rows) = Cardinality(expected)
          /\ MapThenSumSet(LAMBDA j : -evidence[j].payment, rows) = t.funding
          /\ \A j \in rows :
                 evidence[j].payment # evidence[j].theoretical =>
                     /\ evidence[j].payment > evidence[j].theoretical
                     /\ t.reason = "LIQUIDATION"
                     /\ t.exited = evidence[j].at + 1
  BY DEF FundingAuditClean
<1> DEFINE t == evidence[i]
           rows == RowsOf(evidence, t.id)
           expected == Boundaries(t.entered, t.exited)
<1>2. rows \in SUBSET SettlementRows(evidence)
  BY DEF RowsOf
<1>3. Bills(evidence, rows, expected, t.funding)
      /\ \A j \in rows : EndsIfCapped(evidence[j], t.exited, t.reason)
  BY <1>1 DEF Billing, ClosedBill, TradeRows, Rows
<1>4. /\ {j \in Rows("FUNDING_SETTLEMENT") : evidence[j].trade = t.id} = rows
      /\ {b \in t.entered + 1 .. t.exited : b % FundingEvery = 0} = expected
  BY DEF RowsOf, SettlementRows, Rows, Boundaries
<1> HIDE DEF rows, expected, t
<1>5. Cardinality(rows) = Cardinality(expected)
  <2> DEFINE f == [j \in rows |-> evidence[j].at]
  <2>1. IsFiniteSet(rows)
    BY <1>1, <1>2, BillsStand DEF Grows
  <2>2. \A x, y \in rows : f[x] = f[y] => x = y
    BY <1>3 DEF Bills
  <2>3. {f[x] : x \in rows} = expected
    BY <1>3 DEF Bills
  <2> HIDE DEF f
  <2>4. Cardinality({f[x] : x \in rows}) = Cardinality(rows)
    BY <2>1, <2>2, ImageCount
  <2> QED
    BY <2>3, <2>4
<1>6. MapThenSumSet(LAMBDA j : -evidence[j].payment, rows) = t.funding
  BY <1>1, <1>2, <1>3, PaymentsAreSummed DEF Bills
<1>7. \A j \in rows :
          evidence[j].payment # evidence[j].theoretical =>
              /\ evidence[j].payment > evidence[j].theoretical
              /\ t.reason = "LIQUIDATION"
              /\ t.exited = evidence[j].at + 1
  BY <1>3 DEF EndsIfCapped, Capped
<1>8. {evidence[j].at : j \in rows} = expected
  BY <1>3 DEF Bills
<1> QED
  BY <1>4, <1>5, <1>6, <1>7, <1>8 DEF t

(* _funding_failures of the audit finds nothing: of every completed trade each
   boundary in (entry, exit] was charged exactly once, the rows add up to its
   funding cost, and only its end capped a payment.  ClosesOffBoundaries is
   needed: an exit after a close is stamped one past it, after the last
   boundary the loop charges. *)
THEOREM FundingIsChargedOnce ==
    ASSUME ClosesOffBoundaries
    PROVE  Spec => []FundingAuditClean
<1>1. Init => OnGrid /\ FundingKept
  BY InitOnGrid, InitKeepsFunding
<1>2. /\ OnGrid /\ FundingKept /\ Solvent /\ Audited /\ [Next]_vars
      => OnGrid' /\ FundingKept'
  BY StepsOnGrid, StepsKeepFunding
<1>3. Audited /\ FundingKept => FundingAuditClean
  BY KeptBillsAreClean
<1> QED
  BY <1>1, <1>2, <1>3, AlwaysAudited, PTL DEF Spec

(* EngineInv, what holds of the books and of the audited rows after every
   step of the loop. *)
THEOREM BooksAndRowsHold ==
    ASSUME ClosesOffBoundaries
    PROVE  Spec => []EngineInv
<1>1. TypeOK /\ FundingAuditClean /\ SurvivorsStayInside /\ CashIsNetOfTrades
      => EngineInv
  BY DEF EngineInv
<1> QED
  BY <1>1, EngineIsTyped, FundingIsChargedOnce, SurvivorsAreInside,
     CashFollowsResults, PTL
=============================================================================

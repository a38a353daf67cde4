-------------------------- MODULE CollectorProofs --------------------------
(***************************************************************************)
(* For any horizon, page sizes, requests and number of faults, and         *)
(* whatever the clock does, the collector implements the table its readers *)
(* rely on, the live collector stores final values only, a backfill leaves *)
(* nothing out and no hole goes unreported.                                *)
(***************************************************************************)
EXTENDS Collector, TLAPS, FiniteSetTheorems

\* A batch that may be written holds closed minutes.
Closed(batch) == \A m \in DOMAIN batch : m < now /\ batch[m] \in {"partial", "final"}
Final(batch) == \A m \in DOMAIN batch : batch[m] = "final"

\* The live collector never holds an open minute, nor the values of one.
LiveInHand ==
    /\ DOMAIN live = {"pc", "polled", "batch"}
    /\ DOMAIN live.batch \subseteq Minutes
    /\ Closed(live.batch) /\ Final(live.batch)

\* A page to be saved has no minute that is still open.
PageInHand ==
    /\ DOMAIN backfill = {"pc", "kind", "start", "end", "cursor", "page"}
    /\ DOMAIN backfill.page \subseteq Minutes
    /\ \A m \in DOMAIN backfill.page : backfill.page[m] \in {"partial", "final"}
    /\ backfill.pc = "save" /\ backfill.kind = "ohlcv" => Closed(backfill.page)

\* The strengthening of ImplementsStore that is inductive.
TableInv ==
    /\ now \in Minutes
    /\ rows \in Rows
    /\ LiveInHand
    /\ PageInHand

-----------------------------------------------------------------------------
\* Upserting closed minutes is the arrival of those that were missing: what it
\* overwrites stays in the table, whatever its values (upsert_batch).
LEMMA UpsertIsArrival ==
    ASSUME rows \in Rows, UNCHANGED now,
           NEW batch, DOMAIN batch \subseteq Minutes, Closed(batch),
           rows' = Upserted(batch)
    PROVE  /\ rows' \in Rows
           /\ Store!MinutesArrive
<1> DEFINE arriving == {m \in DOMAIN batch : m \notin StoredMinutes}
<1>1. rows' = [m \in Minutes |-> IF m \in DOMAIN batch THEN batch[m] ELSE rows[m]]
  BY DEF Upserted
<1>2. StoredMinutes' = StoredMinutes \cup arriving
  BY <1>1 DEF Closed, StoredMinutes
<1>3. arriving \in SUBSET {m \in 0 .. Horizon : m < now /\ m \notin StoredMinutes}
  BY DEF Closed, Minutes
<1>4. rows' \in Rows
  BY <1>1 DEF Rows, Closed
<1> QED
  BY <1>2, <1>3, <1>4 DEF Store!MinutesArrive, Store!Minutes

\* A listing up to the minute in progress has the final values of closed ones.
LEMMA ListedValues ==
    ASSUME NEW minutes
    PROVE  /\ DOMAIN Listed(minutes) = minutes
           /\ \A m \in minutes :
                 Listed(minutes)[m] = IF m < now THEN "final" ELSE "partial"
BY DEF Listed

\* The listing of a live poll without its last row holds closed minutes only
\* (fetch_completed_candles), whether or not the exchange lags.
LEMMA CompletedAreClosed ==
    ASSUME now \in Minutes, NEW newest \in Newest
    PROVE  /\ DOMAIN CompletedOf(newest) \subseteq Minutes
           /\ Closed(CompletedOf(newest)) /\ Final(CompletedOf(newest))
<1>1. now \in Int /\ newest \in Int /\ newest <= now
  BY CollectorAssumption DEF Minutes, Newest
<1>2. \A m \in Minutes : m \in Int
  BY CollectorAssumption DEF Minutes
<1> QED
  BY <1>1, <1>2 DEF CompletedOf, Listed, Closed, Final

\* While neither the clock nor what a writer has changes, it stays in hand.
LEMMA LiveIdle ==
    ASSUME TableInv, UNCHANGED <<now, live>>
    PROVE  LiveInHand'
BY DEF TableInv, LiveInHand, Closed, Final

LEMMA PageIdle ==
    ASSUME TableInv, UNCHANGED <<now, backfill>>
    PROVE  PageInHand'
BY DEF TableInv, PageInHand, Closed

\* The minutes are closed for ever after.
LEMMA TickKeepsTable ==
    ASSUME TableInv, CollectorTick
    PROVE  TableInv' /\ Store!Tick
<1>1. /\ now < Horizon /\ now' = now + 1
      /\ UNCHANGED <<rows, live, backfill>>
  BY DEF CollectorTick, collectorVars
<1>2. now' \in Minutes /\ now \in Int /\ \A m \in Minutes : m \in Int
  BY <1>1, CollectorAssumption DEF TableInv, Minutes
<1>3. \A m \in Minutes : m < now => m < now'
  BY <1>1, <1>2
<1>4. LiveInHand'
  BY <1>1, <1>3 DEF TableInv, LiveInHand, Closed, Final
<1>5. PageInHand'
  BY <1>1, <1>3 DEF TableInv, PageInHand, Closed
<1>6. StoredMinutes' = StoredMinutes
  BY <1>1 DEF StoredMinutes
<1> QED
  BY <1>1, <1>2, <1>4, <1>5, <1>6 DEF TableInv, Store!Tick

\* A step of the live collector.
LEMMA LiveKeepsTable ==
    ASSUME TableInv, LiveStep \/ LiveFails \/ LiveCrash
    PROVE  TableInv' /\ (Store!MinutesArrive \/ UNCHANGED <<now, rows>>)
<1>1. UNCHANGED <<now, backfill>>
  BY DEF LiveStep, LiveStart, LivePoll, LiveCompare, LiveUpsert, LiveFails, LiveCrash
<1>2. PageInHand'
  BY <1>1, PageIdle
<1>3. CASE LivePoll
  <2>1. PICK newest \in Newest :
           live' = [pc |-> "fetched", polled |-> now, batch |-> CompletedOf(newest)]
    BY <1>3 DEF LivePoll
  <2>2. LiveInHand'
    BY <1>1, <2>1, CompletedAreClosed DEF TableInv, LiveInHand, Closed, Final
  <2> QED
    BY <1>1, <1>2, <1>3, <2>2 DEF TableInv, LivePoll
<1>4. CASE LiveCompare
  <2>1. PICK fresh \in SUBSET DOMAIN live.batch :
           live' = [live EXCEPT !.pc = IF fresh = {} THEN "idle" ELSE "compared",
                                !.batch = [m \in fresh |-> live.batch[m]]]
    BY <1>4 DEF LiveCompare
  <2>2. LiveInHand'
    BY <1>1, <2>1 DEF TableInv, LiveInHand, Closed, Final
  <2> QED
    BY <1>1, <1>2, <1>4, <2>2 DEF TableInv, LiveCompare
<1>5. CASE LiveUpsert
  <2>1. rows' = Upserted(live.batch)
    BY <1>5 DEF LiveUpsert
  <2>2. rows' \in Rows /\ Store!MinutesArrive
    BY <1>1, <2>1, UpsertIsArrival DEF TableInv, LiveInHand
  <2>3. LiveInHand'
    BY <1>1, <1>5 DEF TableInv, LiveInHand, LiveUpsert, Closed, Final, NoBatch
  <2> QED
    BY <1>1, <1>2, <2>2, <2>3 DEF TableInv
<1>6. CASE LiveStart \/ LiveFails \/ LiveCrash
  <2>0. DOMAIN live' = {"pc", "polled", "batch"} /\ live'.batch = NoBatch
    <3>1. CASE LiveStart
      BY <3>1 DEF LiveStart
    <3>2. CASE LiveFails \/ LiveCrash
      BY <3>2 DEF TableInv, LiveInHand, LiveFails, LiveCrash
    <3> QED
      BY <1>6, <3>1, <3>2
  <2>1. LiveInHand'
    BY <2>0 DEF LiveInHand, Closed, Final, NoBatch
  <2> QED
    BY <1>1, <1>2, <1>6, <2>1 DEF TableInv, LiveStart, LiveFails, LiveCrash
<1> QED
  BY <1>3, <1>4, <1>5, <1>6 DEF LiveStep

\* A step of a backfill, or the start of one.
LEMMA BackfillKeepsTable ==
    ASSUME TableInv,
           \/ \E request \in Requests, selected \in BOOLEAN :
                 BackfillStart(request, selected)
           \/ BackfillStep \/ BackfillDies
    PROVE  TableInv' /\ (Store!MinutesArrive \/ UNCHANGED <<now, rows>>)
<1>1. UNCHANGED <<now, live>>
  BY DEF BackfillStart, BackfillStep, BackfillFetch, BackfillSift, BackfillSave, BackfillDies
<1>2. LiveInHand'
  BY <1>1, LiveIdle
<1>3. CASE \E request \in Requests, selected \in BOOLEAN : BackfillStart(request, selected)
  <2>1. PICK request \in Requests :
           backfill' = [pc |-> "page", kind |-> request.kind,
                        start |-> request.start, end |-> request.end,
                        cursor |-> request.start, page |-> NoBatch]
    BY <1>3 DEF BackfillStart
  <2>2. PageInHand'
    BY <2>1 DEF PageInHand, NoBatch
  <2> QED
    BY <1>1, <1>2, <1>3, <2>2 DEF TableInv, BackfillStart
<1>4. CASE BackfillFetch
  <2>1. PICK newest \in Newest : \E times \in SUBSET (0 .. newest) :
           backfill' = [backfill EXCEPT !.pc = "sift", !.page = Listed(PageOf(times))]
    BY <1>4 DEF BackfillFetch
  <2>2. PICK times \in SUBSET (0 .. newest) :
           backfill' = [backfill EXCEPT !.pc = "sift", !.page = Listed(PageOf(times))]
    BY <2>1
  <2>3. PageOf(times) \subseteq Minutes
    <3>1. now \in Int /\ newest \in Int /\ newest <= now /\ now <= Horizon
      BY CollectorAssumption DEF TableInv, Minutes, Newest
    <3>2. PageOf(times) \subseteq times
      BY DEF PageOf
    <3>3. \A t \in times : t \in 0 .. Horizon
      BY <3>1, CollectorAssumption
    <3> QED
      BY <3>2, <3>3 DEF Minutes
  <2>4. PageInHand'
    BY <1>1, <2>2, <2>3, ListedValues DEF TableInv, PageInHand
  <2> QED
    BY <1>1, <1>2, <1>4, <2>4 DEF TableInv, BackfillFetch
<1>5. CASE BackfillSift
  <2>1. backfill' = [backfill EXCEPT
                       !.pc = IF KeptOf(backfill.page) = {} THEN "done" ELSE "save",
                       !.page = [m \in KeptOf(backfill.page) |-> backfill.page[m]]]
    BY <1>5 DEF BackfillSift
  <2>2. \A m \in KeptOf(backfill.page) :
           /\ m \in DOMAIN backfill.page
           /\ backfill.kind = "ohlcv" => m < now
    BY <1>5, CollectorAssumption DEF BackfillSift, KeptOf, TableInv, PageInHand, Minutes
  <2>3. PageInHand'
    BY <1>1, <2>1, <2>2 DEF TableInv, PageInHand, Closed
  <2> QED
    BY <1>1, <1>2, <1>5, <2>3 DEF TableInv, BackfillSift
<1>6. CASE BackfillSave
  <2> DEFINE batch == [m \in {m \in DOMAIN backfill.page :
                               backfill.start <= m /\ m < backfill.end}
                        |-> backfill.page[m]]
  <2>1. backfill'.page = NoBatch /\ backfill'.pc \in {"page", "done"}
        /\ DOMAIN backfill' = DOMAIN backfill
    BY <1>6 DEF BackfillSave, TableInv, PageInHand
  <2>2. PageInHand'
    BY <2>1 DEF TableInv, PageInHand, NoBatch
  <2>3. CASE backfill.kind = "ohlcv"
    <3>1. rows' = Upserted(batch)
      BY <1>6, <2>3 DEF BackfillSave
    <3>2. DOMAIN batch \subseteq Minutes /\ Closed(batch)
      BY <1>6, <2>3 DEF BackfillSave, TableInv, PageInHand, Closed
    <3>3. rows' \in Rows /\ Store!MinutesArrive
      BY <1>1, <3>1, <3>2, UpsertIsArrival DEF TableInv
    <3> QED
      BY <1>1, <1>2, <2>2, <3>3 DEF TableInv
  <2>4. CASE backfill.kind # "ohlcv"
    BY <1>1, <1>2, <1>6, <2>2, <2>4 DEF TableInv, BackfillSave
  <2> QED
    BY <2>3, <2>4
<1>7. CASE BackfillDies
  <2>1. backfill'.page = NoBatch /\ backfill'.pc = "off"
        /\ DOMAIN backfill' = DOMAIN backfill
    BY <1>7 DEF BackfillDies, TableInv, PageInHand
  <2>2. PageInHand'
    BY <2>1 DEF TableInv, PageInHand, NoBatch
  <2> QED
    BY <1>1, <1>2, <1>7, <2>2 DEF TableInv, BackfillDies
<1> QED
  BY <1>3, <1>4, <1>5, <1>6, <1>7 DEF BackfillStep

-----------------------------------------------------------------------------
\* The table starts with the closed minutes that are not missing.
LEMMA TableInit ==
    ASSUME Init
    PROVE  TableInv /\ Store!StoreInit
<1>1. now \in Minutes /\ rows \in Rows
  BY CollectorAssumption DEF Init, Minutes, Rows
<1>2. LiveInHand /\ PageInHand
  BY DEF Init, LiveInHand, PageInHand, Closed, Final, NoBatch
<1>3. StoredMinutes = {m \in 0 .. Horizon : m < Now0 /\ m \notin Gaps0}
  BY DEF Init, StoredMinutes, Minutes
<1> QED
  BY <1>1, <1>2, <1>3 DEF TableInv, Init, Store!StoreInit, Store!Minutes

\* Every step keeps the invariant and is a step of the table, or none.
LEMMA TableStep ==
    ASSUME TableInv, [Next]_vars
    PROVE  TableInv' /\ [Store!StoreNext]_<<now, StoredMinutes>>
<1>0. UNCHANGED <<now, rows>> => UNCHANGED <<now, StoredMinutes>>
  BY DEF StoredMinutes
<1>1. CASE LiveStep \/ LiveFails \/ LiveCrash
  BY <1>0, <1>1, LiveKeepsTable DEF Store!StoreNext
<1>2. CASE \/ \E request \in Requests, selected \in BOOLEAN :
                 BackfillStart(request, selected)
           \/ BackfillStep \/ BackfillDies
  BY <1>0, <1>2, BackfillKeepsTable DEF Store!StoreNext
<1>3. CASE CollectorTick
  BY <1>3, TickKeepsTable DEF Store!StoreNext
<1>4. CASE UNCHANGED vars
  <2>1. UNCHANGED <<now, rows, live, backfill>>
    BY <1>4 DEF vars, collectorVars
  <2> QED
    BY <1>0, <2>1, LiveIdle, PageIdle DEF TableInv
<1> QED
  BY <1>1, <1>2, <1>3, <1>4 DEF Next

LEMMA TableHolds == Spec => []TableInv
<1>1. Init => TableInv
  BY TableInit
<1>2. TableInv /\ [Next]_vars => TableInv'
  BY TableStep
<1> QED
  BY <1>1, <1>2, PTL DEF Spec

\* For any horizon, page sizes, requests and faults, and whatever the clock does
\* between a response and its reading, the collector implements the table its
\* readers rely on: rows of closed minutes appear, and none is lost
\* (upsert_batch, fetch_completed_candles, fetch_ohlcv_page).
THEOREM CollectorImplementsStore == Spec => ImplementsStore
<1>1. TableInv /\ [Next]_vars => [Store!StoreNext]_<<now, StoredMinutes>>
  BY TableStep
<1>2. Init => Store!StoreInit
  BY TableInit
<1> QED
  BY <1>1, <1>2, TableHolds, PTL DEF Spec, ImplementsStore, Store!StoreSpec

\* The live collector leaves the values of a minute in progress in no row: it
\* drops the last row it is listed, however long it then holds the others, and
\* so where such a row is found a backfill wrote it (fetch_completed_candles,
\* collect_once; collector_partial shows the backfill).
THEOREM LiveRowsAreFinal == Spec => LiveStoresFinalRows
<1> DEFINE Worse(m) == rows'[m] = "partial" /\ rows[m] # "partial"
<1>1. ASSUME TableInv, LiveUpsert
      PROVE  \A m \in Minutes : ~Worse(m)
  BY <1>1 DEF LiveUpsert, Upserted, TableInv, LiveInHand, Final
<1>2. ASSUME UNCHANGED rows
      PROVE  \A m \in Minutes : ~Worse(m)
  BY <1>2
<1>3. Next => BackfillSave \/ LiveUpsert \/ UNCHANGED rows
  BY DEF Next, LiveStep, LiveStart, LivePoll, LiveCompare, LiveFails, LiveCrash, BackfillStart,
         BackfillStep, BackfillFetch, BackfillSift, BackfillDies, CollectorTick
<1>4. TableInv /\ [Next]_vars
        => [\A m \in Minutes : Worse(m) => BackfillSave]_vars
  BY <1>1, <1>2, <1>3
<1> QED
  BY <1>4, TableHolds, PTL DEF Spec, LiveStoresFinalRows

-----------------------------------------------------------------------------
(* Lemmas about the sets of minutes the collector takes from a page.       *)

\* A set of minutes that is not empty has a latest one, which MAX() returns.
LEMMA HighestMinute ==
    ASSUME NEW S \in SUBSET Minutes, S # {}
    PROVE  HighestOf(S) \in S /\ \A n \in S : n <= HighestOf(S)
<1> DEFINE later(m) == {n \in S : n > m}
           R == StrictSubsetOrdering(Minutes)
           T == {later(m) : m \in S}
<1>1. IsFiniteSet(Minutes) /\ \A m \in Minutes : m \in Int
  BY FS_Interval, CollectorAssumption DEF Minutes
<1>2. IsWellFoundedOn(R, SUBSET Minutes)
  BY <1>1, FS_StrictSubsetOrderingWellFounded, FS_FiniteSubsetsOfFinite
<1>3. T \subseteq SUBSET Minutes /\ T # {}
  OBVIOUS
<1>4. PICK x \in T : \A y \in T : ~ (<<y, x>> \in R)
  <2> HIDE DEF R, T
  <2> QED
    BY <1>2, <1>3, WFMin
<1>5. PICK m \in S : x = later(m)
  BY <1>4
<1>6. ASSUME NEW n \in S, n > m
      PROVE  FALSE
  <2>1. later(n) \in T /\ later(n) \subseteq later(m) /\ later(n) # later(m)
    <3>1. n \in later(m) /\ n \notin later(n)
      BY <1>1, <1>6
    <3>2. later(n) \subseteq later(m)
      BY <1>1, <1>6
    <3> QED
      BY <3>1, <3>2, <1>6
  <2>2. <<later(n), later(m)>> \in R
    BY <2>1, <1>3, <1>5 DEF StrictSubsetOrdering
  <2> QED
    BY <1>4, <1>5, <2>1, <2>2
<1>7. \A n \in S : m >= n
  BY <1>1, <1>5, <1>6
<1>8. HighestOf(S) \in S /\ \A n \in S : HighestOf(S) >= n
  BY <1>5, <1>7 DEF HighestOf
<1> QED
  BY <1>1, <1>8

\* A page is the listed times from the cursor up to its last one (the limit cuts
\* the later ones off).
LEMMA PageIsAPrefix ==
    ASSUME NEW times \in SUBSET Minutes, backfill.cursor \in Int
    PROVE  /\ PageOf(times) \subseteq times
           /\ \A m \in PageOf(times), t \in times :
                 backfill.cursor <= t /\ t <= m => t \in PageOf(times)
<1> DEFINE before(t) == {u \in times : backfill.cursor <= u /\ u < t}
<1>1. SUFFICES ASSUME NEW m \in PageOf(times), NEW t \in times,
                      backfill.cursor <= t, t <= m
               PROVE  t \in PageOf(times)
  BY DEF PageOf
<1>2. \A u \in Minutes : u \in Int
  BY CollectorAssumption DEF Minutes
<1>3. m \in times /\ Cardinality(before(m)) < PageLimit
  BY <1>1 DEF PageOf
<1>4. before(t) \subseteq before(m)
  BY <1>1, <1>2, <1>3
<1>5. IsFiniteSet(before(m))
  <2>1. IsFiniteSet(Minutes)
    BY FS_Interval, CollectorAssumption DEF Minutes
  <2> QED
    BY <2>1, FS_Subset
<1>6. /\ Cardinality(before(t)) <= Cardinality(before(m))
      /\ Cardinality(before(t)) \in Nat /\ Cardinality(before(m)) \in Nat
  BY <1>4, <1>5, FS_Subset, FS_CardinalityType
<1>7. Cardinality(before(t)) < PageLimit
  BY <1>3, <1>6, CollectorAssumption
<1> QED
  BY <1>1, <1>7 DEF PageOf

-----------------------------------------------------------------------------
(* What is missing from the tables, whatever the clock does.               *)

\* A batch in hand has the values of minutes of the model.
Batch(b) ==
    /\ DOMAIN b \subseteq Minutes
    /\ \A m \in DOMAIN b : b[m] \in {"partial", "final"}

\* Types, with the fields and the values TypeOK does not look into.
CollectorTypes ==
    /\ TypeOK
    /\ StoredMinutes # {}
    /\ DOMAIN live = {"pc", "polled", "batch"} /\ Batch(live.batch)
    /\ DOMAIN backfill = {"pc", "kind", "start", "end", "cursor", "page"}
    /\ Batch(backfill.page)

\* Rows that wait to be upserted lie beyond a minute that is stored, and what
\* lies between that minute and them is with them or was reported.
GapsInHand ==
    live.pc = "compared" =>
        \E latest \in StoredMinutes :
            /\ \A f \in DOMAIN live.batch : latest < f
            /\ \A f \in DOMAIN live.batch, m \in Minutes :
                  latest < m /\ m < f => m \in DOMAIN live.batch \cup found

\* The times a backfill asks for.
Wanted(t) == backfill.kind = "ohlcv" \/ t % FundingEvery = 0

\* A page in hand leaves out none of those between the cursor and its end.
PageIsWhole ==
    /\ backfill.pc = "save" => DOMAIN backfill.page # {}
    /\ backfill.pc \in {"sift", "save"} =>
          \A m \in DOMAIN backfill.page, t \in Minutes :
              backfill.cursor <= t /\ t <= m /\ Wanted(t)
                  => t \in DOMAIN backfill.page

\* The strengthening of the two properties that is inductive.
CompletenessInv ==
    /\ CollectorTypes
    /\ GapsInHand /\ HolesAreReported
    /\ PageIsWhole /\ BackfillLeavesNothing

\* What an upsert does to the stored minutes: none is lost, and the others are
\* of the batch.
LEMMA UpsertStores ==
    ASSUME rows \in Rows, NEW batch, Batch(batch), rows' = Upserted(batch)
    PROVE  /\ rows' \in Rows
           /\ StoredMinutes' = StoredMinutes \cup DOMAIN batch
BY DEF Rows, Batch, Upserted, StoredMinutes

\* Holes in terms of the stored minutes.
LEMMA HoleIsBetween ==
    HolesOf(rows) = {m \in Minutes : /\ m \notin StoredMinutes
                                     /\ \E n \in StoredMinutes : n < m
                                     /\ \E n \in StoredMinutes : n > m}
BY DEF HolesOf, StoredMinutes

LEMMA MinutesAreIntegers ==
    /\ Minutes \subseteq Nat /\ 0 \in Minutes
    /\ \A m \in Minutes : m + 1 \in 0 .. Horizon + 1 /\ m \in 0 .. Horizon + 1
BY CollectorAssumption DEF Minutes

\* The health record stays well-formed.
LEMMA HealthTypes ==
    ASSUME NEW h \in HealthRecords(Minutes), NEW t \in Minutes
    PROVE  /\ {MarkRunning(h, t), RecordPoll(h, t), RecordPollError(h),
               RecordPollSuccess(h, FALSE), MarkStopped(h)}
                  \subseteq HealthRecords(Minutes)
<1>1. h.errors \in Streak /\ Longer(h.errors) \in Streak /\ 0 \in Streak
  BY HealthAssumption DEF HealthRecords, Streak, Longer
<1>2. MarkRunning(h, t) \in HealthRecords(Minutes)
  BY <1>1 DEF HealthRecords, MarkRunning
<1>3. RecordPoll(h, t) \in HealthRecords(Minutes)
  BY DEF HealthRecords, RecordPoll
<1>4. RecordPollError(h) \in HealthRecords(Minutes)
  BY <1>1 DEF HealthRecords, RecordPollError
<1>5. RecordPollSuccess(h, FALSE) \in HealthRecords(Minutes)
  BY <1>1 DEF HealthRecords, RecordPollSuccess
<1>6. MarkStopped(h) \in HealthRecords(Minutes)
  BY DEF HealthRecords, MarkStopped
<1> QED
  BY <1>2, <1>3, <1>4, <1>5, <1>6

\* What the other writer leaves alone is kept, as stored minutes stay stored.
LEMMA LiveUntouched ==
    ASSUME GapsInHand, UNCHANGED <<live, found>>, StoredMinutes \subseteq StoredMinutes'
    PROVE  GapsInHand'
BY DEF GapsInHand

LEMMA BackfillUntouched ==
    ASSUME PageIsWhole, BackfillLeavesNothing, UNCHANGED <<backfill, funding>>,
           StoredMinutes \subseteq StoredMinutes'
    PROVE  PageIsWhole' /\ BackfillLeavesNothing'
BY DEF PageIsWhole, Wanted, BackfillLeavesNothing

LEMMA TableUntouched ==
    ASSUME HolesAreReported, UNCHANGED rows, found \subseteq found', UNCHANGED bridged
    PROVE  HolesAreReported' /\ StoredMinutes' = StoredMinutes
BY DEF HolesAreReported, HolesOf, StoredMinutes

-----------------------------------------------------------------------------
LEMMA CompletenessInit ==
    ASSUME Init
    PROVE  CompletenessInv
<1>1. now = Now0 /\ now \in Minutes /\ rows \in Rows
  BY CollectorAssumption DEF Init, Minutes, Rows
<1>2. StoredMinutes = (0 .. Now0 - 1) \ Gaps0
  BY CollectorAssumption DEF Init, StoredMinutes, Minutes
<1>3. StoredMinutes # {}
  BY <1>2, CollectorAssumption, CollectorAssumption
<1>4. liveHealth \in HealthRecords(Minutes)
  BY MinutesAreIntegers, HealthAssumption
     DEF Init, NewHealth, HealthRecords, Streak
<1>5. TypeOK
  <2>1. live.pc = "off" /\ live.polled \in Minutes /\ DOMAIN live.batch = {}
    BY <1>1 DEF Init, NoBatch
  <2>2. /\ backfill.pc = "off" /\ backfill.kind = "ohlcv" /\ DOMAIN backfill.page = {}
        /\ {backfill.start, backfill.end, backfill.cursor} = {0}
    BY DEF Init, NoBatch
  <2>3. 0 \in 0 .. Horizon + 1 /\ 0 \in 0 .. MaxBackfills /\ 0 \in 0 .. MaxOutages
    BY MinutesAreIntegers, CollectorAssumption
  <2>4. universe = FALSE /\ found = {} /\ bridged = {} /\ funding = {}
        /\ backfills = 0 /\ outages = 0
    BY DEF Init
  <2> QED
    BY <1>1, <1>4, <2>1, <2>2, <2>3, <2>4 DEF TypeOK
<1>6. CollectorTypes
  BY <1>3, <1>5 DEF Init, CollectorTypes, Batch, NoBatch
<1>7. HolesAreReported
  <2>1. ASSUME NEW m \in HolesOf(rows)
        PROVE  m \in Gaps0
    <3>1. PICK n \in StoredMinutes : n > m
      BY HoleIsBetween
    <3>2. m \in Nat /\ m \notin StoredMinutes
      BY HoleIsBetween, MinutesAreIntegers
    <3> QED
      BY <1>2, <3>1, <3>2, CollectorAssumption
  <2> QED
    BY <2>1 DEF HolesAreReported
<1>8. GapsInHand /\ PageIsWhole /\ BackfillLeavesNothing
  BY DEF Init, GapsInHand, PageIsWhole, BackfillLeavesNothing
<1> QED
  BY <1>6, <1>7, <1>8 DEF CompletenessInv

LEMMA TickIsComplete ==
    ASSUME CompletenessInv, CollectorTick \/ UNCHANGED vars
    PROVE  CompletenessInv'
<1>1. UNCHANGED collectorVars /\ rows' = rows /\ now' \in Minutes
  <2>1. CASE CollectorTick
    BY <2>1, CollectorAssumption
       DEF CollectorTick, CompletenessInv, CollectorTypes, TypeOK, Minutes
  <2>2. CASE UNCHANGED vars
    BY <2>2 DEF vars, CompletenessInv, CollectorTypes, TypeOK
  <2> QED
    BY <2>1, <2>2
<1>2. HolesAreReported' /\ StoredMinutes' = StoredMinutes
  BY <1>1, TableUntouched DEF CompletenessInv, collectorVars
<1>3. TypeOK'
  BY <1>1 DEF CompletenessInv, CollectorTypes, TypeOK, collectorVars
<1>4. CollectorTypes'
  BY <1>1, <1>2, <1>3 DEF CompletenessInv, CollectorTypes, Batch, collectorVars
<1>5. GapsInHand' /\ PageIsWhole' /\ BackfillLeavesNothing'
  BY <1>1, <1>2, LiveUntouched, BackfillUntouched DEF CompletenessInv, collectorVars
<1> QED
  BY <1>2, <1>4, <1>5 DEF CompletenessInv

-----------------------------------------------------------------------------
LEMMA LiveIsComplete ==
    ASSUME CompletenessInv, LiveStep \/ LiveFails \/ LiveCrash
    PROVE  CompletenessInv'
<1> USE DEF CompletenessInv, CollectorTypes
<1>1. /\ UNCHANGED <<now, universe, backfill, funding, bridged, backfills>>
      /\ found \subseteq found'
  BY DEF LiveStep, LiveStart, LivePoll, LiveCompare, LiveUpsert, LiveFails, LiveCrash
<1>2. outages' \in 0 .. MaxOutages
  <2>1. outages' = outages \/ (outages < MaxOutages /\ outages' = outages + 1)
    <3>1. CASE LiveFails \/ LiveCrash
      BY <3>1 DEF LiveFails, LiveCrash, Fault
    <3>2. CASE LiveStep
      BY <3>2 DEF LiveStep, LiveStart, LivePoll, LiveCompare, LiveUpsert
    <3> QED
      BY <3>1, <3>2
  <2>2. outages \in 0 .. MaxOutages
    BY DEF TypeOK
  <2> QED
    BY <2>1, <2>2, CollectorAssumption
<1>3. liveHealth' \in HealthRecords(Minutes)
  <2>1. liveHealth' \in {liveHealth, MarkRunning(liveHealth, now),
                         RecordPoll(liveHealth, now), RecordPollError(liveHealth),
                         RecordPollSuccess(liveHealth, FALSE), MarkStopped(liveHealth)}
    BY DEF LiveStep, LiveStart, LivePoll, LiveCompare, LiveUpsert, LiveFails, LiveCrash
  <2>2. liveHealth \in HealthRecords(Minutes) /\ now \in Minutes
    BY DEF TypeOK
  <2> QED
    BY <2>1, <2>2, HealthTypes
<1>4. ASSUME /\ DOMAIN live' = {"pc", "polled", "batch"} /\ Batch(live'.batch)
             /\ live'.pc \in {"off", "idle", "fetched", "compared"}
             /\ live'.polled \in Minutes
             /\ rows' \in Rows /\ found' \subseteq Minutes
             /\ StoredMinutes \subseteq StoredMinutes'
             /\ GapsInHand' /\ HolesAreReported'
      PROVE  CompletenessInv'
  <2>1. TypeOK'
    BY <1>1, <1>2, <1>3, <1>4 DEF TypeOK, Batch
  <2>2. CollectorTypes'
    BY <1>1, <1>4, <2>1 DEF Batch
  <2>3. PageIsWhole' /\ BackfillLeavesNothing'
    BY <1>1, <1>4, BackfillUntouched
  <2> QED
    BY <1>4, <2>2, <2>3
<1>5. CASE LiveStart \/ LiveFails \/ LiveCrash
  <2>1. /\ DOMAIN live' = {"pc", "polled", "batch"} /\ live'.batch = NoBatch
        /\ live'.pc \in {"off", "idle"} /\ live'.polled \in Minutes
    <3>1. CASE LiveStart
      BY <3>1 DEF LiveStart, TypeOK
    <3>2. CASE LiveFails \/ LiveCrash
      BY <3>2 DEF LiveFails, LiveCrash, TypeOK
    <3> QED
      BY <1>5, <3>1, <3>2
  <2>2. rows' = rows /\ found' = found
    BY <1>5 DEF LiveStart, LiveFails, LiveCrash
  <2>3. HolesAreReported' /\ StoredMinutes' = StoredMinutes
    BY <1>1, <2>2, TableUntouched
  <2>4. Batch(live'.batch) /\ GapsInHand' /\ rows' \in Rows /\ found' \subseteq Minutes
    BY <2>1, <2>2 DEF Batch, NoBatch, GapsInHand, TypeOK
  <2> QED
    BY <1>4, <2>1, <2>3, <2>4
<1>6. CASE LivePoll
  <2>1. PICK newest \in Newest :
           live' = [pc |-> "fetched", polled |-> now, batch |-> CompletedOf(newest)]
    BY <1>6 DEF LivePoll
  <2>2. Batch(CompletedOf(newest))
    BY DEF Batch, CompletedOf, Listed
  <2>3. rows' = rows /\ found' = found
    BY <1>6 DEF LivePoll
  <2>4. HolesAreReported' /\ StoredMinutes' = StoredMinutes
    BY <1>1, <2>3, TableUntouched
  <2>5. GapsInHand' /\ rows' \in Rows /\ found' \subseteq Minutes /\ now \in Minutes
    BY <2>1, <2>3 DEF GapsInHand, TypeOK
  <2> QED
    BY <1>4, <2>1, <2>2, <2>4, <2>5
<1>7. CASE LiveCompare
  <2> DEFINE latest == HighestOf(StoredMinutes)
             fresh == {m \in DOMAIN live.batch : m > latest}
             gaps == GapsBefore(latest, fresh)
  <2>1. /\ found' = found \cup gaps /\ rows' = rows
        /\ live' = [live EXCEPT
                      !.pc = IF fresh = {} THEN "idle" ELSE "compared",
                      !.batch = [m \in fresh |-> live.batch[m]]]
    BY <1>7 DEF LiveCompare
  <2>2. latest \in StoredMinutes /\ StoredMinutes \subseteq Minutes
    BY HighestMinute DEF StoredMinutes
  <2>3. fresh \subseteq Minutes
    BY DEF Batch
  <2>4. ASSUME fresh # {}
        PROVE  /\ gaps = (latest + 1 .. HighestOf(fresh)) \ fresh
               /\ HighestOf(fresh) \in Minutes
               /\ \A f \in fresh : f <= HighestOf(fresh)
    <3> HIDE DEF fresh, latest
    <3> QED
      BY <2>3, <2>4, HighestMinute DEF GapsBefore
  <2>5. gaps \subseteq Minutes
    <3> HIDE DEF fresh, latest
    <3>1. CASE fresh = {}
      BY <3>1 DEF GapsBefore
    <3>2. CASE fresh # {}
      BY <2>2, <2>4, <3>2, MinutesAreIntegers, CollectorAssumption DEF Minutes
    <3> QED
      BY <3>1, <3>2
  <2>6. ASSUME NEW f \in fresh, NEW m \in Minutes, latest < m, m < f
        PROVE  m \in fresh \cup gaps
    <3>1. f \in Nat /\ m \in Nat /\ latest \in Nat
      BY <2>2, <2>3, MinutesAreIntegers
    <3>2. HighestOf(fresh) \in Nat /\ f <= HighestOf(fresh)
          /\ gaps = (latest + 1 .. HighestOf(fresh)) \ fresh
      BY <2>4, MinutesAreIntegers
    <3> HIDE DEF fresh, latest, gaps
    <3> QED
      BY <2>6, <3>1, <3>2
  <2>7. /\ DOMAIN live' = {"pc", "polled", "batch"} /\ live'.polled = live.polled
        /\ live'.pc \in {"idle", "compared"} /\ DOMAIN live'.batch = fresh
        /\ \A m \in fresh : live'.batch[m] = live.batch[m]
    BY <2>1
  <2>8. Batch(live'.batch)
    BY <2>7 DEF Batch
  <2>9. HolesAreReported' /\ StoredMinutes' = StoredMinutes
    BY <1>1, <2>1, TableUntouched
  <2>10. GapsInHand'
    <3>1. \A f \in fresh : latest < f
      BY <2>2, <2>3, MinutesAreIntegers
    <3> HIDE DEF fresh, latest, gaps
    <3> QED
      BY <2>1, <2>2, <2>6, <2>7, <2>9, <3>1 DEF GapsInHand
  <2>11. rows' \in Rows /\ found' \subseteq Minutes /\ live'.polled \in Minutes
    BY <2>1, <2>5, <2>7 DEF TypeOK
  <2> QED
    <3> HIDE DEF fresh, latest, gaps, CompletenessInv
    <3> QED
      BY <1>4, <2>7, <2>8, <2>9, <2>10, <2>11
<1>8. CASE LiveUpsert
  <2>1. rows' = Upserted(live.batch) /\ found' = found
        /\ live' = [live EXCEPT !.pc = "idle", !.batch = NoBatch]
    BY <1>8 DEF LiveUpsert
  <2>2. rows' \in Rows /\ StoredMinutes' = StoredMinutes \cup DOMAIN live.batch
    BY <2>1, UpsertStores DEF TypeOK
  <2>3. PICK latest \in StoredMinutes :
            /\ \A f \in DOMAIN live.batch : latest < f
            /\ \A f \in DOMAIN live.batch, m \in Minutes :
                  latest < m /\ m < f => m \in DOMAIN live.batch \cup found
    BY <1>8 DEF GapsInHand, LiveUpsert
  <2>4. ASSUME NEW m \in HolesOf(rows')
        PROVE  m \in HolesOf(rows) \cup found
    <3>1. /\ m \in Minutes /\ m \notin StoredMinutes /\ m \notin DOMAIN live.batch
          /\ \E n \in StoredMinutes' : n < m
          /\ \E n \in StoredMinutes' : n > m
      BY <2>2 DEF HolesOf, StoredMinutes
    <3>2. /\ StoredMinutes \subseteq Nat /\ DOMAIN live.batch \subseteq Nat
          /\ m \in Nat /\ latest \in Nat /\ m # latest
      BY <3>1, MinutesAreIntegers DEF StoredMinutes, Batch
    <3>3. PICK n \in StoredMinutes' : n > m
      BY <3>1
    <3>4. CASE m < latest
      <4>1. \E k \in StoredMinutes : k < m
        BY <2>2, <2>3, <3>1, <3>2, <3>4
      <4> QED
        BY <3>1, <3>2, <3>4, <4>1, HoleIsBetween
    <3>5. CASE latest < m /\ n \in StoredMinutes
      BY <3>1, <3>2, <3>3, <3>5, HoleIsBetween
    <3>6. CASE latest < m /\ n \in DOMAIN live.batch
      BY <2>3, <3>1, <3>2, <3>3, <3>6
    <3> QED
      BY <2>2, <3>2, <3>3, <3>4, <3>5, <3>6
  <2>5. HolesAreReported'
    BY <1>1, <2>1, <2>4 DEF HolesAreReported
  <2>6. /\ DOMAIN live' = {"pc", "polled", "batch"} /\ live'.batch = NoBatch
        /\ live'.pc = "idle" /\ live'.polled = live.polled
    BY <2>1
  <2>7. Batch(live'.batch) /\ GapsInHand' /\ live'.polled \in Minutes /\ found' \subseteq Minutes
    BY <2>1, <2>6 DEF Batch, NoBatch, GapsInHand, TypeOK
  <2> QED
    BY <1>4, <2>2, <2>5, <2>6, <2>7
<1> QED
  BY <1>5, <1>6, <1>7, <1>8 DEF LiveStep

-----------------------------------------------------------------------------
LEMMA BackfillIsComplete ==
    ASSUME CompletenessInv,
           \/ \E request \in Requests, selected \in BOOLEAN :
                 BackfillStart(request, selected)
           \/ BackfillStep \/ BackfillDies
    PROVE  CompletenessInv'
<1> USE DEF CompletenessInv, CollectorTypes
<1>1. UNCHANGED <<now, live, liveHealth, found>>
  BY DEF BackfillStart, BackfillStep, BackfillFetch, BackfillSift, BackfillSave, BackfillDies
<1>2. universe' \in BOOLEAN
  BY DEF TypeOK, BackfillStart, BackfillStep, BackfillFetch, BackfillSift, BackfillSave,
         BackfillDies
<1>3. outages' \in 0 .. MaxOutages
  <2>1. outages' = outages \/ (outages < MaxOutages /\ outages' = outages + 1)
    <3>1. CASE BackfillDies
      BY <3>1 DEF BackfillDies, Fault
    <3>2. CASE ~BackfillDies
      BY <3>2 DEF BackfillStart, BackfillStep, BackfillFetch, BackfillSift, BackfillSave
    <3> QED
      BY <3>1, <3>2
  <2>2. outages \in 0 .. MaxOutages
    BY DEF TypeOK
  <2> QED
    BY <2>1, <2>2, CollectorAssumption
<1>4. backfills' \in 0 .. MaxBackfills
  <2>1. backfills' = backfills \/ (backfills < MaxBackfills /\ backfills' = backfills + 1)
    <3>1. CASE \E request \in Requests, selected \in BOOLEAN :
                  BackfillStart(request, selected)
      BY <3>1 DEF BackfillStart
    <3>2. CASE BackfillStep \/ BackfillDies
      BY <3>2 DEF BackfillStep, BackfillFetch, BackfillSift, BackfillSave, BackfillDies
    <3> QED
      BY <3>1, <3>2
  <2>2. backfills \in 0 .. MaxBackfills
    BY DEF TypeOK
  <2> QED
    BY <2>1, <2>2, CollectorAssumption
<1>5. ASSUME /\ DOMAIN backfill' = {"pc", "kind", "start", "end", "cursor", "page"}
             /\ Batch(backfill'.page)
             /\ backfill'.pc \in {"off", "page", "sift", "save", "done"}
             /\ backfill'.kind \in {"ohlcv", "funding"}
             /\ {backfill'.start, backfill'.end, backfill'.cursor} \subseteq 0 .. Horizon + 1
             /\ rows' \in Rows /\ bridged' \subseteq Minutes /\ funding' \subseteq Minutes
             /\ StoredMinutes \subseteq StoredMinutes'
             /\ HolesAreReported' /\ PageIsWhole' /\ BackfillLeavesNothing'
      PROVE  CompletenessInv'
  <2>1. TypeOK'
    BY <1>1, <1>2, <1>3, <1>4, <1>5 DEF TypeOK, Batch
  <2>2. CollectorTypes'
    BY <1>1, <1>5, <2>1 DEF Batch
  <2>3. GapsInHand'
    BY <1>1, <1>5, LiveUntouched
  <2> QED
    BY <1>5, <2>2, <2>3
<1>6. ASSUME UNCHANGED <<rows, bridged, funding>>
      PROVE  /\ rows' \in Rows /\ bridged' \subseteq Minutes /\ funding' \subseteq Minutes
             /\ StoredMinutes' = StoredMinutes /\ HolesAreReported'
  BY <1>1, <1>6, TableUntouched DEF TypeOK
<1>7. CASE \E request \in Requests, selected \in BOOLEAN : BackfillStart(request, selected)
  <2>1. PICK request \in Requests :
           /\ backfill' = [pc |-> "page", kind |-> request.kind,
                           start |-> request.start, end |-> request.end,
                           cursor |-> request.start, page |-> NoBatch]
           /\ UNCHANGED <<rows, bridged, funding>>
    BY <1>7 DEF BackfillStart
  <2>2. /\ request.kind \in {"ohlcv", "funding"}
        /\ request.start \in Minutes /\ request.end \in Minutes
    BY CollectorAssumption DEF Minutes
  <2>3. PageIsWhole' /\ Batch(backfill'.page)
    BY <2>1 DEF PageIsWhole, Batch, NoBatch
  <2>4. BackfillLeavesNothing'
    BY <2>1, <2>2, MinutesAreIntegers DEF BackfillLeavesNothing
  <2> QED
    BY <1>5, <1>6, <2>1, <2>2, <2>3, <2>4, MinutesAreIntegers
<1>8. ASSUME UNCHANGED <<rows, bridged, funding>>,
             /\ DOMAIN backfill' = DOMAIN backfill
             /\ backfill'.pc \in {"off", "sift", "save", "done"}
             /\ backfill.pc # "off"
             /\ UNCHANGED <<backfill.kind, backfill.start, backfill.end, backfill.cursor>>
             /\ Batch(backfill'.page) /\ PageIsWhole'
      PROVE  CompletenessInv'
  <2>1. BackfillLeavesNothing'
    BY <1>6, <1>8 DEF BackfillLeavesNothing
  <2>2. /\ backfill.kind \in {"ohlcv", "funding"}
        /\ {backfill.start, backfill.end, backfill.cursor} \subseteq 0 .. Horizon + 1
    BY DEF TypeOK
  <2> QED
    BY <1>5, <1>6, <1>8, <2>1, <2>2
<1>9. CASE BackfillFetch
  <2> DEFINE wanted(newest) == {t \in 0 .. newest : Wanted(t)}
  <2>1. PICK newest \in Newest :
           backfill' = [backfill EXCEPT !.pc = "sift",
                                        !.page = Listed(PageOf(wanted(newest)))]
    <3>1. PICK newest \in Newest :
             backfill' = [backfill EXCEPT
               !.pc = "sift",
               !.page = Listed(PageOf(IF backfill.kind = "ohlcv" THEN 0 .. newest
                                      ELSE {t \in 0 .. newest : t % FundingEvery = 0}))]
      BY <1>9 DEF BackfillFetch
    <3>2. wanted(newest) = IF backfill.kind = "ohlcv" THEN 0 .. newest
                           ELSE {t \in 0 .. newest : t % FundingEvery = 0}
      BY DEF Wanted
    <3> QED
      BY <3>1, <3>2
  <2> DEFINE times == wanted(newest)
             page == PageOf(times)
  <2>2. times \subseteq Minutes /\ newest \in Int
    <3>1. now \in Nat /\ now <= Horizon /\ newest \in {now, now - 1}
      BY CollectorAssumption DEF TypeOK, Minutes, Newest
    <3> QED
      BY <3>1, CollectorAssumption DEF Minutes
  <2>3. /\ page \subseteq times
        /\ \A m \in page, t \in times : backfill.cursor <= t /\ t <= m => t \in page
    <3>1. backfill.cursor \in Int
      BY CollectorAssumption DEF TypeOK
    <3> HIDE DEF times
    <3> QED
      BY <2>2, <3>1, PageIsAPrefix
  <2>4. ASSUME NEW m \in page, NEW t \in Minutes,
               backfill.cursor <= t, t <= m, Wanted(t)
        PROVE  t \in page
    <3>1. m \in 0 .. newest /\ t \in Nat
      BY <2>3, MinutesAreIntegers
    <3>2. t \in times
      BY <2>2, <2>4, <3>1
    <3> HIDE DEF times, page
    <3> QED
      BY <2>3, <2>4, <3>2
  <2>5. /\ backfill'.pc = "sift" /\ backfill'.page = Listed(page)
        /\ DOMAIN backfill' = DOMAIN backfill
        /\ UNCHANGED <<backfill.kind, backfill.start, backfill.end, backfill.cursor>>
    BY <2>1
  <2>6. DOMAIN Listed(page) = page
        /\ \A m \in page : Listed(page)[m] \in {"partial", "final"}
    BY DEF Listed
  <2>7. Batch(backfill'.page)
    BY <2>2, <2>3, <2>5, <2>6 DEF Batch
  <2>8. PageIsWhole'
    <3> HIDE DEF page
    <3> QED
      BY <2>4, <2>5, <2>6 DEF PageIsWhole, Wanted
  <2>9. UNCHANGED <<rows, bridged, funding>> /\ backfill.pc = "page"
    BY <1>9 DEF BackfillFetch
  <2> HIDE DEF CompletenessInv
  <2> QED
    BY <1>8, <2>5, <2>7, <2>8, <2>9
<1>10. CASE BackfillSift
  <2> DEFINE kept == KeptOf(backfill.page)
  <2>1. /\ backfill' = [backfill EXCEPT
                          !.pc = IF kept = {} THEN "done" ELSE "save",
                          !.page = [m \in kept |-> backfill.page[m]]]
        /\ backfill.pc = "sift" /\ UNCHANGED <<rows, bridged, funding>>
    BY <1>10 DEF BackfillSift
  <2>2. kept \subseteq DOMAIN backfill.page
    BY DEF KeptOf
  <2>3. ASSUME NEW m \in kept, NEW t \in Minutes,
               backfill.cursor <= t, t <= m, Wanted(t)
        PROVE  t \in kept
    <3>1. t \in DOMAIN backfill.page
      BY <2>1, <2>2, <2>3 DEF PageIsWhole
    <3>2. m \in Nat /\ t \in Nat /\ now \in Nat
      BY <2>2, MinutesAreIntegers DEF Batch, TypeOK
    <3> QED
      BY <2>3, <3>1, <3>2 DEF KeptOf
  <2>4. /\ backfill'.pc = IF kept = {} THEN "done" ELSE "save"
        /\ DOMAIN backfill'.page = kept
        /\ \A m \in kept : backfill'.page[m] = backfill.page[m]
        /\ DOMAIN backfill' = DOMAIN backfill
        /\ UNCHANGED <<backfill.kind, backfill.start, backfill.end, backfill.cursor>>
    BY <2>1
  <2>5. Batch(backfill'.page)
    BY <2>2, <2>4 DEF Batch
  <2>6. PageIsWhole'
    <3> HIDE DEF kept
    <3> QED
      BY <2>3, <2>4 DEF PageIsWhole, Wanted
  <2>7. backfill'.pc \in {"done", "save"}
    BY <2>4
  <2> HIDE DEF CompletenessInv
  <2> QED
    BY <1>8, <2>1, <2>4, <2>5, <2>6, <2>7
<1>11. CASE BackfillDies
  <2>1. /\ backfill'.pc = "off" /\ backfill'.page = NoBatch
        /\ DOMAIN backfill' = DOMAIN backfill /\ backfill.pc # "off"
        /\ UNCHANGED <<backfill.kind, backfill.start, backfill.end, backfill.cursor>>
        /\ UNCHANGED <<rows, bridged, funding>>
    BY <1>11 DEF BackfillDies
  <2>2. Batch(backfill'.page) /\ PageIsWhole'
    BY <2>1 DEF Batch, NoBatch, PageIsWhole
  <2> HIDE DEF CompletenessInv
  <2> QED
    BY <1>8, <2>1, <2>2
<1>12. CASE BackfillSave
  <2> DEFINE inRange == {m \in DOMAIN backfill.page :
                           backfill.start <= m /\ m < backfill.end}
             cursor == NextCursor(backfill.page)
             batch == [m \in inRange |-> backfill.page[m]]
  <2>1. /\ backfill.pc = "save"
        /\ IF backfill.kind = "ohlcv"
           THEN rows' = Upserted(batch) /\ UNCHANGED funding
           ELSE funding' = funding \cup inRange /\ UNCHANGED rows
        /\ backfill' = [backfill EXCEPT
                          !.pc = IF cursor < backfill.end THEN "page" ELSE "done",
                          !.cursor = cursor, !.page = NoBatch]
        /\ bridged' = bridged \cup (HolesOf(rows') \ HolesOf(rows))
    BY <1>12 DEF BackfillSave
  <2>2. /\ cursor - 1 \in DOMAIN backfill.page /\ cursor \in 0 .. Horizon + 1
        /\ \A m \in DOMAIN backfill.page : m <= cursor - 1
    <3>1. /\ HighestOf(DOMAIN backfill.page) \in DOMAIN backfill.page
          /\ \A m \in DOMAIN backfill.page : m <= HighestOf(DOMAIN backfill.page)
      BY <2>1, HighestMinute DEF PageIsWhole, Batch
    <3>2. /\ HighestOf(DOMAIN backfill.page) \in Nat
          /\ HighestOf(DOMAIN backfill.page) + 1 \in 0 .. Horizon + 1
      BY <3>1, MinutesAreIntegers DEF Batch
    <3>3. cursor = HighestOf(DOMAIN backfill.page) + 1
      BY DEF NextCursor
    <3>4. cursor - 1 = HighestOf(DOMAIN backfill.page)
      BY <3>2, <3>3
    <3> HIDE DEF cursor
    <3> QED
      BY <3>1, <3>2, <3>3, <3>4
  <2>3. /\ backfill'.pc \in {"page", "done"} /\ backfill'.page = NoBatch
        /\ backfill'.cursor = cursor
        /\ DOMAIN backfill' = {"pc", "kind", "start", "end", "cursor", "page"}
        /\ UNCHANGED <<backfill.kind, backfill.start, backfill.end>>
    <3> HIDE DEF cursor
    <3> QED
      BY <2>1
  <2>4. Batch(backfill'.page) /\ PageIsWhole'
    BY <2>3 DEF Batch, NoBatch, PageIsWhole
  <2>5. /\ backfill.kind \in {"ohlcv", "funding"} /\ rows \in Rows
        /\ {backfill.start, backfill.end, backfill.cursor} \subseteq 0 .. Horizon + 1
        /\ bridged \subseteq Minutes /\ funding \subseteq Minutes
    BY DEF TypeOK
  <2>6. inRange \subseteq DOMAIN backfill.page /\ DOMAIN backfill.page \subseteq Minutes
    BY DEF Batch
  <2>7. /\ rows' \in Rows /\ StoredMinutes \subseteq StoredMinutes'
        /\ backfill.kind = "ohlcv" => inRange \subseteq StoredMinutes'
    <3>1. CASE backfill.kind = "ohlcv"
      <4>1. rows' = Upserted(batch) /\ Batch(batch) /\ DOMAIN batch = inRange
        BY <2>1, <2>6, <3>1 DEF Batch
      <4> HIDE DEF batch, inRange
      <4> QED
        BY <2>5, <4>1, UpsertStores
    <3>2. CASE backfill.kind # "ohlcv"
      BY <2>1, <2>5, <3>2 DEF StoredMinutes
    <3> QED
      BY <3>1, <3>2
  <2>8. bridged' \subseteq Minutes /\ funding' \subseteq Minutes
    <3>1. HolesOf(rows') \subseteq Minutes
      BY DEF HolesOf
    <3> QED
      BY <2>1, <2>5, <2>6, <3>1
  <2>9. HolesAreReported'
    BY <1>1, <2>1 DEF HolesAreReported
  <2>10. ASSUME NEW t \in Minutes, backfill.start <= t, t < backfill.end, t < cursor,
                Wanted(t)
         PROVE  IF backfill.kind = "ohlcv" THEN t \in StoredMinutes' ELSE t \in funding'
    <3>1. t \in Nat /\ cursor \in Nat /\ backfill.cursor \in Nat
      BY <2>2, <2>5, MinutesAreIntegers
    <3>2. CASE t < backfill.cursor
      <4>1. IF backfill.kind = "ohlcv" THEN t \in StoredMinutes ELSE t \in funding
        BY <2>1, <2>10, <3>2 DEF BackfillLeavesNothing, Wanted
      <4> QED
        BY <2>1, <2>7, <4>1
    <3>3. CASE backfill.cursor <= t
      <4>1. t <= cursor - 1
        <5> HIDE DEF cursor
        <5> QED
          BY <2>10, <3>1
      <4>2. t \in inRange
        BY <2>1, <2>2, <2>10, <3>3, <4>1 DEF PageIsWhole
      <4> QED
        BY <2>1, <2>7, <4>2
    <3> QED
      BY <3>1, <3>2, <3>3
  <2>11. BackfillLeavesNothing'
    <3> HIDE DEF cursor
    <3> QED
      BY <2>3, <2>5, <2>10 DEF BackfillLeavesNothing, Wanted
  <2>12. {backfill'.start, backfill'.end, backfill'.cursor} \subseteq 0 .. Horizon + 1
    <3> HIDE DEF cursor
    <3> QED
      BY <2>2, <2>3, <2>5
  <2> HIDE DEF CompletenessInv, cursor, inRange, batch
  <2> QED
    BY <1>5, <2>3, <2>4, <2>5, <2>7, <2>8, <2>9, <2>11, <2>12
<1> QED
  BY <1>7, <1>9, <1>10, <1>11, <1>12 DEF BackfillStep

LEMMA CompletenessHolds == Spec => []CompletenessInv
<1>1. Init => CompletenessInv
  BY CompletenessInit
<1>2. CompletenessInv /\ [Next]_vars => CompletenessInv'
  BY TickIsComplete, LiveIsComplete, BackfillIsComplete DEF Next
<1> QED
  BY <1>1, <1>2, PTL DEF Spec

\* The tables, the two records and the process counters of the collector keep
\* their types whatever the clock, the exchange and the faults do.
THEOREM CollectorIsTyped == Spec => []TypeOK
<1>1. CompletenessInv => TypeOK
  BY DEF CompletenessInv, CollectorTypes
<1> QED
  BY <1>1, CompletenessHolds, PTL

\* A backfill has stored every minute (every settlement) of its range that its
\* cursor has passed, for any size of the pages and any lag of the listing
\* (HistoricalBackfill.run, FundingBackfill.run).
THEOREM BackfillsAreComplete == Spec => []BackfillLeavesNothing
<1>1. CompletenessInv => BackfillLeavesNothing
  BY DEF CompletenessInv
<1> QED
  BY <1>1, CompletenessHolds, PTL

\* A hole inside the table was there from the start, was reported by the live
\* collector (detect_gaps in collect_once), or was made by a backfill, for any
\* number of faults and crashes of either process.
THEOREM NoHoleGoesUnreported == Spec => []HolesAreReported
<1>1. CompletenessInv => HolesAreReported
  BY DEF CompletenessInv
<1> QED
  BY <1>1, CompletenessHolds, PTL
=============================================================================

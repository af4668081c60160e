------------------------ MODULE RecordServer_proofs ------------------------
(***************************************************************************)
(* RecordServer is safe, appends only and implements RecordLog, for every  *)
(* account, batch size and page size.  What an accepted batch and a page   *)
(* do to a table is proved in RecordStore_proofs.                          *)
(***************************************************************************)
EXTENDS RecordServer, RecordStore_proofs

\* No reader's cursor is past the end of the table: the rows an accepted batch
\* adds are then behind every cursor, which PullLosesNothing needs.
CursorsReached == \A d \in Reader : cursor[d] <= MaxSeq(record)

\* The inductive invariant.
Inv ==
  /\ TypeOK
  /\ LogRows(record)
  /\ ReceiptsStand
  /\ PullLosesNothing
  /\ CursorsReached

LEMMA InitInv == Init => Inv
<1> SUFFICES ASSUME Init PROVE Inv
  OBVIOUS
<1>1. TypeOK /\ IsFiniteSet(record) /\ record = {}
  BY FS_EmptySet DEF Init, TypeOK
<1>2. LogRows(record)
  BY <1>1 DEF LogRows, Rows
<1>3. MaxSeq(record) \in Nat
  BY <1>2, MaxSeqIsLargest DEF LogRows
<1>4. ReceiptsStand /\ PullLosesNothing /\ CursorsReached
  BY <1>1, <1>3 DEF Init, ReceiptsStand, PullLosesNothing, CursorsReached
<1> QED BY <1>1, <1>2, <1>4 DEF Inv

\* The batches of RecordServer are batches.
LEMMA PushedBatch ==
  ASSUME NEW batch \in Batch
  PROVE  /\ IsBatch(batch)
         /\ \A i \in DOMAIN batch : batch[i] \in Pushed
<1>1. PICK n \in 1..MaxBatch : batch \in [1..n -> Pushed]
  BY DEF Batch
<1>2. DOMAIN batch = 1..n /\ n \in Nat /\ \A i \in DOMAIN batch : batch[i] \in Pushed
  BY <1>1, BoundsAssumption
<1>3. \A i \in DOMAIN batch : {"id", "entity", "version"} \subseteq DOMAIN batch[i]
  BY <1>2 DEF Pushed
<1> QED BY <1>2, <1>3 DEF IsBatch

\* Their rows are rows.
LEMMA InsertedTyped ==
  ASSUME NEW rows, Rows(rows), NEW batch \in Batch
  PROVE  Inserted(rows, batch) \in SUBSET Row
<1>1. SUFFICES ASSUME NEW i \in FreshAt(rows, batch)
               PROVE  WithSeq(batch[i], SeqAt(rows, batch, i)) \in Row
  BY DEF Inserted
<1>2. i \in DOMAIN batch /\ batch[i] \in Pushed
  BY PushedBatch DEF FreshAt
<1>3. SeqAt(rows, batch, i) \in Nat \ {0}
  <2>1. MaxSeq(rows) \in Nat /\ Rank(FreshAt(rows, batch), i) \in Nat
    BY PushedBatch, BatchPositions, RankType, MaxSeqIsLargest
  <2> QED BY <2>1 DEF SeqAt
<1> DEFINE n == SeqAt(rows, batch, i)
           r == WithSeq(batch[i], n)
<1> HIDE DEF n
<1>4. /\ r = [f \in {"id", "entity", "version", "seq"} |-> r[f]]
      /\ r.id = batch[i].id /\ r.entity = batch[i].entity
      /\ r.version = batch[i].version /\ r.seq = n
  BY <1>2 DEF WithSeq, Pushed
<1>5. r.version \in Nat \ {0}
  BY <1>2, <1>4, BoundsAssumption DEF Pushed
<1> QED BY <1>2, <1>3, <1>4, <1>5 DEF Row, Pushed, n

LEMMA AcceptBatchInv ==
  ASSUME Inv, NEW batch \in Batch, AcceptBatch(batch)
  PROVE  Inv'
<1> DEFINE new == Inserted(record, batch)
           fresh == FreshAt(record, batch)
<1>1. /\ LogRows(record) /\ Rows(record) /\ IsBatch(batch) /\ Accepts(record, batch)
      /\ record' = record \cup new /\ cursor' = cursor /\ got' = got
      /\ acked' = acked \cup Receipts(record, batch)
  BY PushedBatch DEF Inv, LogRows, AcceptBatch
<1>2. /\ new \in SUBSET Row /\ IsFiniteSet(new)
      /\ \A i \in fresh : \E r \in new : IsRowOf(r, record, batch, i)
  BY <1>1, InsertedTyped, InsertedRows
<1>3. /\ LogRows(record') /\ Rows(record') /\ IsFiniteSet(record')
      /\ MaxSeq(record) \in Nat /\ MaxSeq(record') \in Nat
      /\ MaxSeq(record) <= MaxSeq(record')
      /\ \A r \in new : r.seq \in Nat /\ r.seq > MaxSeq(record)
  BY <1>1, AcceptedKeepsLog, AcceptedIsAbove DEF LogRows, Rows
<1> HIDE DEF new
<1>4. \A t \in Receipts(record, batch) : \E r \in record' : r.id = t[1] /\ r.seq = t[2]
  <2>1. SUFFICES ASSUME NEW t \in Receipts(record, batch)
                 PROVE  \E r \in record' : r.id = t[1] /\ r.seq = t[2]
    OBVIOUS
  <2>2. PICK i \in DOMAIN batch :
          t = <<batch[i].id, IF IsStored(record, batch[i].id)
                             THEN StoredSeq(record, batch[i].id)
                             ELSE SeqAt(record, batch, i)>>
    BY DEF Receipts
  <2>3. CASE IsStored(record, batch[i].id)
    BY <1>1, <2>2, <2>3 DEF IsStored, StoredSeq
  <2>4. CASE ~IsStored(record, batch[i].id)
    <3>1. i \in fresh
      BY <2>4 DEF FreshAt
    <3>2. PICK r \in new : IsRowOf(r, record, batch, i)
      BY <1>2, <3>1
    <3> QED BY <1>1, <2>2, <2>4, <3>2 DEF IsRowOf, SeqAt
  <2> QED BY <2>3, <2>4
<1>5. ReceiptsStand'
  BY <1>1, <1>4 DEF Inv, ReceiptsStand
<1>6. TypeOK'
  <2>1. \A t \in Receipts(record, batch) : t \in Id \X (Nat \ {0})
    <3>1. SUFFICES ASSUME NEW i \in DOMAIN batch,
                          NEW t, t = <<batch[i].id, IF IsStored(record, batch[i].id)
                                                     THEN StoredSeq(record, batch[i].id)
                                                     ELSE SeqAt(record, batch, i)>>,
                          t \in Receipts(record, batch)
                   PROVE  t \in Id \X (Nat \ {0})
      BY DEF Receipts
    <3>2. PICK r \in record' : r.id = t[1] /\ r.seq = t[2]
      BY <1>4, <3>1
    <3>3. r.id \in Id /\ r.seq \in Nat \ {0}
      BY <1>1, <1>2 DEF Inv, TypeOK, Row
    <3>4. t = <<t[1], t[2]>>
      BY <3>1
    <3> QED BY <3>2, <3>3, <3>4
  <2> QED BY <1>1, <1>2, <1>3, <2>1 DEF Inv, TypeOK
<1>7. PullLosesNothing'
  <2>1. ASSUME NEW d \in Reader, NEW r \in new PROVE ~(r.seq <= cursor[d])
    <3>1. cursor[d] \in Nat /\ cursor[d] <= MaxSeq(record)
      BY <1>1 DEF Inv, TypeOK, CursorsReached
    <3> QED BY <1>3, <3>1
  <2> QED BY <1>1, <2>1 DEF Inv, PullLosesNothing
<1>8. CursorsReached'
  <2>1. \A d \in Reader : cursor[d] \in Nat /\ cursor[d] <= MaxSeq(record)
    BY DEF Inv, TypeOK, CursorsReached
  <2> QED BY <1>1, <1>3, <2>1 DEF CursorsReached
<1> QED BY <1>3, <1>5, <1>6, <1>7, <1>8 DEF Inv

LEMMA PullRecordsInv ==
  ASSUME Inv, NEW d \in Reader, PullRecords(d)
  PROVE  Inv'
<1> DEFINE page == Page(record, cursor[d], PageLimit)
<1>1. /\ record \in SUBSET Row /\ LogRows(record) /\ Rows(record) /\ IsFiniteSet(record)
      /\ cursor \in [Reader -> Nat] /\ got \in [Reader -> SUBSET Row]
      /\ record' = record /\ acked' = acked
      /\ page # {}
      /\ got' = [got EXCEPT ![d] = @ \cup page]
      /\ cursor' = [cursor EXCEPT ![d] = MaxSeq(page)]
  BY DEF Inv, TypeOK, PullRecords, LogRows
<1>2. /\ page \in SUBSET record
      /\ MaxSeq(page) \in Nat
      /\ MaxSeq(page) > cursor[d]
      /\ MaxSeq(page) <= MaxSeq(record)
      /\ \A r \in record : r \in page <=> r.seq > cursor[d] /\ r.seq <= MaxSeq(page)
  BY <1>1, BoundsAssumption, PageIsPrefix
<1> HIDE DEF page
<1>3. TypeOK'
  BY <1>1, <1>2 DEF Inv, TypeOK
<1>4. LogRows(record') /\ ReceiptsStand'
  BY <1>1 DEF Inv, ReceiptsStand
<1>5. CursorsReached'
  BY <1>1, <1>2 DEF Inv, CursorsReached
<1>6. PullLosesNothing'
  <2>1. SUFFICES ASSUME NEW e \in Reader
                 PROVE  got'[e] = {r \in record' : r.seq <= cursor'[e]}
    BY DEF PullLosesNothing
  <2>2. CASE e # d
    BY <1>1, <2>2 DEF Inv, PullLosesNothing
  <2>3. CASE e = d
    <3>1. got'[d] = got[d] \cup page /\ cursor'[d] = MaxSeq(page)
      BY <1>1
    <3>2. got[d] = {r \in record : r.seq <= cursor[d]}
      BY DEF Inv, PullLosesNothing
    <3>3. cursor[d] \in Nat /\ \A r \in record : r.seq \in Nat
      BY <1>1 DEF Row
    <3>4. ASSUME NEW r \in record
          PROVE  r.seq <= MaxSeq(page) <=> r.seq <= cursor[d] \/ r \in page
      BY <1>2, <3>3
    <3> QED BY <1>1, <1>2, <2>3, <3>1, <3>2, <3>4
  <2> QED BY <2>2, <2>3
<1> QED BY <1>3, <1>4, <1>5, <1>6 DEF Inv

LEMMA NextInv == Inv /\ [Next]_vars => Inv'
<1>1. SUFFICES ASSUME Inv, [Next]_vars PROVE Inv'
  OBVIOUS
<1>2. ASSUME NEW batch \in Batch, AcceptBatch(batch) PROVE Inv'
  BY <1>1, <1>2, AcceptBatchInv
<1>3. ASSUME NEW d \in Reader, PullRecords(d) PROVE Inv'
  BY <1>1, <1>3, PullRecordsInv
<1>4. CASE UNCHANGED vars
  BY <1>1, <1>4 DEF vars, Inv, TypeOK, ReceiptsStand, PullLosesNothing, CursorsReached
<1> QED BY <1>1, <1>2, <1>3, <1>4 DEF Next, PushRecords, RejectBatch

-----------------------------------------------------------------------------
\* The table, the receipts and the pages have the types the handlers give
\* them, for every set of ids, entities and readers and every bound.
THEOREM RecordServerTyped == Spec => []TypeOK
<1>1. Inv => TypeOK
  BY DEF Inv
<1> QED BY InitInv, NextInv, <1>1, PTL DEF Spec

\* The record table is a log, for every account, batch size and page size:
\* PushRecords never stores two rows under one id, one number or one version
\* of an entity, and leaves no hole in the versions or in the numbers.
THEOREM RecordServerIsLog == Spec => []TableIsLog
<1>1. Inv => TableIsLog
  BY DEF Inv, LogRows, TableIsLog, KeysUnique, HistoryContiguous, SequenceContiguous
<1> QED BY InitInv, NextInv, <1>1, PTL DEF Spec

\* What push replies and pull pages told the devices stays true: a receipt's
\* record stays at its number, and a reader has exactly the rows up to its
\* cursor, whatever is pushed, retried, refused and pulled since.
THEOREM RecordServerKeepsReplies == Spec => []RepliesStand
<1>1. Inv => RepliesStand
  BY DEF Inv, RepliesStand
<1> QED BY InitInv, NextInv, <1>1, PTL DEF Spec

\* Rows are never changed or deleted by PushRecords and PullRecords, and a new
\* row gets a sequence number no reader has passed.
THEOREM RecordServerAppendsOnly == Spec => AppendOnly
<1> DEFINE Appends == /\ record \subseteq record'
                      /\ \A r \in record' \ record : \A d \in Reader : r.seq > cursor[d]
<1>1. Inv /\ [Next]_vars => [Appends]_vars
  <2>1. SUFFICES ASSUME Inv, Next PROVE Appends
    BY DEF vars
  <2>2. ASSUME NEW batch \in Batch, AcceptBatch(batch) PROVE Appends
    <3>1. /\ Rows(record) /\ IsBatch(batch) /\ Accepts(record, batch)
          /\ record' = record \cup Inserted(record, batch)
      BY <2>1, <2>2, PushedBatch DEF Inv, LogRows, AcceptBatch
    <3>2. /\ MaxSeq(record) \in Nat
          /\ \A r \in Inserted(record, batch) : r.seq \in Nat /\ r.seq > MaxSeq(record)
      BY <3>1, AcceptedIsAbove
    <3>3. \A d \in Reader : cursor[d] \in Nat /\ cursor[d] <= MaxSeq(record)
      BY <2>1 DEF Inv, TypeOK, CursorsReached
    <3> QED BY <3>1, <3>2, <3>3
  <2>3. ASSUME NEW d \in Reader, PullRecords(d) PROVE Appends
    BY <2>3 DEF PullRecords
  <2>4. CASE UNCHANGED vars
    BY <2>4 DEF vars
  <2> QED BY <2>1, <2>2, <2>3, <2>4 DEF Next, PushRecords, RejectBatch
<1> QED BY InitInv, NextInv, <1>1, PTL DEF Spec, AppendOnly

-----------------------------------------------------------------------------
\* RecordServer implements RecordLog.

LEMMA NextOfEntityExtends ==
  ASSUME NEW l, NEW n, NextOfEntity(l, n)
  PROVE  Log!Extends(l, n)
<1>1. Log!Cardinality({m \in 1..(n-1) : l[m].entity = l[n].entity})
        = Cardinality({m \in 1..(n-1) : l[m].entity = l[n].entity})
  BY DEF Log!Cardinality, Cardinality
<1> QED BY <1>1 DEF NextOfEntity, Log!Extends

\* Any table the server reaches is a log that can be watched from there.
LEMMA InitImplements == Inv => Log!Init
<1> SUFFICES ASSUME Inv PROVE Log!Init
  OBVIOUS
<1> DEFINE log == LogOf(record)
<1>1. LogRows(record)
  BY DEF Inv
<1>2. /\ Len(log) = MaxSeq(record) /\ MaxSeq(record) \in Nat
      /\ DOMAIN log = 1..MaxSeq(record)
      /\ \A r \in record : log[r.seq] = EntryOf(r)
  BY <1>1, LogHasRows
<1> HIDE DEF log
<1>3. \A n \in 1..MaxSeq(record) : log[n] \in [id : Id, entity : Entity, version : Nat]
  <2>1. ASSUME NEW n \in 1..MaxSeq(record)
        PROVE  log[n] \in [id : Id, entity : Entity, version : Nat]
    <3>1. PICK r \in record : r.seq = n
      BY <1>1, EveryNumberTaken
    <3>2. log[n] = EntryOf(r) /\ r \in Row
      BY <1>2, <3>1 DEF Inv, TypeOK
    <3> QED BY <3>2 DEF EntryOf, Row
  <2> QED BY <2>1
<1>4. \A n \in 1..MaxSeq(record) : Log!Extends(log, n)
  BY <1>1, LogExtends, NextOfEntityExtends DEF log
<1>5. cursor \in [Reader -> 0..MaxSeq(record)]
  BY <1>2 DEF Inv, TypeOK, CursorsReached
<1> QED BY <1>2, <1>3, <1>4, <1>5 DEF Log!Init, log

\* An accepted batch appends its fresh records, or changes nothing.
LEMMA PushImplements ==
  ASSUME Inv, NEW batch \in Batch, AcceptBatch(batch)
  PROVE  Log!Grow(LogOf(record)') \/ UNCHANGED <<LogOf(record), cursor>>
<1>1. /\ LogRows(record) /\ Rows(record) /\ IsBatch(batch) /\ Accepts(record, batch)
      /\ record' = record \cup Inserted(record, batch) /\ cursor' = cursor
  BY PushedBatch DEF Inv, LogRows, AcceptBatch
<1>2. /\ LogRows(record')
      /\ \A r \in record' \ record : r.seq > MaxSeq(record)
  BY <1>1, AcceptedKeepsLog, AcceptedIsAbove
<1>3. CASE record' = record
  BY <1>1, <1>3
<1>4. CASE record' # record
  <2>1. /\ Len(LogOf(record')) > Len(LogOf(record))
        /\ \A n \in 1..Len(LogOf(record)) : LogOf(record)[n] = LogOf(record')[n]
        /\ \A n \in (Len(LogOf(record)) + 1)..Len(LogOf(record')) :
             NextOfEntity(LogOf(record'), n)
    <3>1. record \subseteq record' /\ record' # record
      BY <1>1, <1>4
    <3>2. Continues(LogOf(record'), LogOf(record))
      BY <1>1, <1>2, <3>1, MoreRowsGrowLog
    <3> QED BY <3>2 DEF Continues
  <2>2. Len(LogOf(record)) \in Nat /\ Len(LogOf(record')) \in Nat
    BY <1>1, <1>2, LogHasRows
  <2>3. Log!IsPrefixOf(LogOf(record), LogOf(record'))
    BY <2>1, <2>2 DEF Log!IsPrefixOf
  <2>4. \A n \in (Len(LogOf(record)) + 1)..Len(LogOf(record')) :
           Log!Extends(LogOf(record'), n)
    BY <2>1, NextOfEntityExtends
  <2> QED BY <1>1, <2>1, <2>3, <2>4 DEF Log!Grow
<1> QED BY <1>3, <1>4

\* A page takes its reader further along the log, never past its end.
LEMMA PullImplements ==
  ASSUME Inv, NEW d \in Reader, PullRecords(d)
  PROVE  Log!Follow(d)
<1> DEFINE page == Page(record, cursor[d], PageLimit)
<1>1. LogRows(record) /\ Rows(record)
  BY DEF Inv, LogRows
<1>2. Len(LogOf(record)) = MaxSeq(record) /\ MaxSeq(record) \in Nat
  BY <1>1, LogHasRows
<1>3. /\ cursor \in [Reader -> Nat] /\ page # {} /\ record' = record
      /\ cursor' = [cursor EXCEPT ![d] = MaxSeq(page)]
  BY DEF Inv, TypeOK, PullRecords
<1>4. MaxSeq(page) \in Nat /\ MaxSeq(page) > cursor[d] /\ MaxSeq(page) <= MaxSeq(record)
  BY <1>1, <1>3, BoundsAssumption, PageIsPrefix
<1> HIDE DEF page
<1>5. cursor'[d] = MaxSeq(page) /\ cursor' = [cursor EXCEPT ![d] = cursor'[d]]
  BY <1>3
<1>6. cursor'[d] \in (cursor[d] + 1)..Len(LogOf(record))
  BY <1>2, <1>3, <1>4, <1>5
<1>7. LogOf(record)' = LogOf(record)
  BY <1>3
<1> QED BY <1>5, <1>6, <1>7 DEF Log!Follow

\* The record table is the shared log of the account: whatever is pushed,
\* retried, refused and pulled, each step of the server appends complete
\* batches of next versions, moves one reader forward, or shows nothing.
THEOREM RecordServerImplementsLog == Spec => ImplementsLog
<1>1. Init => Log!Init
  BY InitInv, InitImplements
<1>2. Inv /\ [Next]_vars => [Log!Next]_<<LogOf(record), cursor>>
  <2> SUFFICES ASSUME Inv, [Next]_vars
               PROVE  [Log!Next]_<<LogOf(record), cursor>>
    OBVIOUS
  <2>1. ASSUME NEW batch \in Batch, AcceptBatch(batch)
        PROVE  Log!Grow(LogOf(record)') \/ UNCHANGED <<LogOf(record), cursor>>
    BY <2>1, PushImplements
  <2>2. ASSUME NEW d \in Reader, PullRecords(d) PROVE Log!Follow(d)
    BY <2>2, PullImplements
  <2>3. CASE UNCHANGED vars
    BY <2>3 DEF vars
  <2> QED BY <2>1, <2>2, <2>3 DEF Next, PushRecords, RejectBatch, Log!Next
<1> QED BY <1>1, <1>2, InitInv, NextInv, PTL DEF Spec, ImplementsLog, Log!Spec
=============================================================================

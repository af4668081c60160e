---------------------------- MODULE RecordServer ----------------------------
(***************************************************************************)
(* The record half of the sync server for one account: devices push        *)
(* batches and pull pages.  Every request is one SQLite transaction on the *)
(* single connection of the store, so a handler is one action; a reply may *)
(* be lost, after which the device pushes the same batch again, which here *)
(* is simply another PushRecords.                                          *)
(***************************************************************************)
EXTENDS RecordStore

CONSTANTS
  Id,          \* record ids
  Entity,      \* (entity_type, entity_id) pairs
  Reader,      \* devices that pull
  MaxVersion,  \* bound: versions a device may push
  MaxBatch,    \* bound: records of one batch (maxBatchRecords in the code)
  PageLimit    \* PullPageLimit

ASSUME BoundsAssumption ==
  /\ MaxVersion \in Nat
  /\ MaxBatch \in Nat
  /\ PageLimit \in Nat \ {0}

VARIABLES
  record,   \* the record table
  acked,    \* history: <<id, seq>> of every accepted push reply
  cursor,   \* cursor[d]: since of reader d's next pull
  got       \* history: got[d], the rows reader d was sent

vars == <<record, acked, cursor, got>>

Pushed == [id : Id, entity : Entity, version : 1..MaxVersion]
Row == [id : Id, entity : Entity, version : Nat \ {0}, seq : Nat \ {0}]
Batch == UNION {[1..n -> Pushed] : n \in 1..MaxBatch}

Init ==
  /\ record = {}
  /\ acked = {}
  /\ cursor = [d \in Reader |-> 0]
  /\ got = [d \in Reader |-> {}]

\* Mutant of AcceptBatch: only the head of an entity is kept.
AcceptHeads(batch) ==
  /\ Accepts(record, batch)
  /\ record' = {r \in record : \A i \in DOMAIN batch : batch[i].entity # r.entity}
                 \cup Inserted(record, batch)
  /\ acked' = acked \cup Receipts(record, batch)
  /\ UNCHANGED <<cursor, got>>

AcceptBatch(batch) ==
  /\ Accepts(record, batch)
  /\ record' = record \cup Inserted(record, batch)
  /\ acked' = acked \cup Receipts(record, batch)
  /\ UNCHANGED <<cursor, got>>

\* VERSION_CONFLICT, or the primary key's constraint error: the transaction
\* rolls back and nothing of the batch is stored.
RejectBatch(batch) ==
  /\ ~Accepts(record, batch)
  /\ UNCHANGED vars

PushRecords(batch) == AcceptBatch(batch) \/ RejectBatch(batch)

\* Mutant of PullRecords: the cursor jumps to the end of the feed.
PullToEnd(d) ==
  LET page == Page(record, cursor[d], PageLimit)
  IN  /\ page # {}
      /\ got' = [got EXCEPT ![d] = @ \cup page]
      /\ cursor' = [cursor EXCEPT ![d] = MaxSeq(record)]
      /\ UNCHANGED <<record, acked>>

\* The reader asks for the rows after its cursor and moves the cursor to the
\* last row of the page.
PullRecords(d) ==
  LET page == Page(record, cursor[d], PageLimit)
  IN  /\ page # {}
      /\ got' = [got EXCEPT ![d] = @ \cup page]
      /\ cursor' = [cursor EXCEPT ![d] = MaxSeq(page)]
      /\ UNCHANGED <<record, acked>>

Next ==
  \/ \E batch \in Batch : PushRecords(batch)
  \/ \E d \in Reader : PullRecords(d)

\* A device retries its round until it has everything: its pull loop runs
\* again whenever the server holds more.
Fairness == \A d \in Reader : WF_vars(PullRecords(d))

Spec == Init /\ [][Next]_vars
FairSpec == Spec /\ Fairness

-----------------------------------------------------------------------------

TypeOK ==
  /\ record \subseteq Row /\ IsFiniteSet(record)
  /\ acked \subseteq Id \X (Nat \ {0})
  /\ cursor \in [Reader -> Nat]
  /\ got \in [Reader -> SUBSET Row]

\* The two UNIQUE constraints of the table hold without the schema's help:
\* the version check and the sequence allocation of PushRecords never produce
\* two rows in one place, so a batch is never refused for them.
KeysUnique ==
  \A q, r \in record :
    q.id = r.id \/ q.seq = r.seq \/ (q.entity = r.entity /\ q.version = r.version)
      => q = r

\* The history of an entity has no hole and is stored in version order: behind
\* every version above 1 its predecessor sits at a lower sequence number.
HistoryContiguous ==
  \A r \in record :
    r.version > 1 =>
      \E q \in record : /\ q.entity = r.entity
                        /\ q.version + 1 = r.version
                        /\ q.seq < r.seq

\* Sequence numbers are handed out without a hole (PushRecords stores a whole
\* batch or nothing), so a cursor counts the rows it has passed.
SequenceContiguous ==
  \A r \in record : r.seq > 1 => \E q \in record : q.seq + 1 = r.seq

\* The record table is a log: the keys are unique, and neither the versions of
\* an entity nor the sequence numbers have a hole, whatever batches race.
TableIsLog == KeysUnique /\ HistoryContiguous /\ SequenceContiguous

\* What a push reply told a device stays true: the record is in the table
\* under that sequence number, whatever was retried since.
ReceiptsStand ==
  \A t \in acked : \E r \in record : r.id = t[1] /\ r.seq = t[2]

\* A reader that pages through the feed while others push misses nothing: it
\* was sent exactly the rows up to its cursor.
PullLosesNothing ==
  \A d \in Reader : got[d] = {r \in record : r.seq <= cursor[d]}

\* What devices were told stays true: the receipts of their pushes and the
\* pages of their pulls, whatever is pushed, retried and pulled since.
RepliesStand == ReceiptsStand /\ PullLosesNothing

\* A stored row is immutable and permanent, and a new row is behind every
\* cursor that already moved.
AppendOnly ==
  [][ /\ record \subseteq record'
      /\ \A r \in record' \ record : \A d \in Reader : r.seq > cursor[d] ]_vars

\* Every stored row reaches every reader that keeps pulling.
EverythingArrives ==
  \A d \in Reader : \A i \in Id :
    IsStored(record, i) ~> \E r \in got[d] : r.id = i

-----------------------------------------------------------------------------
\* The account's records as one shared log that readers follow.

Log == INSTANCE RecordLog WITH log <- LogOf(record), read <- cursor

\* The table implements the abstract log.
ImplementsLog == Log!Spec
=============================================================================

---------------------------- MODULE RecordStore ----------------------------
(***************************************************************************)
(* The server's record table (apps/sync-server/internal/store) as          *)
(* operators over a finite set of rows.  A row is a record of at least     *)
(*   id       the primary key the producing device chose,                  *)
(*   entity   the (entity_type, entity_id) pair,                           *)
(*   version  the producer's version of that entity,                       *)
(*   seq      the per-account server_seq assigned on insertion;            *)
(* whatever else it carries (ciphertext, tombstone flag, signature) is     *)
(* opaque to the server and travels unchanged.  A push batch is a sequence *)
(* of such records without seq.  There are no variables here: the server   *)
(* module and the client modules share these definitions.                  *)
(***************************************************************************)
EXTENDS Naturals, FiniteSets, Sequences, FiniteSetsExt

\* COALESCE(MAX(..), 0) over a column.
MaxOrZero(S) == Max({0} \cup S)

\* The members of S below i, and with them i's rank in S.
Below(S, i) == {j \in S : j < i}
Rank(S, i) == Cardinality(Below(S, i))

IsStored(rows, id) == \E r \in rows : r.id = id

StoredSeq(rows, id) == (CHOOSE r \in rows : r.id = id).seq

RowsOf(rows, e) == {r \in rows : r.entity = e}

MaxSeq(rows) == MaxOrZero({r.seq : r \in rows})

HeadVersion(rows, e) == MaxOrZero({r.version : r \in RowsOf(rows, e)})

\* Positions of a batch that are not idempotent duplicates.
FreshAt(rows, batch) == {i \in DOMAIN batch : ~IsStored(rows, batch[i].id)}

FreshOf(rows, batch, e) == {i \in FreshAt(rows, batch) : batch[i].entity = e}

\* Mutants of Advances: the heads are not simulated within a batch; any newer
\* version is taken; a version equal to the head is taken.
AdvancesStoredHead(rows, batch, i) ==
  batch[i].version = HeadVersion(rows, batch[i].entity) + 1

AdvancesAnyNewer(rows, batch, i) ==
  batch[i].version > HeadVersion(rows, batch[i].entity)

AdvancesOrEquals(rows, batch, i) ==
  batch[i].version >= HeadVersion(rows, batch[i].entity)

\* Pass 1: the record at i is entity head + 1, counting earlier records of
\* the same batch.  The code simulates the heads; its first mismatch on an
\* entity is also the first position where this formula fails.
Advances(rows, batch, i) ==
  LET e == batch[i].entity
  IN  batch[i].version = HeadVersion(rows, e) + Rank(FreshOf(rows, batch, e), i) + 1

ConflictingEntities(rows, batch) ==
  {batch[i].entity : i \in {j \in FreshAt(rows, batch) : ~Advances(rows, batch, j)}}

\* The PRIMARY KEY on id: one batch may not insert the same id twice.
Collides(rows, batch) ==
  \E i, j \in FreshAt(rows, batch) : i # j /\ batch[i].id = batch[j].id

\* Mutants of SeqAt: numbering starts at the last number in use; duplicates of
\* the batch use up a number.
SeqFromLast(rows, batch, i) == MaxSeq(rows) + Rank(FreshAt(rows, batch), i)

SeqByPosition(rows, batch, i) == MaxSeq(rows) + i

\* Pass 2: the fresh records in order, under the next sequence numbers.
SeqAt(rows, batch, i) == MaxSeq(rows) + Rank(FreshAt(rows, batch), i) + 1

WithSeq(r, n) == [f \in DOMAIN r \cup {"seq"} |-> IF f = "seq" THEN n ELSE r[f]]

Inserted(rows, batch) ==
  {WithSeq(batch[i], SeqAt(rows, batch, i)) : i \in FreshAt(rows, batch)}

\* Mutant of Accepts: no constraint on the ids of one batch.
AcceptsRepeatedIds(rows, batch) == ConflictingEntities(rows, batch) = {}

Accepts(rows, batch) ==
  /\ ConflictingEntities(rows, batch) = {}
  /\ ~Collides(rows, batch)

\* Mutant of Receipts: a duplicate is answered with a new sequence number.
ReceiptsAsNew(rows, batch) ==
  {<<batch[i].id, SeqAt(rows, batch, i)>> : i \in DOMAIN batch}

\* The reply to an accepted batch: every id with its sequence number, fresh
\* or already stored.
Receipts(rows, batch) ==
  {<<batch[i].id, IF IsStored(rows, batch[i].id)
                  THEN StoredSeq(rows, batch[i].id)
                  ELSE SeqAt(rows, batch, i)>> : i \in DOMAIN batch}

\* Mutant of Since: the cursor is taken for the next row wanted.
SinceNext(rows, cursor) == {r \in rows : r.seq > cursor + 1}

\* ListRecordsSince, cut to limit rows in seq order, and the has_more flag.
Since(rows, cursor) == {r \in rows : r.seq > cursor}

Page(rows, cursor, limit) ==
  {r \in Since(rows, cursor) :
     Cardinality({q \in Since(rows, cursor) : q.seq < r.seq}) < limit}

HasMore(rows, cursor, limit) == Page(rows, cursor, limit) # Since(rows, cursor)

\* The table as the log that RecordLog speaks of.
EntryOf(r) == [id |-> r.id, entity |-> r.entity, version |-> r.version]

LogOf(rows) == [n \in 1..Cardinality(rows) |-> EntryOf(CHOOSE q \in rows : q.seq = n)]
=============================================================================

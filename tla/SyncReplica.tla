---------------------------- MODULE SyncReplica ----------------------------
(***************************************************************************)
(* One device's side of record sync, as operators on a replica record:     *)
(*   row      the snippet table: a document, or NoRow,                     *)
(*   queue    the sync_record table, a set of rows                         *)
(*            [id, entity, version, doc, at, state]; doc is Tomb for a     *)
(*            tombstone, id is <<device, n>> for the n-th record the       *)
(*            device has generated, so that n orders the rows like rowid,  *)
(*   shadow   the sync_shadow table: [version, doc] last agreed with the   *)
(*            server, version 0 when there is no row, doc NoDoc for none,  *)
(*   cursor   sync_config.applied_server_seq,                              *)
(*   history  the bodies in each snippet's version history,                *)
(*   minted   how many record ids this device has generated,               *)
(*   copies   how many conflict copies it has made.                        *)
(* A document is [title, body, deleted]: the title stands for the fields   *)
(* merged by the clock, the body for the body block, deleted for the       *)
(* deleted_at column.  Titles and bodies are numbers that tell the edits   *)
(* apart.  Entities are snippets: the n-th conflict copy that a device     *)
(* makes is Copy(device, n).  Every device holds the account key.  Folders *)
(* and the conflict_of column are not part of a document, so a foreign key *)
(* that misses its row shows as an application that fails (ApplyOne).      *)
(***************************************************************************)
EXTENDS Naturals, FiniteSets, SequencesExt

CONSTANTS NoRow, NoDoc, Tomb

Merge == INSTANCE RecordMerge WITH Null <- NoDoc

-----------------------------------------------------------------------------
\* The outbox.

Copy(d, n) == <<"s", d, n>>

QueueOf(R, e) == {q \in R.queue : q.entity = e}

Pending(R) == {q \in R.queue : q.state = "pending"}

Unsent(R) == {q \in R.queue : q.state # "applied"}

Parked(R, e) == \E q \in QueueOf(R, e) : q.state = "conflict"

\* Rows in rowid order.
InOrder(rows) ==
  [n \in 1..Cardinality(rows) |->
     CHOOSE q \in rows : Cardinality({p \in rows : p.id[2] <= q.id[2]}) = n]

\* Mutant of NextVersion: the queue is not looked at.
NextAfterShadow(R, e) == R.shadow[e].version + 1

\* next_version: one past the shadow head and every queued version.
NextVersion(R, e) ==
  Max({R.shadow[e].version} \cup {q.version : q \in QueueOf(R, e)}) + 1

\* The record of highest version among some of an entity's.
Newest(rows) == CHOOSE q \in rows : \A p \in rows : p.version <= q.version

ConflictHead(R, e) == Newest({q \in QueueOf(R, e) : q.state = "conflict"})

\* The n-th record device d generates: document doc (Tomb for a tombstone) as
\* the next version of e, stamped with the local clock.
NewRecord(R, d, n, e, doc, now) ==
  [id |-> <<d, n>>, entity |-> e, version |-> NextVersion(R, e),
   doc |-> doc, at |-> now, state |-> "pending"]

\* Mutant of Enqueue: a newer change replaces the pending ones.
EnqueueCoalesced(R, d, e, doc, now) ==
  [R EXCEPT !.queue = (@ \ {q \in Pending(R) : q.entity = e})
                        \cup {NewRecord(R, d, R.minted + 1, e, doc, now)},
            !.minted = @ + 1]

\* enqueue_change.
Enqueue(R, d, e, doc, now) ==
  [R EXCEPT !.queue = @ \cup {NewRecord(R, d, R.minted + 1, e, doc, now)},
            !.minted = @ + 1]

\* enqueue_change for a content change: the row as it is now, nothing when
\* there is none.
EnqueueRow(R, d, e, now) ==
  IF R.row[e] = NoRow THEN R ELSE Enqueue(R, d, e, R.row[e], now)

\* Mutant of ClearConflicts: a merge leaves the parked record behind.
ClearNoConflicts(R, e) == R

ClearConflicts(R, e) ==
  [R EXCEPT !.queue = {q \in @ : ~(q.entity = e /\ q.state = "conflict")}]

SetState(R, rows, state) ==
  [R EXCEPT !.queue = (@ \ rows) \cup {[q EXCEPT !.state = state] : q \in rows}]

\* Mutant of MarkConflicted: a refused record stays pending.
MarkNothing(R, E) == R

MarkConflicted(R, E) == SetState(R, {q \in Pending(R) : q.entity \in E}, "conflict")

\* Mutant of PutShadow: a tombstone is stored as if it were a document.
PutShadowTomb(R, e, version, doc) ==
  [R EXCEPT !.shadow[e] = [version |-> version, doc |-> doc]]

\* shadow_put; a tombstone leaves no document.
PutShadow(R, e, version, doc) ==
  [R EXCEPT !.shadow[e] = [version |-> version, doc |-> IF doc = Tomb THEN NoDoc ELSE doc]]

\* mark_applied.
Accepted(R, q) == SetState(R, {p \in R.queue : p.id = q.id}, "applied")

\* Mutants of MarkApplied: the base is taken from the row as it is now; there is
\* no new base.
MarkAppliedRow(R, q) == PutShadow(Accepted(R, q), q.entity, q.version, R.row[q.entity])

MarkAppliedOnly(R, q) == Accepted(R, q)

\* The accepted branch of push: mark_applied and the new shadow base, record by
\* record of the batch.
MarkApplied(R, q) == PutShadow(Accepted(R, q), q.entity, q.version, q.doc)

AcknowledgeAll(R, batch) ==
  LET marked[n \in 0..Len(batch)] ==
        IF n = 0 THEN R ELSE MarkApplied(marked[n - 1], batch[n])
  IN  marked[Len(batch)]

-----------------------------------------------------------------------------
\* Applying remote records.

\* payload.rs apply_document and apply_tombstone, for snippets.
ApplyDocument(R, e, doc) == [R EXCEPT !.row[e] = doc]

Live(R, e) == R.row[e] # NoRow /\ ~R.row[e].deleted

ApplyTombstone(R, e) ==
  IF Live(R, e) THEN [R EXCEPT !.row[e].deleted = TRUE] ELSE R

PreserveHistory(R, e) ==
  IF R.row[e] = NoRow THEN R ELSE [R EXCEPT !.history[e] = @ \cup {R.row[e].body}]

\* A hard delete takes the version history with it (ON DELETE CASCADE).
HardDelete(R, e) == [R EXCEPT !.row[e] = NoRow, !.history[e] = {}]

\* apply_opened, when the database takes every write of it.
ApplyOpened(R, r) ==
  PutShadow(IF r.doc = Tomb THEN ApplyTombstone(R, r.entity)
                            ELSE ApplyDocument(R, r.entity, r.doc),
            r.entity, r.version, r.doc)

\* Mutant of AdoptTombstone: the parked edit wins and brings the snippet back.
AdoptEdit(R, r) ==
  EnqueueRow(ClearConflicts(PutShadow(R, r.entity, r.version, Tomb), r.entity),
             ConflictHead(R, r.entity).id[1], r.entity, ConflictHead(R, r.entity).at)

\* A remote tombstone wins over a parked edit and agrees with a parked
\* tombstone; only the edit's content is worth preserving.
AdoptTombstone(R, r) ==
  LET kept == IF ConflictHead(R, r.entity).doc = Tomb THEN R ELSE PreserveHistory(R, r.entity)
  IN  ClearConflicts(PutShadow(ApplyTombstone(kept, r.entity), r.entity, r.version, Tomb),
                     r.entity)

\* Mutant of KeepTombstone: the tombstone is not queued again.
KeepTombstoneHere(R, d, r, now) ==
  LET applied == PreserveHistory(ApplyDocument(R, r.entity, r.doc), r.entity)
  IN  ClearConflicts(PutShadow(ApplyTombstone(applied, r.entity), r.entity, r.version, r.doc),
                     r.entity)

\* A parked tombstone wins over remote content: the content goes to the
\* recycle bin and the history, the tombstone is queued again.
KeepTombstone(R, d, r, now) ==
  LET applied == PreserveHistory(ApplyDocument(R, r.entity, r.doc), r.entity)
      shadowed == PutShadow(ApplyTombstone(applied, r.entity), r.entity, r.version, r.doc)
  IN  Enqueue(ClearConflicts(shadowed, r.entity), d, r.entity, Tomb, now)

\* Mutant of MakeCopy: no copy.
MakeNoCopy(R, d, e, local, now) == R

\* create_conflict_copy: the local body as a new snippet of its own.
MakeCopy(R, d, e, local, now) ==
  LET copy == Copy(d, R.copies + 1)
      doc == [local EXCEPT !.deleted = FALSE]
  IN  EnqueueRow([ApplyDocument(R, copy, doc) EXCEPT !.copies = @ + 1], d, copy, now)

\* Content against content: the three-way merge of merge.rs, field by field.
MergeContent(R, d, r, now) ==
  LET e == r.entity
      base == IF R.shadow[e].doc = NoDoc
              THEN [title |-> NoDoc, body |-> NoDoc, deleted |-> FALSE] ELSE R.shadow[e].doc
      local == R.row[e]
      localWins == Merge!LocalWins([at |-> ConflictHead(R, e).at, device |-> d],
                                   [at |-> r.at, device |-> r.device])
      merged == [title |-> Merge!Pick(base.title, local.title, r.doc.title, localWins),
                 body |-> Merge!MergedBody(base.body, local.body, r.doc.body),
                 deleted |-> Merge!Pick(base.deleted, local.deleted, r.doc.deleted, localWins)]
      applied == ApplyDocument(R, e, merged)
      copied == IF Merge!BodyConflict(base.body, local.body, r.doc.body)
                THEN MakeCopy(applied, d, e, local, now) ELSE applied
  IN  IF local = NoRow
      THEN ClearConflicts(ApplyOpened(R, r), e)
      ELSE EnqueueRow(ClearConflicts(PutShadow(copied, e, r.version, r.doc), e), d, e, now)

\* soft_delete fails on a row that is already in the recycle bin: a parked
\* tombstone cannot be resolved against content that arrives deleted.
MergeFails(R, r) ==
  /\ r.doc # Tomb
  /\ ConflictHead(R, r.entity).doc = Tomb
  /\ r.doc.deleted

\* merge_conflicted: a failure rolls the savepoint back and leaves the
\* conflict parked.
MergeConflicted(R, d, r, now) ==
  IF MergeFails(R, r) THEN R
  ELSE IF r.doc = Tomb THEN AdoptTombstone(R, r)
  ELSE IF ConflictHead(R, r.entity).doc = Tomb THEN KeepTombstone(R, d, r, now)
  ELSE MergeContent(R, d, r, now)

\* Mutants of Skips: own queued versions count as known; a replayed version is
\* applied.
SkipsQueued(R, d, r) == r.device = d \/ r.version < NextVersion(R, r.entity)

SkipsOwnOnly(R, d, r) == r.device = d

\* apply_one skips the device's own records and whatever does not advance the
\* shadow head.
Skips(R, d, r) == r.device = d \/ r.version <= R.shadow[r.entity].version

Merges(R, d, r, fails) ==
  ~Skips(R, d, r) /\ ~fails /\ Parked(R, r.entity) /\ ~MergeFails(R, r)

\* A record that cannot be verified, or whose application or merge fails (the
\* folder or the source of a conflict copy is gone from this device and a
\* foreign key refuses the row, the document is out of bounds), is rolled back
\* to its savepoint and counted as skipped; what is parked stays parked.
ApplyOne(R, d, r, now, fails) ==
  IF Skips(R, d, r) \/ fails THEN R
  ELSE IF Parked(R, r.entity) THEN MergeConflicted(R, d, r, now)
  ELSE ApplyOpened(R, r)

\* One page in one transaction, watermark included, whatever fails in it;
\* applied[n] is what there is after the rows up to server_seq n.
ApplyPage(R, d, page, failing, now) ==
  LET last == Max({r.seq : r \in page})
      At(n) == CHOOSE r \in page : r.seq = n
      Step(acc, r) == [R |-> ApplyOne(acc.R, d, r, now, r \in failing),
                       merged |-> acc.merged \/ Merges(acc.R, d, r, r \in failing)]
      applied[n \in 0..last] ==
        IF n = 0 THEN [R |-> R, merged |-> FALSE]
        ELSE IF \E r \in page : r.seq = n THEN Step(applied[n - 1], At(n))
        ELSE applied[n - 1]
  IN  [R |-> [applied[last].R EXCEPT !.cursor = last], merged |-> applied[last].merged]

-----------------------------------------------------------------------------
\* The catch-up pass that runs when the observer is attached.

\* Mutant of Promised: the queue is not looked at.
PromisedByShadow(R, e) == R.shadow[e].doc

\* What the others will hear of an entity: the newest document still to be
\* sent, or the shadow's when there is none.
Promised(R, e) ==
  LET unsent == QueueOf(R, e) \cap Unsent(R)
  IN  IF unsent # {} THEN Newest(unsent).doc ELSE R.shadow[e].doc

\* A live snippet that differs from that, or one that is gone and should be a
\* tombstone.
Unaccounted(R, e) ==
  IF Live(R, e) THEN Promised(R, e) # R.row[e]
                ELSE R.shadow[e].doc # NoDoc /\ Promised(R, e) # Tomb

\* One record for each of them, in any order.
Reconcile(R, d, now) ==
  LET todo == SetToSeq({e \in DOMAIN R.row : Unaccounted(R, e)})
      Missing(n) == NewRecord(R, d, R.minted + n, todo[n],
                              IF Live(R, todo[n]) THEN R.row[todo[n]] ELSE Tomb, now)
  IN  [R EXCEPT !.queue = @ \cup {Missing(n) : n \in DOMAIN todo},
                !.minted = @ + Len(todo)]
=============================================================================

------------------------- MODULE SyncRounds_proofs -------------------------
(***************************************************************************)
(* The sync rounds of any number of devices, whatever they edit, lose and  *)
(* restart: the types hold, the shadow and the watermark claim nothing     *)
(* that never was, the queue stays fit to be pushed from, the shadow only  *)
(* advances, and the devices and the server implement RecordLog.           *)
(***************************************************************************)
EXTENDS SyncRounds, RecordStore_proofs

-----------------------------------------------------------------------------
\* The inductive invariant, part by part.  R is a device's replica, t its
\* round, d the device and rows the server's table.

\* Ids name the device that generated them, and count its records.
IdsCounted(R, d, rows) ==
  /\ \A q \in R.queue : q.id[1] = d /\ q.id[2] <= R.minted
  /\ \A r \in rows : r.id[1] = r.device
  /\ \A r \in rows : r.device = d => r.id[2] <= R.minted

\* The queue has one row per id, and an entity's versions follow the ids.
QueueOrdered(R) ==
  /\ IsFiniteSet(R.queue)
  /\ \A p, q \in R.queue : p.id = q.id => p = q
  /\ \A p, q \in R.queue :
       p.entity = q.entity /\ p.id[2] < q.id[2] => p.version < q.version

\* A queued record that reached the server is there as it is in the queue.
SentAsQueued(R, rows) ==
  \A q \in R.queue : \A r \in rows :
    r.id = q.id => r.entity = q.entity /\ r.version = q.version /\ r.doc = q.doc

\* The server stored this state of e.
Agreed(rows, e, version, doc) ==
  \E r \in rows : /\ r.entity = e /\ r.version = version
                  /\ doc = IF r.doc = Tomb THEN NoDoc ELSE r.doc

ShadowAgreed(R, rows) ==
  \A e \in Entities :
    R.shadow[e].version > 0 => Agreed(rows, e, R.shadow[e].version, R.shadow[e].doc)

Sound(R, d, rows) ==
  /\ R \in Replica
  /\ IdsCounted(R, d, rows)
  /\ QueueOrdered(R)
  /\ SentAsQueued(R, rows)
  /\ ShadowAgreed(R, rows)

\* A pending record the server has already (its reply was lost) is ahead of
\* the shadow: acknowledging it moves the shadow forward.
StoredAreAhead(R, rows) ==
  \A q \in Pending(R) :
    IsStored(rows, q.id) => q.version > R.shadow[q.entity].version

NoneStored(R, rows) == \A q \in Pending(R) : ~IsStored(rows, q.id)

\* Record r was applied or merged, or is held back.
Accounted(R, r) ==
  R.shadow[r.entity].version >= r.version \/ HeldBack(R, r.entity)

\* Every foreign record up to number c is, but for those among U, whose
\* application failed.
PassedAccounted(R, d, rows, c, U) ==
  \A r \in rows : Foreign(d, r) /\ r.seq <= c => Accounted(R, r) \/ <<d, r.seq>> \in U

\* The batch is the front of the pending rows.
IsFront(R, batch) ==
  /\ \A i \in DOMAIN batch : batch[i] \in Pending(R)
  /\ \A i, j \in DOMAIN batch : batch[i].id = batch[j].id => i = j
  /\ \A i \in DOMAIN batch : \A p \in Pending(R) :
       p.id[2] <= batch[i].id[2] => \E j \in DOMAIN batch : j <= i /\ p = batch[j]

\* A round pulls only when nothing it could push is stored already, and its
\* batch on the wire is stored when it was accepted.
RoundFits(R, t, rows) ==
  /\ t.at \in {"pull", "end"} => NoneStored(R, rows)
  /\ t.at = "reply" => /\ IsFront(R, t.batch)
                       /\ t.heads = {} => \A i \in DOMAIN t.batch : IsStored(rows, t.batch[i].id)

DeviceFits(R, t, d, rows, U) ==
  /\ Sound(R, d, rows)
  /\ R.cursor <= MaxSeq(rows)
  /\ StoredAreAhead(R, rows)
  /\ PassedAccounted(R, d, rows, R.cursor, U)
  /\ RoundFits(R, t, rows)

Inv ==
  /\ TypeOK
  /\ LogRows(record)
  /\ \A d \in Device : DeviceFits(replica[d], round[d], d, record, unapplied)

-----------------------------------------------------------------------------
\* The operators the replica is built from.

LEMMA EntitiesFinite ==
  /\ IsFiniteSet(Entities)
  /\ Snippet \in Entities
  /\ \A d \in Device, n \in 1..MaxCopies : Copy(d, n) \in Entities
<1> DEFINE places == Device \X (1..MaxCopies)
           named == {Copy(d, n) : d \in Device, n \in 1..MaxCopies}
           f == [p \in places |-> Copy(p[1], p[2])]
<1>1. IsFiniteSet(Device) /\ MaxCopies \in Nat
  BY RoundsAssumption
<1>2. IsFiniteSet(1..MaxCopies)
  BY <1>1, UpTo
<1>3. IsFiniteSet(places)
  BY <1>1, <1>2, FS_Product
<1>4. f \in Surjection(places, named)
  <2>1. f \in [places -> named]
    OBVIOUS
  <2>2. ASSUME NEW t \in named PROVE \E p \in places : f[p] = t
    <3>1. PICK d \in Device, n \in 1..MaxCopies : t = Copy(d, n)
      OBVIOUS
    <3>2. <<d, n>> \in places /\ f[<<d, n>>] = t
      BY <3>1
    <3> QED BY <3>2
  <2> QED BY <2>1, <2>2 DEF Surjection
<1>5. IsFiniteSet(named)
  BY <1>3, <1>4, FS_Surjection
<1> QED BY <1>5, FS_AddElement DEF Entities

\* The next version of an entity is above its shadow and its queued versions.
LEMMA NextVersionIsNext ==
  ASSUME NEW R \in Replica, IsFiniteSet(R.queue), NEW e \in Entities
  PROVE  /\ NextVersion(R, e) \in Nat \ {0}
         /\ NextVersion(R, e) > R.shadow[e].version
         /\ \A q \in R.queue : q.entity = e => q.version < NextVersion(R, e)
<1> DEFINE mine == QueueOf(R, e)
           versions == {q.version : q \in mine}
           f == [q \in mine |-> q.version]
           all == {R.shadow[e].version} \cup versions
<1>1. IsFiniteSet(mine) /\ \A q \in mine : q.version \in Nat
  BY FS_Subset DEF QueueOf, Replica, QueueRow
<1>2. f \in Surjection(mine, versions)
  BY DEF Surjection
<1>3. IsFiniteSet(versions) /\ versions \in SUBSET Nat
  BY <1>1, <1>2, FS_Surjection
<1>4. R.shadow[e].version \in Nat
  BY DEF Replica
<1>5. IsFiniteSet(all) /\ all \in SUBSET Nat /\ all # {}
  <2>1. all = versions \cup {R.shadow[e].version} /\ all # {}
    OBVIOUS
  <2>2. IsFiniteSet(versions \cup {R.shadow[e].version})
    BY <1>3, FS_AddElement
  <2> QED BY <1>3, <1>4, <2>1, <2>2
<1>6. Max(all) \in Nat /\ \A v \in all : v <= Max(all)
  BY <1>5, MaxIsLargest
<1>7. NextVersion(R, e) = Max(all) + 1
  BY DEF NextVersion
<1>8. \A v \in all : v \in Nat /\ v < Max(all) + 1
  <2> HIDE DEF all
  <2> QED BY <1>5, <1>6
<1>9. \A q \in R.queue : q.entity = e => q.version \in all
  BY DEF QueueOf
<1> HIDE DEF all
<1>10. R.shadow[e].version \in all
  BY DEF all
<1> QED BY <1>4, <1>6, <1>7, <1>8, <1>9, <1>10

LEMMA NewestIsNewest ==
  ASSUME NEW rows, IsFiniteSet(rows), rows # {}, \A q \in rows : q.version \in Nat
  PROVE  Newest(rows) \in rows /\ \A p \in rows : p.version <= Newest(rows).version
BY NewestExists DEF Newest

\* Rows in rowid order: each once, the smaller id first.
LEMMA InOrderLists ==
  ASSUME NEW rows, IsFiniteSet(rows), \A q \in rows : q.id[2] \in Nat,
         \A p, q \in rows : p.id[2] = q.id[2] => p = q
  PROVE  /\ Cardinality(rows) \in Nat
         /\ DOMAIN InOrder(rows) = 1..Cardinality(rows)
         /\ \A n \in DOMAIN InOrder(rows) : InOrder(rows)[n] \in rows
         /\ \A q \in rows : \E n \in DOMAIN InOrder(rows) : InOrder(rows)[n] = q
         /\ \A m, n \in DOMAIN InOrder(rows) :
              InOrder(rows)[m].id[2] <= InOrder(rows)[n].id[2] => m <= n
         /\ \A m, n \in DOMAIN InOrder(rows) : InOrder(rows)[m] = InOrder(rows)[n] => m = n
<1>1. InOrder(rows) = Ranked(rows)
  BY DEF InOrder, Ranked
<1> QED BY <1>1, RankedLists

-----------------------------------------------------------------------------
\* What the operations on a replica keep.

\* The fields the invariant speaks of are as they were.
SameSync(R, S) ==
  /\ S \in Replica
  /\ S.queue = R.queue /\ S.shadow = R.shadow
  /\ S.minted = R.minted /\ S.cursor = R.cursor

LEMMA SameSyncKeeps ==
  ASSUME NEW d, NEW rows, NEW R, NEW S, Sound(R, d, rows), SameSync(R, S)
  PROVE  Sound(S, d, rows) /\ Pending(S) = Pending(R)
BY DEF Sound, SameSync, IdsCounted, QueueOrdered, SentAsQueued, ShadowAgreed, Pending

LEMMA ApplyDocumentSame ==
  ASSUME NEW R \in Replica, NEW e \in Entities, NEW doc \in Doc
  PROVE  SameSync(R, ApplyDocument(R, e, doc)) /\ ApplyDocument(R, e, doc).copies = R.copies
BY DEF SameSync, ApplyDocument, Replica

LEMMA ApplyTombstoneSame ==
  ASSUME NEW R \in Replica, NEW e \in Entities
  PROVE  SameSync(R, ApplyTombstone(R, e)) /\ ApplyTombstone(R, e).copies = R.copies
<1>1. CASE Live(R, e)
  <2>1. R.row[e] \in Doc
    BY <1>1 DEF Live, Replica
  <2> DEFINE doc == [R.row[e] EXCEPT !.deleted = TRUE]
  <2>2. doc \in Doc
    BY <2>1 DEF Doc
  <2>3. ApplyTombstone(R, e) = [R EXCEPT !.row[e] = doc]
    BY <1>1 DEF ApplyTombstone
  <2> HIDE DEF doc
  <2> QED BY <2>2, <2>3 DEF SameSync, Replica
<1>2. CASE ~Live(R, e)
  BY <1>2 DEF SameSync, ApplyTombstone
<1> QED BY <1>1, <1>2

LEMMA PreserveHistorySame ==
  ASSUME NEW R \in Replica, NEW e \in Entities
  PROVE  SameSync(R, PreserveHistory(R, e)) /\ PreserveHistory(R, e).copies = R.copies
<1>1. CASE R.row[e] = NoRow
  BY <1>1 DEF SameSync, PreserveHistory
<1>2. CASE R.row[e] # NoRow
  <2>1. R.row[e].body \in 0..MaxEdits
    BY <1>2 DEF Replica, Doc
  <2> QED BY <1>2, <2>1 DEF SameSync, PreserveHistory, Replica
<1> QED BY <1>1, <1>2

LEMMA HardDeleteSame ==
  ASSUME NEW R \in Replica, NEW e \in Entities
  PROVE  SameSync(R, HardDelete(R, e)) /\ HardDelete(R, e).copies = R.copies
BY DEF SameSync, HardDelete, Replica

\* New pending rows, each the next version of an entity of its own.
QueueGrows(R, S, d, new) ==
  /\ S \in Replica
  /\ S.queue = R.queue \cup new /\ S.shadow = R.shadow
  /\ S.minted >= R.minted /\ S.cursor = R.cursor
  /\ IsFiniteSet(new)
  /\ \A q \in new : /\ q.state = "pending"
                    /\ q.id[1] = d /\ q.id[2] > R.minted /\ q.id[2] <= S.minted
                    /\ \A p \in R.queue : p.entity = q.entity => p.version < q.version
  /\ \A p, q \in new : p.id = q.id \/ p.entity = q.entity => p = q

LEMMA GrownKeeps ==
  ASSUME NEW d \in Device, NEW rows \in SUBSET ServerRow, NEW R, NEW S, NEW new,
         Sound(R, d, rows), QueueGrows(R, S, d, new)
  PROVE  /\ Sound(S, d, rows)
         /\ Pending(S) = Pending(R) \cup new
         /\ \A q \in new : ~IsStored(rows, q.id)
<1>1. /\ R \in Replica /\ S \in Replica
      /\ R.minted \in Nat /\ S.minted \in Nat
      /\ \A q \in S.queue : q.id[2] \in Nat /\ q.version \in Nat
      /\ \A r \in rows : r.id[2] \in Nat
  BY DEF Sound, QueueGrows, Replica, QueueRow, ServerRow
<1>2. ASSUME NEW q \in new, NEW r \in rows, r.id = q.id PROVE FALSE
  <2>1. r.id[1] = r.device /\ r.id[1] = d /\ r.id[2] > R.minted
    BY <1>2 DEF Sound, IdsCounted, QueueGrows
  <2>2. r.id[2] <= R.minted
    BY <2>1 DEF Sound, IdsCounted
  <2> QED BY <1>1, <2>1, <2>2
<1>3. IdsCounted(S, d, rows)
  BY <1>1 DEF Sound, IdsCounted, QueueGrows
<1>4. QueueOrdered(S)
  <2>1. IsFiniteSet(S.queue)
    <3>1. IsFiniteSet(R.queue) /\ IsFiniteSet(new) /\ S.queue = R.queue \cup new
      BY DEF Sound, QueueOrdered, QueueGrows
    <3> QED BY <3>1, FS_Union
  <2>2. ASSUME NEW p \in R.queue, NEW q \in new
        PROVE  p.id[2] < q.id[2] /\ (p.entity = q.entity => p.version < q.version)
    <3>1. p \in S.queue /\ q \in S.queue
      BY DEF QueueGrows
    <3>2. p.id[2] <= R.minted /\ q.id[2] > R.minted
      BY DEF Sound, IdsCounted, QueueGrows
    <3> QED BY <1>1, <3>1, <3>2 DEF QueueGrows
  <2>3. /\ \A p, q \in R.queue : p.id = q.id => p = q
        /\ \A p, q \in R.queue : p.entity = q.entity /\ p.id[2] < q.id[2] => p.version < q.version
        /\ \A p, q \in new : p.id = q.id \/ p.entity = q.entity => p = q
        /\ S.queue = R.queue \cup new
    BY DEF Sound, QueueOrdered, QueueGrows
  <2>4. ASSUME NEW p \in S.queue, NEW q \in S.queue
        PROVE  /\ p.id = q.id => p = q
               /\ p.entity = q.entity /\ p.id[2] < q.id[2] => p.version < q.version
    <3>1. p.id[2] \in Nat /\ q.id[2] \in Nat
      BY <1>1
    <3>2. ~(p.id[2] < p.id[2]) /\ ~(p.id[2] < q.id[2] /\ q.id[2] < p.id[2])
      BY <3>1
    <3>3. p.id = q.id => ~(p.id[2] < q.id[2]) /\ ~(q.id[2] < p.id[2])
      BY <3>2
    <3> QED BY <2>2, <2>3, <3>2, <3>3
  <2> QED BY <2>1, <2>4 DEF QueueOrdered
<1>5. SentAsQueued(S, rows)
  BY <1>2 DEF Sound, SentAsQueued, QueueGrows
<1>6. ShadowAgreed(S, rows)
  BY DEF Sound, ShadowAgreed, QueueGrows
<1>7. Pending(S) = Pending(R) \cup new
  BY DEF Pending, QueueGrows
<1> QED BY <1>1, <1>2, <1>3, <1>4, <1>5, <1>6, <1>7 DEF Sound, IsStored

Requeued(R, rows, n) == [R EXCEPT !.queue = rows, !.minted = n]

LEMMA RequeuedTyped ==
  ASSUME NEW R \in Replica, NEW rows \in SUBSET QueueRow, NEW n \in Nat
  PROVE  LET S == Requeued(R, rows, n)
         IN  /\ S \in Replica /\ S.row = R.row /\ S.queue = rows /\ S.shadow = R.shadow
             /\ S.minted = n /\ S.cursor = R.cursor /\ S.copies = R.copies
BY DEF Requeued, Replica

LEMMA EnqueueGrows ==
  ASSUME NEW d \in Device, NEW rows, NEW R, Sound(R, d, rows),
         NEW e \in Entities, NEW doc \in Doc \cup {Tomb}, NEW now \in Now
  PROVE  /\ QueueGrows(R, Enqueue(R, d, e, doc, now), d,
                       {NewRecord(R, d, R.minted + 1, e, doc, now)})
         /\ Enqueue(R, d, e, doc, now).copies = R.copies
<1> DEFINE S == Enqueue(R, d, e, doc, now)
           q == NewRecord(R, d, R.minted + 1, e, doc, now)
<1>1. /\ R \in Replica /\ R.minted \in Nat /\ IsFiniteSet(R.queue)
      /\ NextVersion(R, e) \in Nat \ {0}
      /\ \A p \in R.queue : p.entity = e => p.version < NextVersion(R, e)
  BY NextVersionIsNext DEF Sound, QueueOrdered, Replica
<1>2. /\ q \in QueueRow /\ q.state = "pending" /\ q.id = <<d, R.minted + 1>>
      /\ q.entity = e /\ q.version = NextVersion(R, e)
  BY <1>1 DEF NewRecord, QueueRow
<1>3. S = [R EXCEPT !.queue = @ \cup {q}, !.minted = @ + 1]
  BY DEF Enqueue
<1> HIDE DEF q, S
<1>4. /\ S \in Replica /\ S.queue = R.queue \cup {q} /\ S.shadow = R.shadow
      /\ S.minted = R.minted + 1 /\ S.cursor = R.cursor /\ S.copies = R.copies
  <2>1. R.queue \cup {q} \in SUBSET QueueRow /\ R.minted + 1 \in Nat
    BY <1>1, <1>2 DEF Replica
  <2>2. S = Requeued(R, R.queue \cup {q}, R.minted + 1)
    BY <1>1, <1>3 DEF Replica, Requeued
  <2> QED BY <1>1, <2>1, <2>2, RequeuedTyped
<1>5. IsFiniteSet({q})
  BY FS_Singleton
<1>6. q.id[1] = d /\ q.id[2] = R.minted + 1
  BY <1>2
<1>7. R.minted + 1 > R.minted /\ R.minted + 1 >= R.minted /\ R.minted + 1 <= R.minted + 1
  BY <1>1
<1>8. QueueGrows(R, S, d, {q})
  BY <1>1, <1>2, <1>4, <1>5, <1>6, <1>7 DEF QueueGrows
<1> QED BY <1>4, <1>8 DEF S, q

\* The operations count copies and nothing else does: said for replicas of
\* which no more is known than their fields, so that it holds of a page that
\* makes more copies than a behaviour may.
Fields == {"row", "queue", "shadow", "cursor", "history", "minted", "copies"}

HasFields(R) == R = [f \in Fields |-> R[f]] /\ R.copies \in Nat

SameCopies(R, S) == HasFields(S) /\ S.copies = R.copies

LEMMA ReplicaHasFields == ASSUME NEW R \in Replica PROVE HasFields(R)
<1>1. MaxCopies \in Nat
  BY RoundsAssumption
<1> QED BY <1>1 DEF HasFields, Fields, Replica

LEMMA ApplyDocumentSameCopies ==
  ASSUME NEW R, HasFields(R), NEW e, NEW doc
  PROVE  SameCopies(R, ApplyDocument(R, e, doc))
BY DEF SameCopies, HasFields, Fields, ApplyDocument

LEMMA ApplyTombstoneSameCopies ==
  ASSUME NEW R, HasFields(R), NEW e
  PROVE  SameCopies(R, ApplyTombstone(R, e))
BY DEF SameCopies, HasFields, Fields, ApplyTombstone

LEMMA PreserveHistorySameCopies ==
  ASSUME NEW R, HasFields(R), NEW e
  PROVE  SameCopies(R, PreserveHistory(R, e))
BY DEF SameCopies, HasFields, Fields, PreserveHistory

LEMMA PutShadowSameCopies ==
  ASSUME NEW R, HasFields(R), NEW e, NEW v, NEW doc
  PROVE  SameCopies(R, PutShadow(R, e, v, doc))
BY DEF SameCopies, HasFields, Fields, PutShadow

LEMMA ClearConflictsSameCopies ==
  ASSUME NEW R, HasFields(R), NEW e
  PROVE  SameCopies(R, ClearConflicts(R, e))
BY DEF SameCopies, HasFields, Fields, ClearConflicts

LEMMA EnqueueSameCopies ==
  ASSUME NEW R, HasFields(R), NEW d, NEW e, NEW doc, NEW now
  PROVE  SameCopies(R, Enqueue(R, d, e, doc, now))
BY DEF SameCopies, HasFields, Fields, Enqueue

LEMMA EnqueueRowSameCopies ==
  ASSUME NEW R, HasFields(R), NEW d, NEW e, NEW now
  PROVE  SameCopies(R, EnqueueRow(R, d, e, now))
BY EnqueueSameCopies DEF SameCopies, EnqueueRow

\* What a step that concerns entity e leaves alone.
Fine(R, d, rows) == Sound(R, d, rows) /\ NoneStored(R, rows)

Spares(R, S, e) ==
  /\ S.cursor = R.cursor
  /\ \A q \in R.queue : q.entity # e => q \in S.queue
  /\ \A x \in Entities : x # e => S.shadow[x] = R.shadow[x]

LEMMA SparesTransitive ==
  ASSUME NEW R, NEW S, NEW T, NEW e, Spares(R, S, e), Spares(S, T, e)
  PROVE  Spares(R, T, e)
BY DEF Spares

LEMMA SameSyncFine ==
  ASSUME NEW d, NEW rows, NEW R, NEW S, Fine(R, d, rows), SameSync(R, S), NEW e
  PROVE  Fine(S, d, rows) /\ Spares(R, S, e)
BY SameSyncKeeps DEF Fine, NoneStored, SameSync, Spares

LEMMA PutShadowFields ==
  ASSUME NEW R \in Replica, NEW e \in Entities, NEW v \in Nat, NEW doc \in Doc \cup {Tomb}
  PROVE  LET S == PutShadow(R, e, v, doc)
         IN  /\ S \in Replica /\ S.row = R.row /\ S.queue = R.queue
             /\ S.minted = R.minted /\ S.cursor = R.cursor /\ S.copies = R.copies
             /\ S.shadow[e] = [version |-> v, doc |-> IF doc = Tomb THEN NoDoc ELSE doc]
             /\ \A x \in Entities : x # e => S.shadow[x] = R.shadow[x]
<1> DEFINE s == [version |-> v, doc |-> IF doc = Tomb THEN NoDoc ELSE doc]
<1>1. s \in [version : Nat, doc : Doc \cup {NoDoc}]
  OBVIOUS
<1>2. PutShadow(R, e, v, doc) = [R EXCEPT !.shadow[e] = s]
  BY DEF PutShadow
<1>3. R.shadow \in [Entities -> [version : Nat, doc : Doc \cup {NoDoc}]]
  BY DEF Replica
<1> HIDE DEF s
<1>4. QED
  <2> SUFFICES LET S == [R EXCEPT !.shadow[e] = s]
               IN  /\ S \in Replica /\ S.row = R.row /\ S.queue = R.queue
                   /\ S.minted = R.minted /\ S.cursor = R.cursor /\ S.copies = R.copies
                   /\ S.shadow[e] = s
                   /\ \A x \in Entities : x # e => S.shadow[x] = R.shadow[x]
    BY <1>2 DEF s
  <2> QED BY <1>1, <1>3 DEF Replica

\* A shadow taken from a stored record.
LEMMA PutShadowSound ==
  ASSUME NEW d, NEW rows \in SUBSET ServerRow, NEW R, Sound(R, d, rows), NEW r \in rows
  PROVE  Sound(PutShadow(R, r.entity, r.version, r.doc), d, rows)
<1> DEFINE S == PutShadow(R, r.entity, r.version, r.doc)
<1>1. r.entity \in Entities /\ r.version \in Nat /\ r.doc \in Doc \cup {Tomb} /\ R \in Replica
  BY DEF ServerRow, Sound
<1>2. /\ S \in Replica /\ S.queue = R.queue /\ S.minted = R.minted
      /\ S.shadow[r.entity] = [version |-> r.version,
                               doc |-> IF r.doc = Tomb THEN NoDoc ELSE r.doc]
      /\ \A x \in Entities : x # r.entity => S.shadow[x] = R.shadow[x]
  BY <1>1, PutShadowFields
<1> HIDE DEF S
<1>3. ShadowAgreed(S, rows)
  <2>1. SUFFICES ASSUME NEW e \in Entities, S.shadow[e].version > 0
                 PROVE  Agreed(rows, e, S.shadow[e].version, S.shadow[e].doc)
    BY DEF ShadowAgreed
  <2>2. CASE e = r.entity
    BY <1>2, <2>2 DEF Agreed
  <2>3. CASE e # r.entity
    BY <1>2, <2>1, <2>3 DEF Sound, ShadowAgreed
  <2> QED BY <2>2, <2>3
<1>4. IdsCounted(S, d, rows) /\ QueueOrdered(S) /\ SentAsQueued(S, rows)
  BY <1>2 DEF Sound, IdsCounted, QueueOrdered, SentAsQueued
<1> QED BY <1>2, <1>3, <1>4 DEF Sound, S

LEMMA PutShadowFine ==
  ASSUME NEW d, NEW rows \in SUBSET ServerRow, NEW R, Fine(R, d, rows), NEW r \in rows
  PROVE  LET S == PutShadow(R, r.entity, r.version, r.doc)
         IN  /\ Fine(S, d, rows) /\ Spares(R, S, r.entity)
             /\ S.shadow[r.entity].version = r.version
             /\ S.queue = R.queue /\ S.row = R.row /\ S.copies = R.copies
<1> DEFINE S == PutShadow(R, r.entity, r.version, r.doc)
<1>1. r.entity \in Entities /\ r.version \in Nat /\ r.doc \in Doc \cup {Tomb} /\ R \in Replica
  BY DEF ServerRow, Sound, Fine
<1>2. /\ S \in Replica /\ S.row = R.row /\ S.queue = R.queue
      /\ S.minted = R.minted /\ S.cursor = R.cursor /\ S.copies = R.copies
      /\ S.shadow[r.entity] = [version |-> r.version,
                               doc |-> IF r.doc = Tomb THEN NoDoc ELSE r.doc]
      /\ \A x \in Entities : x # r.entity => S.shadow[x] = R.shadow[x]
  BY <1>1, PutShadowFields
<1>3. Sound(S, d, rows)
  BY PutShadowSound DEF Fine
<1> HIDE DEF S
<1>4. NoneStored(S, rows)
  BY <1>2 DEF Fine, NoneStored, Pending
<1>5. QED
  <2>1. Fine(S, d, rows) /\ Spares(R, S, r.entity) /\ S.shadow[r.entity].version = r.version
    BY <1>2, <1>3, <1>4 DEF Fine, Spares
  <2> QED BY <1>2, <2>1 DEF S

LEMMA ClearConflictsFields ==
  ASSUME NEW R \in Replica, NEW e
  PROVE  LET S == ClearConflicts(R, e)
         IN  /\ S \in Replica /\ S.row = R.row /\ S.shadow = R.shadow
             /\ S.minted = R.minted /\ S.cursor = R.cursor /\ S.copies = R.copies
             /\ S.queue = {q \in R.queue : ~(q.entity = e /\ q.state = "conflict")}
BY DEF ClearConflicts, Replica

LEMMA ClearConflictsFine ==
  ASSUME NEW d, NEW rows, NEW R, Fine(R, d, rows), NEW e
  PROVE  LET S == ClearConflicts(R, e)
         IN  /\ Fine(S, d, rows) /\ Spares(R, S, e) /\ S.shadow = R.shadow
             /\ S.row = R.row /\ S.copies = R.copies
<1> DEFINE S == ClearConflicts(R, e)
<1>1. /\ S \in Replica /\ S.row = R.row /\ S.shadow = R.shadow
      /\ S.minted = R.minted /\ S.cursor = R.cursor /\ S.copies = R.copies
      /\ S.queue = {q \in R.queue : ~(q.entity = e /\ q.state = "conflict")}
  BY ClearConflictsFields DEF Fine, Sound
<1> HIDE DEF S
<1>2. QueueOrdered(S)
  <2>1. IsFiniteSet(R.queue) /\ S.queue \in SUBSET R.queue
    BY <1>1 DEF Fine, Sound, QueueOrdered
  <2>2. IsFiniteSet(S.queue)
    BY <2>1, FS_Subset
  <2> QED BY <2>1, <2>2 DEF Fine, Sound, QueueOrdered
<1>3. IdsCounted(S, d, rows) /\ SentAsQueued(S, rows) /\ ShadowAgreed(S, rows)
  BY <1>1 DEF Fine, Sound, IdsCounted, SentAsQueued, ShadowAgreed
<1>4. NoneStored(S, rows)
  BY <1>1 DEF Fine, NoneStored, Pending
<1>5. QED
  <2>1. Fine(S, d, rows) /\ Spares(R, S, e)
    BY <1>1, <1>2, <1>3, <1>4 DEF Fine, Sound, Spares
  <2> QED BY <1>1, <2>1 DEF S

LEMMA EnqueueFine ==
  ASSUME NEW d \in Device, NEW rows \in SUBSET ServerRow, NEW R, Fine(R, d, rows),
         NEW e \in Entities, NEW doc \in Doc \cup {Tomb}, NEW now \in Now, NEW x
  PROVE  LET S == Enqueue(R, d, e, doc, now)
         IN  /\ Fine(S, d, rows) /\ Spares(R, S, x) /\ S.shadow = R.shadow
             /\ S.copies = R.copies
<1> DEFINE S == Enqueue(R, d, e, doc, now)
           new == {NewRecord(R, d, R.minted + 1, e, doc, now)}
<1>1. QueueGrows(R, S, d, new) /\ S.copies = R.copies
  BY EnqueueGrows DEF Fine
<1> HIDE DEF S, new
<1>2. /\ Sound(S, d, rows) /\ Pending(S) = Pending(R) \cup new
      /\ \A q \in new : ~IsStored(rows, q.id)
  BY <1>1, GrownKeeps DEF Fine
<1>3. NoneStored(S, rows)
  BY <1>2 DEF Fine, NoneStored
<1>4. QED
  <2>1. Fine(S, d, rows) /\ Spares(R, S, x) /\ S.shadow = R.shadow
    BY <1>1, <1>2, <1>3 DEF Fine, Spares, QueueGrows
  <2> QED BY <1>1, <2>1 DEF S

LEMMA EnqueueRowFine ==
  ASSUME NEW d \in Device, NEW rows \in SUBSET ServerRow, NEW R, Fine(R, d, rows),
         NEW e \in Entities, NEW now \in Now, NEW x
  PROVE  LET S == EnqueueRow(R, d, e, now)
         IN  /\ Fine(S, d, rows) /\ Spares(R, S, x) /\ S.shadow = R.shadow
             /\ S.copies = R.copies
<1>1. CASE R.row[e] = NoRow
  BY <1>1 DEF EnqueueRow, Spares
<1>2. CASE R.row[e] # NoRow
  <2>1. PICK doc \in Doc \cup {Tomb} : doc = R.row[e]
    BY <1>2 DEF Fine, Sound, Replica
  <2>2. EnqueueRow(R, d, e, now) = Enqueue(R, d, e, doc, now)
    BY <1>2, <2>1 DEF EnqueueRow
  <2> QED BY <2>1, <2>2, EnqueueFine
<1> QED BY <1>1, <1>2

-----------------------------------------------------------------------------
\* One record of the feed.

\* The parked record a merge works on.
LEMMA ConflictHeadIsParked ==
  ASSUME NEW R \in Replica, IsFiniteSet(R.queue), NEW e, Parked(R, e)
  PROVE  LET q == ConflictHead(R, e)
         IN  q \in R.queue /\ q.entity = e /\ q.state = "conflict"
<1> DEFINE rows == {q \in QueueOf(R, e) : q.state = "conflict"}
<1>1. rows # {} /\ rows \in SUBSET R.queue
  BY DEF Parked, QueueOf
<1>2. IsFiniteSet(rows) /\ \A q \in rows : q.version \in Nat
  BY <1>1, FS_Subset DEF Replica, QueueRow
<1>3. Newest(rows) \in rows
  BY <1>1, <1>2, NewestIsNewest
<1> QED BY <1>3 DEF ConflictHead, QueueOf

LEMMA ApplyOpenedFine ==
  ASSUME NEW d, NEW rows \in SUBSET ServerRow, NEW R, Fine(R, d, rows), NEW r \in rows
  PROVE  LET S == ApplyOpened(R, r)
         IN  /\ Fine(S, d, rows) /\ Spares(R, S, r.entity)
             /\ S.shadow[r.entity].version = r.version
             /\ S.queue = R.queue /\ S.copies = R.copies
<1> DEFINE T == IF r.doc = Tomb THEN ApplyTombstone(R, r.entity)
                                ELSE ApplyDocument(R, r.entity, r.doc)
<1>1. r.entity \in Entities /\ r.doc \in Doc \cup {Tomb} /\ R \in Replica
  BY DEF ServerRow, Fine, Sound
<1>2. SameSync(R, T) /\ T.copies = R.copies
  <2>1. CASE r.doc = Tomb
    BY <1>1, <2>1, ApplyTombstoneSame
  <2>2. CASE r.doc # Tomb
    <3>1. r.doc \in Doc
      BY <1>1, <2>2
    <3> QED BY <1>1, <2>2, <3>1, ApplyDocumentSame
  <2> QED BY <2>1, <2>2
<1>3. ApplyOpened(R, r) = PutShadow(T, r.entity, r.version, r.doc)
  BY DEF ApplyOpened
<1> HIDE DEF T
<1>4. Fine(T, d, rows) /\ Spares(R, T, r.entity) /\ T.queue = R.queue
  BY <1>2, SameSyncFine DEF SameSync
<1> DEFINE S == PutShadow(T, r.entity, r.version, r.doc)
<1>5. /\ Fine(S, d, rows) /\ Spares(T, S, r.entity)
      /\ S.shadow[r.entity].version = r.version
      /\ S.queue = T.queue /\ S.copies = T.copies
  BY <1>4, PutShadowFine
<1> HIDE DEF S
<1>6. Spares(R, S, r.entity)
  BY <1>4, <1>5, SparesTransitive
<1>7. ApplyOpened(R, r) = S
  BY <1>3 DEF S
<1> QED BY <1>2, <1>4, <1>5, <1>6, <1>7

\* A merge lifts the shadow to the record merged with; the others' rows and
\* shadows stay.
Settles(R, S, d, rows, r) ==
  /\ Fine(S, d, rows)
  /\ Spares(R, S, r.entity)
  /\ S.shadow[r.entity].version = r.version

LEMMA AdoptTombstoneSettles ==
  ASSUME NEW d, NEW rows \in SUBSET ServerRow, NEW R, Fine(R, d, rows), NEW r \in rows,
         r.doc = Tomb
  PROVE  /\ Settles(R, AdoptTombstone(R, r), d, rows, r)
         /\ AdoptTombstone(R, r).copies = R.copies
<1> DEFINE e == r.entity
           T == IF ConflictHead(R, e).doc = Tomb THEN R ELSE PreserveHistory(R, e)
           U == ApplyTombstone(T, e)
           V == PutShadow(U, e, r.version, r.doc)
           S == ClearConflicts(V, e)
<1>1. AdoptTombstone(R, r) = S
  BY DEF AdoptTombstone
<1>2. e \in Entities /\ R \in Replica
  BY DEF ServerRow, Fine, Sound
<1>3. Fine(T, d, rows) /\ Spares(R, T, e) /\ T.copies = R.copies /\ T \in Replica
  <2>1. CASE ConflictHead(R, e).doc = Tomb
    BY <1>2, <2>1 DEF Spares
  <2>2. CASE ConflictHead(R, e).doc # Tomb
    <3>1. T = PreserveHistory(R, e)
      BY <2>2
    <3> HIDE DEF T
    <3> QED BY <1>2, <3>1, PreserveHistorySame, SameSyncFine DEF SameSync
  <2> QED BY <2>1, <2>2
<1> HIDE DEF T
<1>4. Fine(U, d, rows) /\ Spares(T, U, e) /\ U.copies = T.copies
  BY <1>2, <1>3, ApplyTombstoneSame, SameSyncFine
<1> HIDE DEF U
<1>5. /\ Fine(V, d, rows) /\ Spares(U, V, e) /\ V.copies = U.copies
      /\ V.shadow[e].version = r.version
  BY <1>4, PutShadowFine
<1> HIDE DEF V
<1>6. /\ Fine(S, d, rows) /\ Spares(V, S, e) /\ S.copies = V.copies
      /\ S.shadow = V.shadow
  BY <1>5, ClearConflictsFine
<1> HIDE DEF S
<1>7. Spares(R, S, e)
  BY <1>3, <1>4, <1>5, <1>6, SparesTransitive
<1> QED BY <1>1, <1>3, <1>4, <1>5, <1>6, <1>7 DEF Settles

LEMMA KeepTombstoneSettles ==
  ASSUME NEW d \in Device, NEW rows \in SUBSET ServerRow, NEW R, Fine(R, d, rows),
         NEW r \in rows, r.doc # Tomb, NEW now \in Now
  PROVE  /\ Settles(R, KeepTombstone(R, d, r, now), d, rows, r)
         /\ KeepTombstone(R, d, r, now).copies = R.copies
<1> DEFINE e == r.entity
           T == ApplyDocument(R, e, r.doc)
           H == PreserveHistory(T, e)
           U == ApplyTombstone(H, e)
           V == PutShadow(U, e, r.version, r.doc)
           W == ClearConflicts(V, e)
           S == Enqueue(W, d, e, Tomb, now)
<1>1. KeepTombstone(R, d, r, now) = S
  BY DEF KeepTombstone
<1>2. e \in Entities /\ R \in Replica /\ r.doc \in Doc
  BY DEF ServerRow, Fine, Sound
<1>3. Fine(T, d, rows) /\ Spares(R, T, e) /\ T.copies = R.copies /\ T \in Replica
  <2>1. SameSync(R, T) /\ T.copies = R.copies
    BY <1>2, ApplyDocumentSame
  <2> HIDE DEF T
  <2> QED BY <2>1, SameSyncFine DEF SameSync
<1> HIDE DEF T
<1>4. Fine(H, d, rows) /\ Spares(T, H, e) /\ H.copies = T.copies /\ H \in Replica
  BY <1>2, <1>3, PreserveHistorySame, SameSyncFine DEF SameSync
<1> HIDE DEF H
<1>5. Fine(U, d, rows) /\ Spares(H, U, e) /\ U.copies = H.copies
  BY <1>2, <1>4, ApplyTombstoneSame, SameSyncFine
<1> HIDE DEF U
<1>6. /\ Fine(V, d, rows) /\ Spares(U, V, e) /\ V.copies = U.copies
      /\ V.shadow[e].version = r.version
  BY <1>5, PutShadowFine
<1> HIDE DEF V
<1>7. /\ Fine(W, d, rows) /\ Spares(V, W, e) /\ W.copies = V.copies
      /\ W.shadow = V.shadow
  BY <1>6, ClearConflictsFine
<1> HIDE DEF W
<1>8. /\ Fine(S, d, rows) /\ Spares(W, S, e) /\ S.copies = W.copies
      /\ S.shadow = W.shadow
  <2>1. Tomb \in Doc \cup {Tomb}
    OBVIOUS
  <2> QED BY <1>2, <1>7, <2>1, EnqueueFine
<1> HIDE DEF S
<1>9. Spares(R, S, e)
  <2>1. Spares(R, U, e)
    BY <1>3, <1>4, <1>5, SparesTransitive
  <2>2. Spares(U, S, e)
    BY <1>6, <1>7, <1>8, SparesTransitive
  <2> QED BY <2>1, <2>2, SparesTransitive
<1> QED BY <1>1, <1>3, <1>4, <1>5, <1>6, <1>7, <1>8, <1>9 DEF Settles

\* A conflict copy is a new row and a new queued record.
LEMMA MakeCopyFine ==
  ASSUME NEW d \in Device, NEW rows \in SUBSET ServerRow, NEW R, Fine(R, d, rows),
         R.copies + 1 <= MaxCopies,
         NEW e, NEW local \in Doc, NEW now \in Now
  PROVE  LET S == MakeCopy(R, d, e, local, now)
         IN  /\ Fine(S, d, rows) /\ Spares(R, S, e) /\ S.shadow = R.shadow
             /\ S.copies = R.copies + 1
<1> DEFINE copy == Copy(d, R.copies + 1)
           doc == [local EXCEPT !.deleted = FALSE]
           T == ApplyDocument(R, copy, doc)
           U == [T EXCEPT !.copies = @ + 1]
           S == EnqueueRow(U, d, copy, now)
<1>1. MakeCopy(R, d, e, local, now) = S
  BY DEF MakeCopy
<1>2. /\ R \in Replica /\ R.copies \in Nat /\ R.copies + 1 \in 1..MaxCopies
      /\ MaxCopies \in Nat /\ doc \in Doc
  <2>1. R \in Replica /\ MaxCopies \in Nat
    BY RoundsAssumption DEF Fine, Sound
  <2>2. R.copies \in 0..MaxCopies
    BY <2>1 DEF Replica
  <2>3. doc \in Doc
    BY DEF Doc
  <2> QED BY <2>1, <2>2, <2>3
<1>3. copy \in Entities
  BY <1>2, EntitiesFinite
<1> HIDE DEF copy, doc
<1>4. SameSync(R, T) /\ T.copies = R.copies /\ T \in Replica
  BY <1>2, <1>3, ApplyDocumentSame DEF SameSync
<1> HIDE DEF T
<1>5. SameSync(T, U) /\ U.copies = R.copies + 1
  <2>1. R.copies + 1 \in 0..MaxCopies
    BY <1>2
  <2> QED BY <1>4, <2>1 DEF SameSync, Replica
<1> HIDE DEF U
<1>6. Fine(U, d, rows) /\ Spares(R, U, e) /\ U.shadow = R.shadow
  <2>1. Fine(T, d, rows) /\ Spares(R, T, e)
    BY <1>4, SameSyncFine
  <2>2. Fine(U, d, rows) /\ Spares(T, U, e)
    BY <1>5, <2>1, SameSyncFine
  <2>3. U.shadow = R.shadow
    BY <1>4, <1>5 DEF SameSync
  <2> QED BY <2>1, <2>2, <2>3, SparesTransitive
<1>7. /\ Fine(S, d, rows) /\ Spares(U, S, e) /\ S.shadow = U.shadow
      /\ S.copies = U.copies
  BY <1>3, <1>6, EnqueueRowFine
<1> HIDE DEF S
<1>8. Spares(R, S, e)
  BY <1>6, <1>7, SparesTransitive
<1>9. /\ Fine(S, d, rows) /\ Spares(R, S, e) /\ S.shadow = R.shadow
      /\ S.copies = R.copies + 1
  BY <1>5, <1>6, <1>7, <1>8
<1> QED BY <1>1, <1>9

LEMMA MakeCopyCounts ==
  ASSUME NEW R, HasFields(R), NEW d, NEW e, NEW local, NEW now
  PROVE  LET S == MakeCopy(R, d, e, local, now)
         IN  HasFields(S) /\ S.copies = R.copies + 1
<1> DEFINE copy == Copy(d, R.copies + 1)
           T == ApplyDocument(R, copy, [local EXCEPT !.deleted = FALSE])
           U == [T EXCEPT !.copies = @ + 1]
           S == EnqueueRow(U, d, copy, now)
<1>1. MakeCopy(R, d, e, local, now) = S
  BY DEF MakeCopy
<1> HIDE DEF copy
<1>2. HasFields(T) /\ T.copies = R.copies
  BY ApplyDocumentSameCopies DEF SameCopies
<1> HIDE DEF T
<1>3. HasFields(U) /\ U.copies = T.copies + 1
  BY <1>2 DEF HasFields, Fields
<1> HIDE DEF U
<1>4. HasFields(S) /\ S.copies = U.copies
  BY <1>3, EnqueueRowSameCopies DEF SameCopies
<1> HIDE DEF S
<1> QED BY <1>1, <1>2, <1>3, <1>4

\* The parts of MergeContent: the merged document, the replica with it and a
\* conflict copy where one is due, and what every merge ends with.
MergedDoc(R, d, r) ==
  LET e == r.entity
      base == IF R.shadow[e].doc = NoDoc
              THEN [title |-> NoDoc, body |-> NoDoc, deleted |-> FALSE] ELSE R.shadow[e].doc
      local == R.row[e]
      localWins == Merge!LocalWins([at |-> ConflictHead(R, e).at, device |-> d],
                                   [at |-> r.at, device |-> r.device])
  IN  [title |-> Merge!Pick(base.title, local.title, r.doc.title, localWins),
       body |-> Merge!MergedBody(base.body, local.body, r.doc.body),
       deleted |-> Merge!Pick(base.deleted, local.deleted, r.doc.deleted, localWins)]

BodiesDiffer(R, r) ==
  LET e == r.entity
      base == IF R.shadow[e].doc = NoDoc
              THEN [title |-> NoDoc, body |-> NoDoc, deleted |-> FALSE] ELSE R.shadow[e].doc
  IN  Merge!BodyConflict(base.body, R.row[e].body, r.doc.body)

Merged(R, d, r, now) ==
  LET T == ApplyDocument(R, r.entity, MergedDoc(R, d, r))
  IN  IF BodiesDiffer(R, r) THEN MakeCopy(T, d, r.entity, R.row[r.entity], now) ELSE T

Finished(U, d, r, now) ==
  EnqueueRow(ClearConflicts(PutShadow(U, r.entity, r.version, r.doc), r.entity),
             d, r.entity, now)

LEMMA MergeContentIs ==
  ASSUME NEW R, NEW d, NEW r, NEW now
  PROVE  MergeContent(R, d, r, now) =
           IF R.row[r.entity] = NoRow THEN ClearConflicts(ApplyOpened(R, r), r.entity)
           ELSE Finished(Merged(R, d, r, now), d, r, now)
BY DEF MergeContent, Finished, Merged, BodiesDiffer, MergedDoc

LEMMA ApplyOpenedSameCopies ==
  ASSUME NEW R, HasFields(R), NEW r
  PROVE  SameCopies(R, ApplyOpened(R, r))
<1> DEFINE T == IF r.doc = Tomb THEN ApplyTombstone(R, r.entity)
                                ELSE ApplyDocument(R, r.entity, r.doc)
<1>1. SameCopies(R, T)
  <2>1. CASE r.doc = Tomb
    BY <2>1, ApplyTombstoneSameCopies
  <2>2. CASE r.doc # Tomb
    BY <2>2, ApplyDocumentSameCopies
  <2> QED BY <2>1, <2>2
<1>2. ApplyOpened(R, r) = PutShadow(T, r.entity, r.version, r.doc)
  BY DEF ApplyOpened
<1> HIDE DEF T
<1> QED BY <1>1, <1>2, PutShadowSameCopies DEF SameCopies

LEMMA FinishedSameCopies ==
  ASSUME NEW R, HasFields(R), NEW d, NEW r, NEW now
  PROVE  SameCopies(R, Finished(R, d, r, now))
<1> DEFINE V == PutShadow(R, r.entity, r.version, r.doc)
           W == ClearConflicts(V, r.entity)
           S == EnqueueRow(W, d, r.entity, now)
<1>1. Finished(R, d, r, now) = S
  BY DEF Finished
<1>2. SameCopies(R, V)
  BY PutShadowSameCopies
<1> HIDE DEF V
<1>3. SameCopies(V, W)
  BY <1>2, ClearConflictsSameCopies DEF SameCopies
<1> HIDE DEF W
<1>4. SameCopies(W, S)
  BY <1>3, EnqueueRowSameCopies DEF SameCopies
<1> QED BY <1>1, <1>2, <1>3, <1>4 DEF SameCopies

LEMMA MergedCounts ==
  ASSUME NEW R, HasFields(R), NEW d, NEW r, NEW now
  PROVE  LET S == Merged(R, d, r, now)
         IN  /\ HasFields(S)
             /\ S.copies = IF BodiesDiffer(R, r) THEN R.copies + 1 ELSE R.copies
<1> DEFINE T == ApplyDocument(R, r.entity, MergedDoc(R, d, r))
<1>1. HasFields(T) /\ T.copies = R.copies
  BY ApplyDocumentSameCopies DEF SameCopies
<1>2. Merged(R, d, r, now) =
        IF BodiesDiffer(R, r) THEN MakeCopy(T, d, r.entity, R.row[r.entity], now) ELSE T
  BY DEF Merged
<1> HIDE DEF T
<1>3. CASE BodiesDiffer(R, r)
  <2> DEFINE S == MakeCopy(T, d, r.entity, R.row[r.entity], now)
  <2>1. HasFields(S) /\ S.copies = T.copies + 1
    BY <1>1, MakeCopyCounts
  <2> QED BY <1>1, <1>2, <1>3, <2>1
<1>4. CASE ~BodiesDiffer(R, r)
  BY <1>1, <1>2, <1>4
<1> QED BY <1>3, <1>4

LEMMA MergeContentCounts ==
  ASSUME NEW R, HasFields(R), NEW d, NEW r, NEW now
  PROVE  LET S == MergeContent(R, d, r, now)
         IN  HasFields(S) /\ S.copies >= R.copies
<1>1. CASE R.row[r.entity] = NoRow
  <2>1. MergeContent(R, d, r, now) = ClearConflicts(ApplyOpened(R, r), r.entity)
    BY <1>1, MergeContentIs
  <2>2. SameCopies(R, ApplyOpened(R, r))
    BY ApplyOpenedSameCopies
  <2>3. SameCopies(R, ClearConflicts(ApplyOpened(R, r), r.entity))
    BY <2>2, ClearConflictsSameCopies DEF SameCopies
  <2> QED BY <2>1, <2>3 DEF SameCopies, HasFields
<1>2. CASE R.row[r.entity] # NoRow
  <2> DEFINE U == Merged(R, d, r, now)
             S == Finished(U, d, r, now)
  <2>1. HasFields(U) /\ U.copies = IF BodiesDiffer(R, r) THEN R.copies + 1 ELSE R.copies
    BY MergedCounts
  <2>2. MergeContent(R, d, r, now) = S
    BY <1>2, MergeContentIs
  <2> HIDE DEF U
  <2>3. HasFields(S) /\ S.copies = U.copies
    BY <2>1, FinishedSameCopies DEF SameCopies
  <2>4. R.copies \in Nat
    BY DEF HasFields
  <2> HIDE DEF S
  <2> QED BY <2>1, <2>2, <2>3, <2>4
<1> QED BY <1>1, <1>2

LEMMA FinishedSettles ==
  ASSUME NEW d \in Device, NEW rows \in SUBSET ServerRow, NEW R, Fine(R, d, rows),
         NEW r \in rows, NEW now \in Now
  PROVE  Settles(R, Finished(R, d, r, now), d, rows, r)
<1> DEFINE e == r.entity
           V == PutShadow(R, e, r.version, r.doc)
           W == ClearConflicts(V, e)
           S == EnqueueRow(W, d, e, now)
<1>1. Finished(R, d, r, now) = S /\ e \in Entities
  BY DEF Finished, ServerRow
<1>2. Fine(V, d, rows) /\ Spares(R, V, e) /\ V.shadow[e].version = r.version
  BY PutShadowFine
<1> HIDE DEF V
<1>3. Fine(W, d, rows) /\ Spares(V, W, e) /\ W.shadow = V.shadow
  BY <1>2, ClearConflictsFine
<1> HIDE DEF W
<1>4. Fine(S, d, rows) /\ Spares(W, S, e) /\ S.shadow = W.shadow
  BY <1>1, <1>3, EnqueueRowFine
<1> HIDE DEF S
<1>5. Spares(R, S, e)
  BY <1>2, <1>3, <1>4, SparesTransitive
<1> QED BY <1>1, <1>2, <1>3, <1>4, <1>5 DEF Settles

LEMMA MergedDocTyped ==
  ASSUME NEW R \in Replica, NEW d, NEW r, r.entity \in Entities, r.doc \in Doc,
         R.row[r.entity] # NoRow
  PROVE  MergedDoc(R, d, r) \in Doc
<1> DEFINE local == R.row[r.entity]
           doc == MergedDoc(R, d, r)
<1>1. local \in Doc
  BY DEF Replica
<1>2. /\ doc = [title |-> doc.title, body |-> doc.body, deleted |-> doc.deleted]
      /\ doc.title \in {local.title, r.doc.title}
      /\ doc.body \in {local.body, r.doc.body}
      /\ doc.deleted \in {local.deleted, r.doc.deleted}
  BY DEF MergedDoc, Merge!Pick, Merge!MergedBody
<1> HIDE DEF doc, local
<1>3. doc \in Doc
  BY <1>1, <1>2 DEF Doc
<1> QED BY <1>3 DEF doc

LEMMA MergeContentSettles ==
  ASSUME NEW d \in Device, NEW rows \in SUBSET ServerRow, NEW R, Fine(R, d, rows),
         NEW r \in rows, r.doc # Tomb, NEW now \in Now,
         MergeContent(R, d, r, now).copies <= MaxCopies
  PROVE  Settles(R, MergeContent(R, d, r, now), d, rows, r)
<1> DEFINE e == r.entity
<1>1. e \in Entities /\ R \in Replica /\ r.doc \in Doc
  BY DEF ServerRow, Fine, Sound
<1>2. CASE R.row[e] = NoRow
  <2> DEFINE A == ApplyOpened(R, r)
             C == ClearConflicts(A, e)
  <2>1. MergeContent(R, d, r, now) = C
    BY <1>2, MergeContentIs
  <2>2. Fine(A, d, rows) /\ Spares(R, A, e) /\ A.shadow[e].version = r.version
    BY ApplyOpenedFine
  <2> HIDE DEF A
  <2>3. Fine(C, d, rows) /\ Spares(A, C, e) /\ C.shadow = A.shadow
    BY <2>2, ClearConflictsFine
  <2> HIDE DEF C
  <2> QED BY <2>1, <2>2, <2>3, SparesTransitive DEF Settles
<1>3. CASE R.row[e] # NoRow
  <2> DEFINE doc == MergedDoc(R, d, r)
             T == ApplyDocument(R, e, doc)
             U == Merged(R, d, r, now)
             S == Finished(U, d, r, now)
  <2>1. MergeContent(R, d, r, now) = S
    BY <1>3, MergeContentIs
  <2>2. HasFields(R) /\ R.row[e] \in Doc /\ doc \in Doc
    BY <1>1, <1>3, ReplicaHasFields, MergedDocTyped DEF Replica
  <2>3. /\ S.copies = U.copies /\ HasFields(U)
        /\ U.copies = IF BodiesDiffer(R, r) THEN R.copies + 1 ELSE R.copies
    BY <2>2, MergedCounts, FinishedSameCopies DEF SameCopies
  <2>4. U = IF BodiesDiffer(R, r) THEN MakeCopy(T, d, e, R.row[e], now) ELSE T
    BY DEF Merged
  <2> HIDE DEF doc
  <2>5. Fine(T, d, rows) /\ Spares(R, T, e) /\ T.copies = R.copies
    <3>1. SameSync(R, T) /\ T.copies = R.copies
      BY <1>1, <2>2, ApplyDocumentSame
    <3> HIDE DEF T
    <3> QED BY <3>1, SameSyncFine
  <2> HIDE DEF T, U, S
  <2>6. Fine(U, d, rows) /\ Spares(R, U, e)
    <3>1. CASE BodiesDiffer(R, r)
      <4>1. T.copies + 1 <= MaxCopies
        BY <2>1, <2>3, <2>5, <3>1
      <4>2. PICK local \in Doc : local = R.row[e]
        BY <2>2
      <4>3. U = MakeCopy(T, d, e, local, now)
        BY <2>4, <3>1, <4>2
      <4>4. Fine(U, d, rows) /\ Spares(T, U, e)
        BY <2>5, <4>1, <4>3, MakeCopyFine
      <4> QED BY <2>5, <4>4, SparesTransitive
    <3>2. CASE ~BodiesDiffer(R, r)
      BY <2>4, <2>5, <3>2
    <3> QED BY <3>1, <3>2
  <2>7. Settles(U, S, d, rows, r)
    BY <2>6, FinishedSettles DEF S
  <2> QED BY <2>1, <2>6, <2>7, SparesTransitive DEF Settles
<1> QED BY <1>2, <1>3

LEMMA AdoptTombstoneSameCopies ==
  ASSUME NEW R, HasFields(R), NEW r
  PROVE  SameCopies(R, AdoptTombstone(R, r))
<1> DEFINE e == r.entity
           T == IF ConflictHead(R, e).doc = Tomb THEN R ELSE PreserveHistory(R, e)
           U == ApplyTombstone(T, e)
           V == PutShadow(U, e, r.version, Tomb)
           S == ClearConflicts(V, e)
<1>1. AdoptTombstone(R, r) = S
  BY DEF AdoptTombstone
<1>2. SameCopies(R, T)
  <2>1. SameCopies(R, PreserveHistory(R, e)) /\ SameCopies(R, R)
    BY PreserveHistorySameCopies DEF SameCopies
  <2> QED BY <2>1
<1> HIDE DEF T
<1>3. SameCopies(T, U)
  BY <1>2, ApplyTombstoneSameCopies DEF SameCopies
<1> HIDE DEF U
<1>4. SameCopies(U, V)
  BY <1>3, PutShadowSameCopies DEF SameCopies
<1> HIDE DEF V
<1>5. SameCopies(V, S)
  BY <1>4, ClearConflictsSameCopies DEF SameCopies
<1> HIDE DEF S
<1> QED BY <1>1, <1>2, <1>3, <1>4, <1>5 DEF SameCopies

LEMMA KeepTombstoneSameCopies ==
  ASSUME NEW R, HasFields(R), NEW d, NEW r, NEW now
  PROVE  SameCopies(R, KeepTombstone(R, d, r, now))
<1> DEFINE e == r.entity
           T == ApplyDocument(R, e, r.doc)
           H == PreserveHistory(T, e)
           U == ApplyTombstone(H, e)
           V == PutShadow(U, e, r.version, r.doc)
           W == ClearConflicts(V, e)
           S == Enqueue(W, d, e, Tomb, now)
<1>1. KeepTombstone(R, d, r, now) = S
  BY DEF KeepTombstone
<1>2. SameCopies(R, T)
  BY ApplyDocumentSameCopies
<1> HIDE DEF T
<1>3. SameCopies(T, H)
  BY <1>2, PreserveHistorySameCopies DEF SameCopies
<1> HIDE DEF H
<1>4. SameCopies(H, U)
  BY <1>3, ApplyTombstoneSameCopies DEF SameCopies
<1> HIDE DEF U
<1>5. SameCopies(U, V)
  BY <1>4, PutShadowSameCopies DEF SameCopies
<1> HIDE DEF V
<1>6. SameCopies(V, W)
  BY <1>5, ClearConflictsSameCopies DEF SameCopies
<1> HIDE DEF W
<1>7. SameCopies(W, S)
  BY <1>6, EnqueueSameCopies DEF SameCopies
<1> HIDE DEF S
<1> QED BY <1>1, <1>2, <1>3, <1>4, <1>5, <1>6, <1>7 DEF SameCopies

\* No record of the feed takes a copy back.
LEMMA ApplyOneCounts ==
  ASSUME NEW R, HasFields(R), NEW d, NEW r, NEW now, NEW fails
  PROVE  LET S == ApplyOne(R, d, r, now, fails)
         IN  HasFields(S) /\ S.copies >= R.copies
<1>1. R.copies \in Nat
  BY DEF HasFields
<1>2. /\ SameCopies(R, R)
      /\ SameCopies(R, ApplyOpened(R, r))
      /\ SameCopies(R, AdoptTombstone(R, r))
      /\ SameCopies(R, KeepTombstone(R, d, r, now))
  BY ApplyOpenedSameCopies, AdoptTombstoneSameCopies, KeepTombstoneSameCopies DEF SameCopies
<1>3. HasFields(MergeContent(R, d, r, now)) /\ MergeContent(R, d, r, now).copies >= R.copies
  BY MergeContentCounts
<1>4. ApplyOne(R, d, r, now, fails) \in {R, ApplyOpened(R, r), AdoptTombstone(R, r),
                                  KeepTombstone(R, d, r, now), MergeContent(R, d, r, now)}
  BY DEF ApplyOne, MergeConflicted
<1> QED BY <1>1, <1>2, <1>3, <1>4 DEF SameCopies

\* What one record of the feed changes: shadows only rise, and unless its
\* application fails it leaves the record accounted for.
AppliedOne(R, S, d, rows, r, fails) ==
  /\ Fine(S, d, rows)
  /\ S.cursor = R.cursor
  /\ \A e \in Entities : S.shadow[e].version >= R.shadow[e].version
  /\ \A e \in Entities : HeldBack(R, e) =>
       HeldBack(S, e) \/ (e = r.entity /\ S.shadow[e].version = r.version)
  /\ Foreign(d, r) /\ ~fails => Accounted(S, r)

LEMMA SettledIsApplied ==
  ASSUME NEW d, NEW rows \in SUBSET ServerRow, NEW R \in Replica, NEW S, NEW r \in rows,
         Settles(R, S, d, rows, r), r.version > R.shadow[r.entity].version, NEW fails
  PROVE  AppliedOne(R, S, d, rows, r, fails)
<1>1. /\ Fine(S, d, rows) /\ S.cursor = R.cursor
      /\ \A q \in R.queue : q.entity # r.entity => q \in S.queue
      /\ \A x \in Entities : x # r.entity => S.shadow[x] = R.shadow[x]
      /\ S.shadow[r.entity].version = r.version
  BY DEF Settles, Spares
<1>2. r.version \in Nat /\ \A e \in Entities : R.shadow[e].version \in Nat
  BY DEF ServerRow, Replica
<1>3. ASSUME NEW e \in Entities
      PROVE  S.shadow[e].version >= R.shadow[e].version
  <2>1. CASE e = r.entity
    BY <1>1, <1>2, <2>1
  <2>2. CASE e # r.entity
    BY <1>1, <1>2, <2>2
  <2> QED BY <2>1, <2>2
<1>4. \A e \in Entities : e # r.entity /\ HeldBack(R, e) => HeldBack(S, e)
  BY <1>1 DEF HeldBack, QueueOf
<1>5. Accounted(S, r)
  BY <1>1, <1>2 DEF Accounted
<1> QED BY <1>1, <1>3, <1>4, <1>5 DEF AppliedOne

LEMMA ApplyOneApplies ==
  ASSUME NEW d \in Device, NEW rows \in SUBSET ServerRow, NEW R, Fine(R, d, rows),
         NEW r \in rows, NEW now \in Now, NEW fails,
         ApplyOne(R, d, r, now, fails).copies <= MaxCopies
  PROVE  AppliedOne(R, ApplyOne(R, d, r, now, fails), d, rows, r, fails)
<1>1. /\ R \in Replica /\ IsFiniteSet(R.queue)
      /\ r.version \in Nat /\ \A e \in Entities : R.shadow[e].version \in Nat
      /\ r.entity \in Entities
  BY DEF Fine, Sound, QueueOrdered, ServerRow, Replica
<1>2. ASSUME Foreign(d, r) /\ ~fails => Accounted(R, r)
      PROVE  AppliedOne(R, R, d, rows, r, fails)
  BY <1>1, <1>2 DEF AppliedOne
<1>3. CASE Skips(R, d, r) \/ fails
  <2>1. Foreign(d, r) /\ ~fails => Accounted(R, r)
    BY <1>1, <1>3 DEF Skips, Foreign, Accounted
  <2>2. ApplyOne(R, d, r, now, fails) = R
    BY <1>3 DEF ApplyOne
  <2> QED BY <1>2, <2>1, <2>2
<1>4. CASE ~Skips(R, d, r) /\ ~fails
  <2>1. r.version > R.shadow[r.entity].version
    BY <1>1, <1>4 DEF Skips
  <2>2. CASE ~Parked(R, r.entity)
    <3>1. ApplyOne(R, d, r, now, fails) = ApplyOpened(R, r)
      BY <1>4, <2>2 DEF ApplyOne
    <3>2. Settles(R, ApplyOpened(R, r), d, rows, r)
      BY ApplyOpenedFine DEF Settles
    <3> QED BY <1>1, <2>1, <3>1, <3>2, SettledIsApplied
  <2>3. CASE Parked(R, r.entity)
    <3>1. ApplyOne(R, d, r, now, fails) = MergeConflicted(R, d, r, now)
      BY <1>4, <2>3 DEF ApplyOne
    <3>2. CASE MergeFails(R, r)
      <4>1. HeldBack(R, r.entity)
        <5>1. LET q == ConflictHead(R, r.entity)
              IN  q \in R.queue /\ q.entity = r.entity /\ q.state = "conflict"
          BY <1>1, <2>3, ConflictHeadIsParked
        <5> QED BY <3>2, <5>1 DEF MergeFails, HeldBack, QueueOf
      <4>2. ApplyOne(R, d, r, now, fails) = R
        BY <3>1, <3>2 DEF MergeConflicted
      <4> QED BY <1>2, <4>1, <4>2 DEF Accounted
    <3>3. CASE ~MergeFails(R, r)
      <4>1. Settles(R, ApplyOne(R, d, r, now, fails), d, rows, r)
        <5>1. CASE r.doc = Tomb
          BY <3>1, <3>3, <5>1, AdoptTombstoneSettles DEF MergeConflicted
        <5>2. CASE r.doc # Tomb /\ ConflictHead(R, r.entity).doc = Tomb
          BY <3>1, <3>3, <5>2, KeepTombstoneSettles DEF MergeConflicted
        <5>3. CASE r.doc # Tomb /\ ConflictHead(R, r.entity).doc # Tomb
          <6>1. ApplyOne(R, d, r, now, fails) = MergeContent(R, d, r, now)
            BY <3>1, <3>3, <5>3 DEF MergeConflicted
          <6> QED BY <5>3, <6>1, MergeContentSettles
        <5> QED BY <5>1, <5>2, <5>3
      <4> QED BY <1>1, <2>1, <4>1, SettledIsApplied
    <3> QED BY <3>2, <3>3
  <2> QED BY <2>2, <2>3
<1> QED BY <1>3, <1>4

\* The records applied so far stay accounted for: what a merge releases has a
\* smaller version than the record it merged with.
LEMMA AppliedOnePasses ==
  ASSUME NEW d \in Device, NEW rows \in SUBSET ServerRow, LogRows(rows),
         NEW R \in Replica, NEW S \in Replica, NEW r \in rows, NEW fails,
         AppliedOne(R, S, d, rows, r, fails),
         NEW q \in rows, q.seq < r.seq, Accounted(R, q)
  PROVE  Accounted(S, q)
<1>1. /\ q.entity \in Entities /\ q.version \in Nat /\ r.version \in Nat
      /\ \A e \in Entities : R.shadow[e].version \in Nat /\ S.shadow[e].version \in Nat
  BY DEF ServerRow, Replica
<1>2. CASE R.shadow[q.entity].version >= q.version
  BY <1>1, <1>2 DEF AppliedOne, Accounted
<1>3. CASE HeldBack(R, q.entity) /\ ~HeldBack(S, q.entity)
  <2>1. q.entity = r.entity /\ S.shadow[q.entity].version = r.version
    BY <1>1, <1>3 DEF AppliedOne
  <2>2. q.version < r.version
    BY <2>1, VersionsFollowNumbers
  <2> QED BY <1>1, <2>1, <2>2 DEF Accounted
<1>4. CASE HeldBack(S, q.entity)
  BY <1>4 DEF Accounted
<1> QED BY <1>2, <1>3, <1>4 DEF Accounted

-----------------------------------------------------------------------------
\* A page of the feed.

\* What there is after the rows of the page up to number n: the recursion of
\* ApplyPage, one step of it.
PageStep(acc, d, page, failing, now, n) ==
  IF \E r \in page : r.seq = n
  THEN LET r == CHOOSE r \in page : r.seq = n
       IN  [R |-> ApplyOne(acc.R, d, r, now, r \in failing),
            merged |-> acc.merged \/ Merges(acc.R, d, r, r \in failing)]
  ELSE acc

IsPageWalk(f, R, d, page, failing, now, last) ==
  f = [n \in 0..last |-> IF n = 0 THEN [R |-> R, merged |-> FALSE]
                                  ELSE PageStep(f[n - 1], d, page, failing, now, n)]

EndsAt(result, f, last) ==
  result = [R |-> [f[last].R EXCEPT !.cursor = last], merged |-> f[last].merged]

LEMMA PageWalkExists ==
  ASSUME NEW R, NEW d, NEW page, NEW failing, NEW now, NEW last \in Nat
  PROVE  \E f : IsPageWalk(f, R, d, page, failing, now, last)
<1> DEFINE Walks(n) == \E f : IsPageWalk(f, R, d, page, failing, now, n)
           Stuck == {n \in Nat : ~Walks(n)}
<1> SUFFICES ASSUME Stuck # {} PROVE FALSE
  OBVIOUS
<1>1. PICK m \in Stuck : \A n \in Stuck : ~(<<n, m>> \in OpToRel(<, Nat))
  BY NatLessThanWellFounded, WFMin
<1>2. m \in Nat /\ ~Walks(m) /\ \A n \in Nat : n < m => Walks(n)
  BY <1>1 DEF OpToRel
<1>3. CASE m = 0
  <2> DEFINE f == [n \in 0..0 |-> [R |-> R, merged |-> FALSE]]
  <2>1. f = [n \in 0..0 |-> IF n = 0 THEN [R |-> R, merged |-> FALSE]
                            ELSE PageStep(f[n - 1], d, page, failing, now, n)]
    <3>1. \A n \in 0..0 : n = 0
      OBVIOUS
    <3> QED BY <3>1
  <2> HIDE DEF f
  <2>2. IsPageWalk(f, R, d, page, failing, now, 0)
    BY <2>1 DEF IsPageWalk
  <2> QED BY <1>2, <1>3, <2>2
<1>4. CASE m # 0
  <2>1. m - 1 \in Nat /\ m - 1 < m
    BY <1>2, <1>4
  <2>2. PICK g : IsPageWalk(g, R, d, page, failing, now, m - 1)
    BY <1>2, <2>1
  <2> DEFINE f == [n \in 0..m |-> IF n = m THEN PageStep(g[m - 1], d, page, failing, now, m) ELSE g[n]]
  <2>3. \A n \in 0..m : n # m => n \in 0..(m - 1)
    BY <1>2
  <2>4. \A n \in 0..m : n # 0 => n - 1 \in 0..m /\ n - 1 # m
    BY <1>2
  <2>5. ASSUME NEW n \in 0..m
        PROVE  f[n] = IF n = 0 THEN [R |-> R, merged |-> FALSE]
                               ELSE PageStep(f[n - 1], d, page, failing, now, n)
    <3>1. CASE n = m
      <4>1. n # 0 /\ f[n] = PageStep(g[m - 1], d, page, failing, now, n)
        BY <1>4, <3>1
      <4>2. f[n - 1] = g[m - 1]
        BY <2>4, <3>1, <4>1
      <4> QED BY <4>1, <4>2
    <3>2. CASE n # m
      <4>1. f[n] = g[n] /\ n \in 0..(m - 1)
        BY <2>3, <3>2
      <4>2. g[n] = IF n = 0 THEN [R |-> R, merged |-> FALSE]
                            ELSE PageStep(g[n - 1], d, page, failing, now, n)
        BY <2>2, <4>1 DEF IsPageWalk
      <4>3. n # 0 => f[n - 1] = g[n - 1]
        BY <2>4
      <4> QED BY <4>1, <4>2, <4>3
    <3> QED BY <3>1, <3>2
  <2>6. DOMAIN f = 0..m /\ f = [n \in 0..m |-> f[n]]
    OBVIOUS
  <2> HIDE DEF f
  <2>7. f = [n \in 0..m |-> IF n = 0 THEN [R |-> R, merged |-> FALSE]
                                      ELSE PageStep(f[n - 1], d, page, failing, now, n)]
    <3> DEFINE h == [n \in 0..m |-> IF n = 0 THEN [R |-> R, merged |-> FALSE]
                                      ELSE PageStep(f[n - 1], d, page, failing, now, n)]
    <3>1. \A n \in 0..m : f[n] = h[n]
      BY <2>5
    <3>2. DOMAIN h = 0..m /\ h = [n \in 0..m |-> h[n]]
      OBVIOUS
    <3> HIDE DEF h
    <3>3. f = h
      BY <2>6, <3>1, <3>2
    <3> QED BY <3>3 DEF h
  <2>8. IsPageWalk(f, R, d, page, failing, now, m)
    BY <2>7 DEF IsPageWalk
  <2> QED BY <1>2, <2>8
<1> QED BY <1>3, <1>4

LEMMA ApplyPageWalks ==
  ASSUME NEW R, NEW d, NEW page, NEW failing, NEW now, NEW last \in Nat, last = Max({r.seq : r \in page})
  PROVE  \E f : /\ IsPageWalk(f, R, d, page, failing, now, last)
                /\ EndsAt(ApplyPage(R, d, page, failing, now), f, last)
<1> DEFINE F == CHOOSE f : f =
                  [n \in 0..last |->
                     IF n = 0 THEN [R |-> R, merged |-> FALSE]
                     ELSE IF \E r \in page : r.seq = n
                     THEN [R |-> ApplyOne(f[n - 1].R, d, CHOOSE r \in page : r.seq = n, now,
                                         (CHOOSE r \in page : r.seq = n) \in failing),
                           merged |-> f[n - 1].merged
                                        \/ Merges(f[n - 1].R, d, CHOOSE r \in page : r.seq = n,
                                                  (CHOOSE r \in page : r.seq = n) \in failing)]
                     ELSE f[n - 1]]
<1>1. ApplyPage(R, d, page, failing, now) =
        [R |-> [F[last].R EXCEPT !.cursor = last], merged |-> F[last].merged]
  BY DEF ApplyPage
<1>2. \A f : IsPageWalk(f, R, d, page, failing, now, last) <=> f =
                  [n \in 0..last |->
                     IF n = 0 THEN [R |-> R, merged |-> FALSE]
                     ELSE IF \E r \in page : r.seq = n
                     THEN [R |-> ApplyOne(f[n - 1].R, d, CHOOSE r \in page : r.seq = n, now,
                                         (CHOOSE r \in page : r.seq = n) \in failing),
                           merged |-> f[n - 1].merged
                                        \/ Merges(f[n - 1].R, d, CHOOSE r \in page : r.seq = n,
                                                  (CHOOSE r \in page : r.seq = n) \in failing)]
                     ELSE f[n - 1]]
  BY DEF IsPageWalk, PageStep
<1>3. \E f : IsPageWalk(f, R, d, page, failing, now, last)
  BY PageWalkExists
<1>4. IsPageWalk(F, R, d, page, failing, now, last)
  BY <1>2, <1>3
<1> QED BY <1>1, <1>4 DEF EndsAt

\* One step of the walk has the fields of a replica and no fewer copies.
LEMMA PageStepCounts ==
  ASSUME NEW acc, HasFields(acc.R), NEW d, NEW page, NEW failing, NEW now, NEW n
  PROVE  LET next == PageStep(acc, d, page, failing, now, n)
         IN  /\ HasFields(next.R) /\ next.R.copies >= acc.R.copies
             /\ acc.merged \in BOOLEAN => next.merged \in BOOLEAN
<1>1. acc.R.copies \in Nat
  BY DEF HasFields
<1>2. CASE \E r \in page : r.seq = n
  <2> DEFINE r == CHOOSE r \in page : r.seq = n
             S == ApplyOne(acc.R, d, r, now, r \in failing)
  <2>1. PageStep(acc, d, page, failing, now, n) =
          [R |-> S, merged |-> acc.merged \/ Merges(acc.R, d, r, r \in failing)]
    BY <1>2 DEF PageStep
  <2> HIDE DEF r
  <2>2. HasFields(S) /\ S.copies >= acc.R.copies
    BY ApplyOneCounts
  <2>3. (acc.merged \/ Merges(acc.R, d, r, r \in failing)) \in BOOLEAN
    OBVIOUS
  <2> HIDE DEF S
  <2> QED BY <2>1, <2>2, <2>3
<1>3. CASE ~\E r \in page : r.seq = n
  BY <1>1, <1>3 DEF PageStep
<1> QED BY <1>2, <1>3

\* The rows of a page, and what they are to the table.
IsPageOf(page, rows, c, last) ==
  /\ page \in SUBSET rows
  /\ c \in Nat /\ last \in Nat
  /\ \A r \in rows : r \in page <=> r.seq > c /\ r.seq <= last

\* Every foreign record up to c, and up to n in the page, is accounted for or
\* among those whose application failed.
WalkFits(R, S, d, rows, c, n, U) ==
  /\ Fine(S, d, rows)
  /\ S.cursor = R.cursor
  /\ \A e \in Entities : S.shadow[e].version >= R.shadow[e].version
  /\ \A r \in rows : Foreign(d, r) /\ (r.seq <= c \/ r.seq <= n) =>
       Accounted(S, r) \/ <<d, r.seq>> \in U

LEMMA PageStepFits ==
  ASSUME NEW d \in Device, NEW rows \in SUBSET ServerRow, LogRows(rows),
         NEW R \in Replica, NEW page, NEW c, NEW last, IsPageOf(page, rows, c, last),
         NEW n \in 1..last, NEW now \in Now, NEW failing,
         NEW U, \A r \in failing : <<d, r.seq>> \in U,
         NEW acc, WalkFits(R, acc.R, d, rows, c, n - 1, U),
         PageStep(acc, d, page, failing, now, n).R.copies <= MaxCopies
  PROVE  WalkFits(R, PageStep(acc, d, page, failing, now, n).R, d, rows, c, n, U)
<1> DEFINE A == acc.R
           S == PageStep(acc, d, page, failing, now, n).R
<1>1. /\ n \in Nat /\ n # 0 /\ c \in Nat /\ last \in Nat /\ n <= last
      /\ \A r \in rows : r.seq \in Nat
      /\ A \in Replica
  BY DEF IsPageOf, ServerRow, WalkFits, Fine, Sound
<1>2. CASE \E r \in page : r.seq = n
  <2>1. PICK r \in page : r = CHOOSE x \in page : x.seq = n
    BY <1>2
  <2>2. r.seq = n /\ r \in rows /\ r.seq > c
    BY <1>2, <2>1 DEF IsPageOf
  <2>3. S = ApplyOne(A, d, r, now, r \in failing)
    BY <1>2, <2>1 DEF PageStep
  <2>4. Fine(A, d, rows)
    BY DEF WalkFits
  <2> HIDE DEF A, S
  <2>5. AppliedOne(A, S, d, rows, r, r \in failing)
    <3>1. S.copies <= MaxCopies
      BY DEF S
    <3>2. ApplyOne(A, d, r, now, r \in failing).copies <= MaxCopies
      BY <2>3, <3>1
    <3>3. AppliedOne(A, ApplyOne(A, d, r, now, r \in failing), d, rows, r, r \in failing)
      BY <2>2, <2>4, <3>2, ApplyOneApplies
    <3> QED BY <2>3, <3>3
  <2>6. S \in Replica
    BY <2>5 DEF AppliedOne, Fine, Sound
  <2>7. ASSUME NEW q \in rows, Foreign(d, q), q.seq <= c \/ q.seq <= n
        PROVE  Accounted(S, q) \/ <<d, q.seq>> \in U
    <3>1. CASE q = r
      BY <2>5, <2>7, <3>1 DEF AppliedOne
    <3>2. CASE q # r
      <4>1. q.seq \in Nat /\ r.seq \in Nat /\ q.seq # r.seq
        BY <1>1, <2>2, <3>2 DEF LogRows
      <4>2. q.seq < r.seq /\ (q.seq <= c \/ q.seq <= n - 1)
        BY <1>1, <2>2, <2>7, <4>1
      <4>3. Accounted(A, q) \/ <<d, q.seq>> \in U
        BY <2>7, <4>2 DEF WalkFits, A
      <4>4. ASSUME Accounted(A, q) PROVE Accounted(S, q)
        BY <1>1, <2>2, <2>5, <2>6, <4>2, <4>4, AppliedOnePasses DEF A
      <4> QED BY <4>3, <4>4
    <3> QED BY <3>1, <3>2
  <2>8. ASSUME NEW e \in Entities PROVE S.shadow[e].version >= R.shadow[e].version
    <3>1. /\ R.shadow[e].version \in Nat /\ A.shadow[e].version \in Nat
          /\ S.shadow[e].version \in Nat
      BY <1>1, <2>6 DEF Replica, A
    <3>2. S.shadow[e].version >= A.shadow[e].version
      BY <2>5 DEF AppliedOne
    <3>3. A.shadow[e].version >= R.shadow[e].version
      BY DEF WalkFits, A
    <3> QED BY <3>1, <3>2, <3>3
  <2>9. Fine(S, d, rows) /\ S.cursor = R.cursor
    <3>1. A.cursor = R.cursor
      BY DEF WalkFits, A
    <3> QED BY <2>5, <3>1 DEF AppliedOne
  <2>10. WalkFits(R, S, d, rows, c, n, U)
    BY <2>7, <2>8, <2>9 DEF WalkFits
  <2> QED BY <2>10 DEF S
<1>3. CASE ~\E r \in page : r.seq = n
  <2>1. S = A
    BY <1>3 DEF PageStep
  <2>2. ASSUME NEW q \in rows, q.seq <= c \/ q.seq <= n
        PROVE  q.seq <= c \/ q.seq <= n - 1
    <3>1. CASE q.seq <= c
      BY <3>1
    <3>2. CASE ~(q.seq <= c)
      <4>1. q.seq \in Nat /\ q.seq > c /\ q.seq <= n /\ q.seq <= last
        BY <1>1, <2>2, <3>2
      <4>2. q \in page
        BY <4>1 DEF IsPageOf
      <4>3. q.seq # n
        BY <1>3, <4>2
      <4> QED BY <1>1, <4>1, <4>3
    <3> QED BY <3>1, <3>2
  <2>3. WalkFits(R, A, d, rows, c, n, U)
    BY <2>2 DEF WalkFits
  <2> QED BY <2>1, <2>3
<1> QED BY <1>2, <1>3

\* What a page leaves: the watermark at its last row, and everything up to it
\* accounted for or among U.
PageApplied(R, P, d, rows, last, U) ==
  /\ Fine(P.R, d, rows) /\ P.R.cursor = last
  /\ \A e \in Entities : P.R.shadow[e].version >= R.shadow[e].version
  /\ PassedAccounted(P.R, d, rows, last, U)
  /\ P.merged \in BOOLEAN

LEMMA ApplyPageFits ==
  ASSUME NEW d \in Device, NEW rows \in SUBSET ServerRow, LogRows(rows),
         NEW R, Fine(R, d, rows), NEW U, PassedAccounted(R, d, rows, R.cursor, U),
         NEW failing, \A r \in failing : <<d, r.seq>> \in U,
         NEW page, NEW last, last = Max({r.seq : r \in page}),
         IsPageOf(page, rows, R.cursor, last),
         NEW now \in Now, ApplyPage(R, d, page, failing, now).R.copies <= MaxCopies
  PROVE  PageApplied(R, ApplyPage(R, d, page, failing, now), d, rows, last, U)
<1> DEFINE c == R.cursor
<1>1. /\ c \in Nat /\ last \in Nat /\ R \in Replica /\ HasFields(R)
      /\ \A r \in rows : r.seq \in Nat \ {0}
      /\ \A e \in Entities : R.shadow[e].version \in Nat
      /\ MaxCopies \in Nat
  BY ReplicaHasFields, RoundsAssumption DEF IsPageOf, Fine, Sound, Replica, ServerRow
<1>2. PICK f : /\ IsPageWalk(f, R, d, page, failing, now, last)
               /\ EndsAt(ApplyPage(R, d, page, failing, now), f, last)
  BY <1>1, ApplyPageWalks
<1>3. /\ f[0] = [R |-> R, merged |-> FALSE]
      /\ \A n \in 1..last : f[n] = PageStep(f[n - 1], d, page, failing, now, n)
  <2>1. f = [n \in 0..last |-> IF n = 0 THEN [R |-> R, merged |-> FALSE]
                                       ELSE PageStep(f[n - 1], d, page, failing, now, n)]
    BY <1>2 DEF IsPageWalk
  <2>2. 0 \in 0..last /\ \A n \in 1..last : n \in 0..last /\ n # 0
    BY <1>1
  <2> QED BY <2>1, <2>2
<1> DEFINE Counted(n) == HasFields(f[n].R) /\ f[n].merged \in BOOLEAN
           Good(n) == /\ Counted(n)
                      /\ f[n].R.copies <= MaxCopies => WalkFits(R, f[n].R, d, rows, c, n, U)
           Bad == {n \in 0..last : ~Good(n)}
<1>4. Good(0)
  <2>1. f[0].R = R /\ f[0].merged = FALSE
    BY <1>3
  <2>2. \A r \in rows : r.seq <= c \/ r.seq <= 0 => r.seq <= c
    BY <1>1
  <2>3. WalkFits(R, R, d, rows, c, 0, U)
    BY <1>1, <2>2 DEF WalkFits, PassedAccounted
  <2> QED BY <1>1, <2>1, <2>3
<1>5. ASSUME NEW n \in 1..last, Good(n - 1) PROVE Good(n)
  <2>1. f[n] = PageStep(f[n - 1], d, page, failing, now, n) /\ n - 1 \in 0..last
    BY <1>1, <1>3
  <2>2. PICK acc : acc = f[n - 1]
    OBVIOUS
  <2>3. /\ HasFields(acc.R) /\ acc.merged \in BOOLEAN
        /\ acc.R.copies <= MaxCopies => WalkFits(R, acc.R, d, rows, c, n - 1, U)
    BY <1>5, <2>2
  <2> DEFINE next == PageStep(acc, d, page, failing, now, n)
  <2>4. HasFields(next.R) /\ next.R.copies >= acc.R.copies /\ next.merged \in BOOLEAN
    BY <2>3, PageStepCounts
  <2>5. ASSUME next.R.copies <= MaxCopies PROVE WalkFits(R, next.R, d, rows, c, n, U)
    <3>1. acc.R.copies <= MaxCopies
      BY <1>1, <2>3, <2>4, <2>5 DEF HasFields
    <3> QED BY <1>1, <2>3, <2>5, <3>1, PageStepFits
  <2>6. f[n] = next
    BY <2>1, <2>2
  <2> HIDE DEF next
  <2> QED BY <2>4, <2>5, <2>6
<1> HIDE DEF Good
<1>6. Bad = {}
  <2> SUFFICES ASSUME Bad # {} PROVE FALSE
    OBVIOUS
  <2>1. Bad \in SUBSET Nat
    BY <1>1
  <2>2. PICK m \in Bad : \A n \in Bad : ~(<<n, m>> \in OpToRel(<, Nat))
    BY <2>1, NatLessThanWellFounded, WFMin
  <2>3. m \in 0..last /\ ~Good(m) /\ \A n \in 0..last : n < m => Good(n)
    BY <2>1, <2>2 DEF OpToRel
  <2>4. m # 0
    BY <1>4, <2>3
  <2>5. m \in 1..last /\ m - 1 \in 0..last /\ m - 1 < m
    BY <1>1, <2>3, <2>4
  <2> QED BY <1>5, <2>3, <2>5
<1>7. last \in 0..last /\ Good(last)
  BY <1>1, <1>6
<1> DEFINE T == f[last].R
           S == [T EXCEPT !.cursor = last]
<1>8. ApplyPage(R, d, page, failing, now).R = S /\ ApplyPage(R, d, page, failing, now).merged = f[last].merged
  BY <1>2 DEF EndsAt
<1>9. HasFields(T) /\ f[last].merged \in BOOLEAN
  BY <1>7 DEF Good
<1>10. (T.copies <= MaxCopies) => WalkFits(R, T, d, rows, c, last, U)
  BY <1>7 DEF Good
<1> HIDE DEF T
<1>11. /\ S.copies = T.copies /\ S.row = T.row /\ S.queue = T.queue /\ S.shadow = T.shadow
       /\ S.history = T.history /\ S.minted = T.minted /\ S.cursor = last
       /\ T \in Replica => S \in Replica
  BY <1>1, <1>9 DEF HasFields, Fields, Replica
<1>12. WalkFits(R, T, d, rows, c, last, U)
  BY <1>8, <1>10, <1>11
<1> HIDE DEF S
<1>13. Fine(S, d, rows)
  <2>1. Fine(T, d, rows) /\ T \in Replica
    BY <1>12 DEF WalkFits, Fine, Sound
  <2>2. S \in Replica
    BY <1>11, <2>1
  <2>3. IdsCounted(S, d, rows) /\ QueueOrdered(S) /\ SentAsQueued(S, rows) /\ ShadowAgreed(S, rows)
    BY <1>11, <2>1 DEF Fine, Sound, IdsCounted, QueueOrdered, SentAsQueued, ShadowAgreed
  <2>4. NoneStored(S, rows)
    BY <1>11, <2>1 DEF Fine, NoneStored, Pending
  <2> QED BY <2>2, <2>3, <2>4 DEF Fine, Sound
<1>14. PassedAccounted(S, d, rows, last, U)
  <2>1. \A r \in rows : Accounted(T, r) => Accounted(S, r)
    BY <1>11 DEF Accounted, HeldBack, QueueOf
  <2>2. \A r \in rows : Foreign(d, r) /\ r.seq <= last => Accounted(T, r) \/ <<d, r.seq>> \in U
    BY <1>12 DEF WalkFits
  <2> QED BY <2>1, <2>2 DEF PassedAccounted
<1>15. \A e \in Entities : S.shadow[e].version >= R.shadow[e].version
  BY <1>11, <1>12 DEF WalkFits
<1> QED BY <1>8, <1>9, <1>11, <1>13, <1>14, <1>15 DEF PageApplied

-----------------------------------------------------------------------------
\* The reply to a push.

Restate(q, state) == [q EXCEPT !.state = state]

LEMMA RestateKeeps ==
  ASSUME NEW q \in QueueRow, NEW state \in {"pending", "conflict", "applied"}
  PROVE  LET p == Restate(q, state)
         IN  /\ p \in QueueRow /\ p.state = state
             /\ p.id = q.id /\ p.entity = q.entity /\ p.version = q.version /\ p.doc = q.doc
BY DEF Restate, QueueRow

\* Some queued rows change state and nothing else does.
Restated(R, S, rows, state) ==
  /\ S \in Replica
  /\ S.shadow = R.shadow /\ S.minted = R.minted /\ S.cursor = R.cursor
  /\ S.queue = (R.queue \ rows) \cup {Restate(q, state) : q \in rows}

LEMMA SetStateRestates ==
  ASSUME NEW R \in Replica, NEW rows \in SUBSET R.queue,
         NEW state \in {"pending", "conflict", "applied"}
  PROVE  Restated(R, SetState(R, rows, state), rows, state)
<1> DEFINE queue == (R.queue \ rows) \cup {Restate(q, state) : q \in rows}
           S == SetState(R, rows, state)
<1>1. S = [R EXCEPT !.queue = queue]
  BY DEF SetState, Restate
<1>2. queue \in SUBSET QueueRow
  <2>1. rows \in SUBSET QueueRow /\ R.queue \in SUBSET QueueRow
    BY DEF Replica
  <2>2. \A q \in rows : Restate(q, state) \in QueueRow
    BY <2>1, RestateKeeps
  <2> QED BY <2>1, <2>2
<1> HIDE DEF queue
<1>3. /\ S \in Replica /\ S.shadow = R.shadow /\ S.minted = R.minted
      /\ S.cursor = R.cursor /\ S.queue = queue
  BY <1>1, <1>2 DEF Replica
<1> QED BY <1>3 DEF Restated, queue

NoLongerPending(R, S, rows) == Pending(S) = Pending(R) \ rows

LEMMA RestatedKeeps ==
  ASSUME NEW d, NEW table, NEW R, Sound(R, d, table),
         NEW rows \in SUBSET R.queue, NEW state \in {"pending", "conflict", "applied"},
         NEW S, Restated(R, S, rows, state)
  PROVE  /\ Sound(S, d, table)
         /\ state # "pending" => NoLongerPending(R, S, rows)
<1>1. /\ R \in Replica /\ S \in Replica /\ R.queue \in SUBSET QueueRow
      /\ QueueOrdered(R) /\ IdsCounted(R, d, table) /\ SentAsQueued(R, table)
      /\ ShadowAgreed(R, table)
  BY DEF Sound, Restated, Replica
<1>2. ASSUME NEW p \in S.queue
      PROVE  \E q \in R.queue :
               /\ p.id = q.id /\ p.entity = q.entity /\ p.version = q.version /\ p.doc = q.doc
               /\ q \in rows => p = Restate(q, state) /\ p.state = state
               /\ q \notin rows => p = q
  <2>1. CASE p \in R.queue \ rows
    BY <2>1
  <2>2. CASE p \in {Restate(q, state) : q \in rows}
    <3>1. PICK q \in rows : p = Restate(q, state)
      BY <2>2
    <3>2. q \in QueueRow /\ q \in R.queue
      BY <1>1
    <3> QED BY <3>1, <3>2, RestateKeeps
  <2> QED BY <2>1, <2>2 DEF Restated
<1>3. IdsCounted(S, d, table)
  BY <1>1, <1>2 DEF IdsCounted, Restated
<1>4. QueueOrdered(S)
  <2>1. IsFiniteSet(S.queue)
    <3> DEFINE f == [q \in rows |-> Restate(q, state)]
               T == {Restate(q, state) : q \in rows}
    <3>1. IsFiniteSet(R.queue) /\ rows \in SUBSET R.queue /\ R.queue \ rows \in SUBSET R.queue
      BY <1>1 DEF QueueOrdered
    <3>2. IsFiniteSet(rows) /\ IsFiniteSet(R.queue \ rows)
      BY <3>1, FS_Subset
    <3>3. f \in Surjection(rows, T)
      BY DEF Surjection
    <3>4. IsFiniteSet(T)
      BY <3>2, <3>3, FS_Surjection
    <3>5. S.queue = (R.queue \ rows) \cup T
      BY DEF Restated
    <3> HIDE DEF T
    <3> QED BY <3>2, <3>4, <3>5, FS_Union
  <2>2. ASSUME NEW p \in S.queue, NEW q \in S.queue
        PROVE  /\ p.id = q.id => p = q
               /\ p.entity = q.entity /\ p.id[2] < q.id[2] => p.version < q.version
    <3>1. PICK p0 \in R.queue :
            /\ p.id = p0.id /\ p.entity = p0.entity /\ p.version = p0.version
            /\ p0 \in rows => p = Restate(p0, state)
            /\ p0 \notin rows => p = p0
      BY <1>2
    <3>2. PICK q0 \in R.queue :
            /\ q.id = q0.id /\ q.entity = q0.entity /\ q.version = q0.version
            /\ q0 \in rows => q = Restate(q0, state)
            /\ q0 \notin rows => q = q0
      BY <1>2
    <3>3. /\ p0.id = q0.id => p0 = q0
          /\ p0.entity = q0.entity /\ p0.id[2] < q0.id[2] => p0.version < q0.version
      BY <1>1 DEF QueueOrdered
    <3> QED BY <3>1, <3>2, <3>3
  <2> QED BY <2>1, <2>2 DEF QueueOrdered
<1>5. SentAsQueued(S, table)
  <2>1. SUFFICES ASSUME NEW p \in S.queue, NEW r \in table, r.id = p.id
                 PROVE  r.entity = p.entity /\ r.version = p.version /\ r.doc = p.doc
    BY DEF SentAsQueued
  <2>2. PICK q \in R.queue :
          p.id = q.id /\ p.entity = q.entity /\ p.version = q.version /\ p.doc = q.doc
    BY <1>2
  <2>3. r.entity = q.entity /\ r.version = q.version /\ r.doc = q.doc
    BY <1>1, <2>1, <2>2 DEF SentAsQueued
  <2> QED BY <2>2, <2>3
<1>6. ShadowAgreed(S, table)
  BY <1>1 DEF ShadowAgreed, Restated
<1>7. ASSUME state # "pending" PROVE Pending(S) = Pending(R) \ rows
  <2>1. \A p \in Pending(S) : p \in Pending(R) \ rows
    BY <1>2, <1>7 DEF Pending
  <2>2. \A q \in Pending(R) \ rows : q \in Pending(S)
    BY DEF Pending, Restated
  <2> QED BY <2>1, <2>2
<1> QED BY <1>1, <1>3, <1>4, <1>5, <1>6, <1>7 DEF Sound, NoLongerPending

\* Parking what is pending of some entities.
LEMMA MarkConflictedKeeps ==
  ASSUME NEW d, NEW rows, NEW R, Sound(R, d, rows), NEW E
  PROVE  LET S == MarkConflicted(R, E)
         IN  /\ Sound(S, d, rows)
             /\ Pending(S) \subseteq Pending(R)
             /\ S.shadow = R.shadow /\ S.cursor = R.cursor
             /\ \A e \in Entities : HeldBack(R, e) => HeldBack(S, e)
<1> DEFINE S == MarkConflicted(R, E)
           parked == {q \in Pending(R) : q.entity \in E}
<1>1. R \in Replica /\ parked \in SUBSET R.queue /\ "conflict" \in {"pending", "conflict", "applied"}
  BY DEF Sound, Pending
<1>2. S = SetState(R, parked, "conflict")
  BY DEF MarkConflicted
<1>3. \A q \in parked : q.state = "pending"
  BY DEF Pending
<1> HIDE DEF parked, S
<1>4. Restated(R, S, parked, "conflict")
  BY <1>1, <1>2, SetStateRestates
<1>5. Sound(S, d, rows) /\ NoLongerPending(R, S, parked)
  BY <1>1, <1>4, RestatedKeeps
<1>6. ASSUME NEW e, HeldBack(R, e) PROVE HeldBack(S, e)
  <2>1. PICK q \in R.queue : q.entity = e /\ q.state = "conflict" /\ q.doc = Tomb
    BY <1>6 DEF HeldBack, QueueOf
  <2>2. q \in S.queue
    BY <1>3, <1>4, <2>1 DEF Restated
  <2> QED BY <2>1, <2>2 DEF HeldBack, QueueOf
<1>7. S.shadow = R.shadow /\ S.cursor = R.cursor /\ Pending(S) \subseteq Pending(R)
  BY <1>4, <1>5 DEF Restated, NoLongerPending
<1> QED BY <1>5, <1>6, <1>7 DEF S

\* What an acknowledgement keeps.
Acknowledges(R, S, d, rows) ==
  /\ Sound(S, d, rows)
  /\ StoredAreAhead(S, rows)
  /\ S.cursor = R.cursor
  /\ \A e \in Entities : S.shadow[e].version >= R.shadow[e].version
  /\ \A e \in Entities : HeldBack(R, e) => HeldBack(S, e)

\* One accepted record, the first of what is pending.
LEMMA MarkAppliedAcknowledges ==
  ASSUME NEW d, NEW rows \in SUBSET ServerRow, NEW R, Sound(R, d, rows), StoredAreAhead(R, rows),
         NEW q \in Pending(R), IsStored(rows, q.id),
         \A p \in Pending(R) : p # q => q.id[2] < p.id[2]
  PROVE  /\ Acknowledges(R, MarkApplied(R, q), d, rows)
         /\ NoLongerPending(R, MarkApplied(R, q), {q})
<1> DEFINE one == {p \in R.queue : p.id = q.id}
           T == Accepted(R, q)
           S == MarkApplied(R, q)
<1>1. /\ R \in Replica /\ q \in R.queue /\ q.state = "pending"
      /\ \A e \in Entities : R.shadow[e].version \in Nat
      /\ q.entity \in Entities /\ q.version \in Nat
  BY DEF Sound, Pending, Replica, QueueRow
<1>2. one = {q}
  BY <1>1 DEF Sound, QueueOrdered
<1>3. T = SetState(R, one, "applied") /\ S = PutShadow(T, q.entity, q.version, q.doc)
  BY DEF Accepted, MarkApplied
<1>4. one \in SUBSET R.queue /\ "applied" \in {"pending", "conflict", "applied"}
  OBVIOUS
<1> HIDE DEF one, T, S
<1>5. Restated(R, T, one, "applied")
  BY <1>1, <1>3, <1>4, SetStateRestates
<1>6. Sound(T, d, rows) /\ Pending(T) = Pending(R) \ one
  <2>1. Sound(T, d, rows) /\ NoLongerPending(R, T, one)
    BY <1>4, <1>5, RestatedKeeps
  <2> QED BY <2>1 DEF NoLongerPending
<1>7. PICK r \in rows : /\ r.id = q.id /\ r.entity = q.entity
                        /\ r.version = q.version /\ r.doc = q.doc
  BY <1>1 DEF IsStored, Sound, SentAsQueued
<1>8. Sound(S, d, rows)
  <2>1. S = PutShadow(T, r.entity, r.version, r.doc)
    BY <1>3, <1>7
  <2> QED BY <1>6, <2>1, PutShadowSound
<1>9. T \in Replica /\ q.doc \in Doc \cup {Tomb}
  BY <1>1, <1>6 DEF Sound, Replica, QueueRow
<1>10. /\ S.queue = T.queue /\ S.cursor = T.cursor
       /\ S.shadow[q.entity].version = q.version
       /\ \A x \in Entities : x # q.entity => S.shadow[x] = T.shadow[x]
  <2>1. PICK e \in Entities, v \in Nat, doc \in Doc \cup {Tomb} :
          e = q.entity /\ v = q.version /\ doc = q.doc
    BY <1>1, <1>9
  <2>2. S = PutShadow(T, e, v, doc)
    BY <1>3, <2>1
  <2>3. /\ S.queue = T.queue /\ S.cursor = T.cursor
        /\ S.shadow[e] = [version |-> v, doc |-> IF doc = Tomb THEN NoDoc ELSE doc]
        /\ \A x \in Entities : x # e => S.shadow[x] = T.shadow[x]
    BY <1>9, <2>2, PutShadowFields
  <2> QED BY <2>1, <2>3
<1>11. T.shadow = R.shadow /\ T.cursor = R.cursor /\ Pending(S) = Pending(R) \ {q}
  BY <1>2, <1>5, <1>6, <1>10 DEF Restated, Pending
<1>12. q.version > R.shadow[q.entity].version
  BY DEF StoredAreAhead
<1>13. ASSUME NEW e \in Entities PROVE S.shadow[e].version >= R.shadow[e].version
  <2>1. CASE e = q.entity
    BY <1>1, <1>10, <1>12, <2>1
  <2>2. CASE e # q.entity
    BY <1>1, <1>10, <1>11, <2>2
  <2> QED BY <2>1, <2>2
<1>14. ASSUME NEW e, HeldBack(R, e) PROVE HeldBack(S, e)
  <2>1. PICK p \in R.queue : p.entity = e /\ p.state = "conflict" /\ p.doc = Tomb
    BY <1>14 DEF HeldBack, QueueOf
  <2>2. p \notin one
    BY <1>1, <1>2, <2>1
  <2>3. p \in S.queue
    BY <1>5, <1>10, <2>2 DEF Restated
  <2> QED BY <2>1, <2>3 DEF HeldBack, QueueOf
<1>15. StoredAreAhead(S, rows)
  <2>1. SUFFICES ASSUME NEW p \in Pending(S), IsStored(rows, p.id)
                 PROVE  p.version > S.shadow[p.entity].version
    BY DEF StoredAreAhead
  <2>2. p \in Pending(R) /\ p # q /\ p \in R.queue /\ p.entity \in Entities
    BY <1>1, <1>11 DEF Pending, Replica, QueueRow
  <2>3. p.version > R.shadow[p.entity].version /\ q.id[2] < p.id[2]
    BY <2>1, <2>2 DEF StoredAreAhead
  <2>4. CASE p.entity = q.entity
    <3>1. q.version < p.version
      BY <1>1, <2>2, <2>3, <2>4 DEF Sound, QueueOrdered
    <3>2. p.version \in Nat
      BY <1>1, <2>2 DEF Replica, QueueRow
    <3> QED BY <1>1, <1>10, <2>4, <3>1, <3>2
  <2>5. CASE p.entity # q.entity
    BY <1>10, <1>11, <2>2, <2>3, <2>5
  <2> QED BY <2>4, <2>5
<1>16. S.cursor = R.cursor
  BY <1>10, <1>11
<1>17. Acknowledges(R, S, d, rows)
  BY <1>8, <1>13, <1>14, <1>15, <1>16 DEF Acknowledges
<1> QED BY <1>11, <1>17 DEF S, NoLongerPending

LEMMA AcknowledgesTransitive ==
  ASSUME NEW d, NEW rows, NEW R \in Replica, NEW S, NEW T,
         Acknowledges(R, S, d, rows), Acknowledges(S, T, d, rows)
  PROVE  Acknowledges(R, T, d, rows)
<1>1. S \in Replica /\ T \in Replica
  BY DEF Acknowledges, Sound
<1>2. \A e \in Entities : /\ R.shadow[e].version \in Nat /\ S.shadow[e].version \in Nat
                          /\ T.shadow[e].version \in Nat
  BY <1>1 DEF Replica
<1>3. \A e \in Entities : T.shadow[e].version >= R.shadow[e].version
  <2>1. \A e \in Entities : /\ S.shadow[e].version >= R.shadow[e].version
                            /\ T.shadow[e].version >= S.shadow[e].version
    BY DEF Acknowledges
  <2> QED BY <1>2, <2>1
<1> QED BY <1>3 DEF Acknowledges

\* The recursion of AcknowledgeAll.
IsMarkWalk(f, R, batch, last) ==
  f = [n \in 0..last |-> IF n = 0 THEN R ELSE MarkApplied(f[n - 1], batch[n])]

LEMMA MarkWalkExists ==
  ASSUME NEW R, NEW batch, NEW last \in Nat
  PROVE  \E f : IsMarkWalk(f, R, batch, last)
<1> DEFINE Walks(n) == \E f : IsMarkWalk(f, R, batch, n)
           Stuck == {n \in Nat : ~Walks(n)}
<1> SUFFICES ASSUME Stuck # {} PROVE FALSE
  OBVIOUS
<1>1. PICK m \in Stuck : \A n \in Stuck : ~(<<n, m>> \in OpToRel(<, Nat))
  BY NatLessThanWellFounded, WFMin
<1>2. m \in Nat /\ ~Walks(m) /\ \A n \in Nat : n < m => Walks(n)
  BY <1>1 DEF OpToRel
<1>3. CASE m = 0
  <2> DEFINE f == [n \in 0..0 |-> R]
  <2>1. f = [n \in 0..0 |-> IF n = 0 THEN R ELSE MarkApplied(f[n - 1], batch[n])]
    <3>1. \A n \in 0..0 : n = 0
      OBVIOUS
    <3> QED BY <3>1
  <2> HIDE DEF f
  <2>2. IsMarkWalk(f, R, batch, 0)
    BY <2>1 DEF IsMarkWalk
  <2> QED BY <1>2, <1>3, <2>2
<1>4. CASE m # 0
  <2>1. m - 1 \in Nat /\ m - 1 < m
    BY <1>2, <1>4
  <2>2. PICK g : IsMarkWalk(g, R, batch, m - 1)
    BY <1>2, <2>1
  <2> DEFINE f == [n \in 0..m |-> IF n = m THEN MarkApplied(g[m - 1], batch[m]) ELSE g[n]]
             h == [n \in 0..m |-> IF n = 0 THEN R ELSE MarkApplied(f[n - 1], batch[n])]
  <2>3. \A n \in 0..m : n # m => n \in 0..(m - 1)
    BY <1>2
  <2>4. \A n \in 0..m : n # 0 => n - 1 \in 0..m /\ n - 1 # m
    BY <1>2
  <2>5. ASSUME NEW n \in 0..m PROVE f[n] = h[n]
    <3>1. h[n] = IF n = 0 THEN R ELSE MarkApplied(f[n - 1], batch[n])
      OBVIOUS
    <3>2. CASE n = m
      <4>1. n # 0 /\ f[n] = MarkApplied(g[m - 1], batch[n])
        BY <1>4, <3>2
      <4>2. f[n - 1] = g[m - 1]
        BY <2>4, <3>2, <4>1
      <4> QED BY <3>1, <4>1, <4>2
    <3>3. CASE n # m
      <4>1. f[n] = g[n] /\ n \in 0..(m - 1)
        BY <2>3, <3>3
      <4>2. g[n] = IF n = 0 THEN R ELSE MarkApplied(g[n - 1], batch[n])
        BY <2>2, <4>1 DEF IsMarkWalk
      <4>3. n # 0 => f[n - 1] = g[n - 1]
        BY <2>4
      <4> QED BY <3>1, <4>1, <4>2, <4>3
    <3> QED BY <3>2, <3>3
  <2>6. /\ DOMAIN f = 0..m /\ f = [n \in 0..m |-> f[n]]
        /\ DOMAIN h = 0..m /\ h = [n \in 0..m |-> h[n]]
    OBVIOUS
  <2>7. f = h
    <3> HIDE DEF f, h
    <3> QED BY <2>5, <2>6
  <2>8. IsMarkWalk(f, R, batch, m)
    <3> HIDE DEF f
    <3> QED BY <2>7 DEF IsMarkWalk
  <2> QED BY <1>2, <2>8
<1> QED BY <1>3, <1>4

LEMMA AcknowledgeAllWalks ==
  ASSUME NEW R, NEW batch, Len(batch) \in Nat
  PROVE  \E f : IsMarkWalk(f, R, batch, Len(batch)) /\ AcknowledgeAll(R, batch) = f[Len(batch)]
<1> DEFINE last == Len(batch)
           F == CHOOSE f : f = [n \in 0..last |->
                                  IF n = 0 THEN R ELSE MarkApplied(f[n - 1], batch[n])]
<1>1. AcknowledgeAll(R, batch) = F[last]
  BY DEF AcknowledgeAll
<1>2. \E f : IsMarkWalk(f, R, batch, last)
  BY MarkWalkExists
<1>3. IsMarkWalk(F, R, batch, last)
  BY <1>2 DEF IsMarkWalk
<1> QED BY <1>1, <1>3

LEMMA AcknowledgeAllAcknowledges ==
  ASSUME NEW d, NEW rows \in SUBSET ServerRow, NEW R, Sound(R, d, rows), StoredAreAhead(R, rows),
         NEW batch \in Seq(QueueRow), IsFront(R, batch),
         \A i \in DOMAIN batch : IsStored(rows, batch[i].id)
  PROVE  /\ Acknowledges(R, AcknowledgeAll(R, batch), d, rows)
         /\ Pending(AcknowledgeAll(R, batch)) \subseteq Pending(R)
<1> DEFINE last == Len(batch)
           Sent(n) == {batch[i] : i \in 1..n}
<1>1. last \in Nat /\ DOMAIN batch = 1..last /\ R \in Replica
  BY DEF Sound
<1>2. PICK f : IsMarkWalk(f, R, batch, last) /\ AcknowledgeAll(R, batch) = f[last]
  BY <1>1, AcknowledgeAllWalks
<1>3. f[0] = R /\ \A n \in 1..last : f[n] = MarkApplied(f[n - 1], batch[n])
  <2>1. f = [n \in 0..last |-> IF n = 0 THEN R ELSE MarkApplied(f[n - 1], batch[n])]
    BY <1>2 DEF IsMarkWalk
  <2>2. 0 \in 0..last /\ \A n \in 1..last : n \in 0..last /\ n # 0
    BY <1>1
  <2> QED BY <2>1, <2>2
<1> DEFINE Good(n) == /\ Acknowledges(R, f[n], d, rows)
                      /\ Pending(f[n]) = Pending(R) \ Sent(n)
           Bad == {n \in 0..last : ~Good(n)}
<1>4. Good(0)
  <2>1. Sent(0) = {}
    OBVIOUS
  <2>2. \A e \in Entities : R.shadow[e].version \in Nat
    BY <1>1 DEF Replica
  <2>3. Acknowledges(R, R, d, rows)
    BY <2>2 DEF Acknowledges
  <2> HIDE DEF Sent
  <2> QED BY <1>3, <2>1, <2>3
<1>5. ASSUME NEW n \in 1..last, Good(n - 1) PROVE Good(n)
  <2>1. PICK S : S = f[n - 1]
    OBVIOUS
  <2>2. PICK q : q = batch[n]
    OBVIOUS
  <2>3. Acknowledges(R, S, d, rows) /\ Pending(S) = Pending(R) \ Sent(n - 1)
    BY <1>5, <2>1
  <2>4. n \in DOMAIN batch /\ q \in Pending(R) /\ IsStored(rows, q.id)
    BY <1>1, <2>2 DEF IsFront
  <2>5. q \notin Sent(n - 1)
    <3>1. \A i \in 1..(n - 1) : i \in DOMAIN batch /\ i # n
      BY <1>1
    <3> QED BY <2>2, <2>4, <3>1 DEF IsFront
  <2>6. q \in Pending(S)
    BY <2>3, <2>4, <2>5
  <2>7. ASSUME NEW p \in Pending(S), p # q PROVE q.id[2] < p.id[2]
    <3>1. p \in Pending(R) /\ p \notin Sent(n - 1)
      BY <2>3
    <3>2. p.id[2] \in Nat /\ q.id[2] \in Nat
      BY <1>1, <2>4, <3>1 DEF Pending, Replica, QueueRow
    <3>3. ASSUME p.id[2] <= q.id[2] PROVE FALSE
      <4>1. PICK j \in DOMAIN batch : j <= n /\ p = batch[j]
        BY <2>2, <2>4, <3>1, <3>3 DEF IsFront
      <4>2. j # n
        BY <2>2, <2>7, <4>1
      <4>3. j \in 1..(n - 1)
        BY <1>1, <4>1, <4>2
      <4> QED BY <3>1, <4>1, <4>3
    <3> QED BY <3>2, <3>3
  <2> DEFINE T == MarkApplied(S, q)
  <2>8. Acknowledges(S, T, d, rows) /\ Pending(T) = Pending(S) \ {q}
    <3>1. Sound(S, d, rows) /\ StoredAreAhead(S, rows)
      BY <2>3 DEF Acknowledges
    <3>2. Acknowledges(S, T, d, rows) /\ NoLongerPending(S, T, {q})
      BY <2>4, <2>6, <2>7, <3>1, MarkAppliedAcknowledges
    <3> QED BY <3>2 DEF NoLongerPending
  <2> HIDE DEF T
  <2>9. Acknowledges(R, T, d, rows)
    BY <1>1, <2>3, <2>8, AcknowledgesTransitive
  <2>10. Sent(n) = Sent(n - 1) \cup {q}
    <3>1. \A i \in 1..n : i \in 1..(n - 1) \/ i = n
      BY <1>1
    <3>2. \A i \in 1..(n - 1) : i \in 1..n
      BY <1>1
    <3>3. n \in 1..n
      BY <1>1
    <3> QED BY <2>2, <3>1, <3>2, <3>3
  <2>11. f[n] = T
    BY <1>3, <2>1, <2>2 DEF T
  <2> HIDE DEF Sent
  <2> QED BY <2>3, <2>8, <2>9, <2>10, <2>11
<1> HIDE DEF Good
<1>6. Bad = {}
  <2> SUFFICES ASSUME Bad # {} PROVE FALSE
    OBVIOUS
  <2>1. Bad \in SUBSET Nat
    BY <1>1
  <2>2. PICK m \in Bad : \A n \in Bad : ~(<<n, m>> \in OpToRel(<, Nat))
    BY <2>1, NatLessThanWellFounded, WFMin
  <2>3. m \in 0..last /\ ~Good(m) /\ \A n \in 0..last : n < m => Good(n)
    BY <2>1, <2>2 DEF OpToRel
  <2>4. m # 0
    BY <1>4, <2>3
  <2>5. m \in 1..last /\ m - 1 \in 0..last /\ m - 1 < m
    BY <1>1, <2>3, <2>4
  <2> QED BY <1>5, <2>3, <2>5
<1>7. last \in 0..last /\ Good(last)
  BY <1>1, <1>6
<1> QED BY <1>2, <1>7 DEF Good

-----------------------------------------------------------------------------
\* The catch-up pass.

Neglected(R) == {e \in Entities : Unaccounted(R, e)}

\* The record that accounts for e, the n-th of a pass.
Missing(R, d, n, e, now) ==
  NewRecord(R, d, R.minted + n, e, IF Live(R, e) THEN R.row[e] ELSE Tomb, now)

\* todo lists the neglected entities, and the pass queues a record for each.
Reconciles(R, S, d, todo, now) ==
  /\ todo \in Bijection(1..Cardinality(Neglected(R)), Neglected(R))
  /\ S = Requeued(R, R.queue \cup {Missing(R, d, n, todo[n], now) : n \in DOMAIN todo},
                  R.minted + Cardinality(Neglected(R)))

LEMMA NeglectedFinite ==
  ASSUME NEW R
  PROVE  IsFiniteSet(Neglected(R)) /\ Cardinality(Neglected(R)) \in Nat
<1>1. Neglected(R) \in SUBSET Entities
  BY DEF Neglected
<1> QED BY <1>1, EntitiesFinite, FS_Subset, FS_CardinalityType

LEMMA ReconcileReconciles ==
  ASSUME NEW R \in Replica, NEW d, NEW now
  PROVE  \E todo : Reconciles(R, Reconcile(R, d, now), d, todo, now)
<1> DEFINE U == Neglected(R)
           N == Cardinality(U)
           todo == SetToSeq(U)
<1>1. IsFiniteSet(U) /\ N \in Nat
  BY NeglectedFinite
<1>2. todo \in Bijection(1..N, U)
  <2>1. todo = Listed(U)
    BY DEF SetToSeq, Listed
  <2> QED BY <1>1, <2>1, ListedOnce
<1>3. DOMAIN R.row = Entities
  BY DEF Replica
<1>4. U = {e \in DOMAIN R.row : Unaccounted(R, e)}
  BY <1>3 DEF Neglected
<1>5. Reconcile(R, d, now) =
        [R EXCEPT !.queue = @ \cup {Missing(R, d, n, todo[n], now) : n \in DOMAIN todo},
                  !.minted = @ + Len(todo)]
  <2> HIDE DEF U
  <2> QED BY <1>4 DEF Reconcile, Missing
<1>6. Len(todo) = N /\ DOMAIN todo = 1..N
  <2> HIDE DEF U, N, todo
  <2>1. todo \in [1..N -> U]
    BY <1>2 DEF Bijection, Injection
  <2> QED BY <1>1, <2>1
<1>7. Reconcile(R, d, now) =
        Requeued(R, R.queue \cup {Missing(R, d, n, todo[n], now) : n \in DOMAIN todo}, R.minted + N)
  <2> HIDE DEF U, N, todo
  <2> QED BY <1>5, <1>6 DEF Requeued, Replica
<1>8. Reconciles(R, Reconcile(R, d, now), d, todo, now)
  BY <1>2, <1>7 DEF Reconciles
<1> QED BY <1>8

\* The records of a pass are typed, pending and the next versions of entities
\* of their own.
LEMMA MissingRecord ==
  ASSUME NEW d \in Device, NEW rows, NEW R, Sound(R, d, rows),
         NEW n \in Nat, NEW e \in Entities, NEW now \in Now
  PROVE  LET q == Missing(R, d, n, e, now)
         IN  /\ q \in QueueRow /\ q.state = "pending" /\ q.entity = e
             /\ q.id = <<d, R.minted + n>>
             /\ q.doc = IF Live(R, e) THEN R.row[e] ELSE Tomb
             /\ \A p \in R.queue : p.entity = e => p.version < q.version
<1> DEFINE doc == IF Live(R, e) THEN R.row[e] ELSE Tomb
           q == Missing(R, d, n, e, now)
<1>1. /\ R \in Replica /\ R.minted \in Nat
      /\ NextVersion(R, e) \in Nat \ {0}
      /\ \A p \in R.queue : p.entity = e => p.version < NextVersion(R, e)
  BY NextVersionIsNext DEF Sound, QueueOrdered, Replica
<1>2. doc \in Doc \cup {Tomb}
  BY <1>1 DEF Replica, Live
<1>3. q = NewRecord(R, d, R.minted + n, e, doc, now)
  BY DEF Missing
<1> HIDE DEF doc, q
<1>4. /\ q \in QueueRow /\ q.state = "pending" /\ q.entity = e
      /\ q.id = <<d, R.minted + n>> /\ q.doc = doc /\ q.version = NextVersion(R, e)
  BY <1>1, <1>2, <1>3 DEF NewRecord, QueueRow
<1> QED BY <1>1, <1>4 DEF q, doc

LEMMA ReconcileGrows ==
  ASSUME NEW d \in Device, NEW rows, NEW R, Sound(R, d, rows), NEW now \in Now
  PROVE  /\ \E new : QueueGrows(R, Reconcile(R, d, now), d, new)
         /\ Reconcile(R, d, now).copies = R.copies
<1> DEFINE S == Reconcile(R, d, now)
           N == Cardinality(Neglected(R))
<1>1. R \in Replica /\ R.minted \in Nat /\ N \in Nat
  BY NeglectedFinite DEF Sound, Replica
<1>2. PICK todo : Reconciles(R, S, d, todo, now)
  BY <1>1, ReconcileReconciles
<1> DEFINE record_(n) == Missing(R, d, n, todo[n], now)
           new == {record_(n) : n \in 1..N}
<1>3. todo \in [1..N -> Neglected(R)] /\ IsInjective(todo) /\ DOMAIN todo = 1..N
  BY <1>2 DEF Reconciles, Bijection, Injection
<1>4. ASSUME NEW n \in 1..N
      PROVE  /\ record_(n) \in QueueRow /\ record_(n).state = "pending"
             /\ record_(n).entity = todo[n]
             /\ record_(n).id = <<d, R.minted + n>>
             /\ \A p \in R.queue : p.entity = todo[n] => p.version < record_(n).version
  <2>1. n \in Nat /\ todo[n] \in Entities
    BY <1>1, <1>3 DEF Neglected
  <2> QED BY <2>1, MissingRecord
<1>5. S = Requeued(R, R.queue \cup new, R.minted + N)
  BY <1>2, <1>3 DEF Reconciles
<1> HIDE DEF S, N
<1>6. /\ S \in Replica /\ S.queue = R.queue \cup new /\ S.shadow = R.shadow
      /\ S.minted = R.minted + N /\ S.cursor = R.cursor /\ S.copies = R.copies
  <2>1. R.queue \cup new \in SUBSET QueueRow /\ R.minted + N \in Nat
    BY <1>1, <1>4 DEF Replica
  <2> HIDE DEF new
  <2> QED BY <1>1, <1>5, <2>1, RequeuedTyped
<1>7. IsFiniteSet(new)
  <2> DEFINE f == [n \in 1..N |-> record_(n)]
  <2>1. f \in Surjection(1..N, new)
    BY DEF Surjection
  <2>2. IsFiniteSet(1..N)
    BY <1>1, UpTo
  <2> HIDE DEF new
  <2> QED BY <2>1, <2>2, FS_Surjection
<1> HIDE DEF record_
<1>8. ASSUME NEW q \in new
      PROVE  /\ q.state = "pending"
             /\ q.id[1] = d /\ q.id[2] > R.minted /\ q.id[2] <= S.minted
             /\ \A p \in R.queue : p.entity = q.entity => p.version < q.version
  <2>1. PICK n \in 1..N : q = record_(n)
    OBVIOUS
  <2>2. q.id[1] = d /\ q.id[2] = R.minted + n
    BY <1>4, <2>1
  <2>3. R.minted + n > R.minted /\ R.minted + n <= R.minted + N
    BY <1>1
  <2> QED BY <1>4, <1>6, <2>1, <2>2, <2>3
<1>9. ASSUME NEW p \in new, NEW q \in new, p.id = q.id \/ p.entity = q.entity PROVE p = q
  <2>1. PICK m \in 1..N : p = record_(m)
    OBVIOUS
  <2>2. PICK n \in 1..N : q = record_(n)
    OBVIOUS
  <2>3. /\ p.id = <<d, R.minted + m>> /\ p.entity = todo[m]
        /\ q.id = <<d, R.minted + n>> /\ q.entity = todo[n]
    BY <1>4, <2>1, <2>2
  <2>4. m \in Nat /\ n \in Nat
    BY <1>1
  <2>5. p.id = q.id => m = n
    BY <1>1, <2>3, <2>4
  <2>6. p.entity = q.entity => m = n
    BY <1>3, <2>3 DEF IsInjective
  <2> QED BY <1>9, <2>1, <2>2, <2>5, <2>6
<1>10. R.minted + N >= R.minted
  BY <1>1
<1> HIDE DEF new
<1>11. QueueGrows(R, S, d, new)
  BY <1>6, <1>7, <1>8, <1>9, <1>10 DEF QueueGrows
<1> QED BY <1>6, <1>11 DEF S

\* A pass accounts for every entity it found neglected.
LEMMA ReconcileLeavesNone ==
  ASSUME NEW d \in Device, NEW rows, NEW R, Sound(R, d, rows), NEW now \in Now
  PROVE  Neglected(Reconcile(R, d, now)) = {}
<1> DEFINE S == Reconcile(R, d, now)
           N == Cardinality(Neglected(R))
<1>1. R \in Replica /\ R.minted \in Nat /\ N \in Nat
  BY NeglectedFinite DEF Sound, Replica
<1>2. PICK todo : Reconciles(R, S, d, todo, now)
  BY <1>1, ReconcileReconciles
<1> DEFINE record_(n) == Missing(R, d, n, todo[n], now)
           new == {record_(n) : n \in 1..N}
<1>3. /\ todo \in [1..N -> Neglected(R)] /\ IsInjective(todo) /\ DOMAIN todo = 1..N
      /\ \A e \in Neglected(R) : \E n \in 1..N : todo[n] = e
  BY <1>2 DEF Reconciles, Bijection, Injection, Surjection
<1>4. ASSUME NEW n \in 1..N
      PROVE  /\ record_(n) \in QueueRow /\ record_(n).state = "pending"
             /\ record_(n).entity = todo[n]
             /\ record_(n).doc = IF Live(R, todo[n]) THEN R.row[todo[n]] ELSE Tomb
             /\ \A p \in R.queue : p.entity = todo[n] => p.version < record_(n).version
  <2>1. n \in Nat /\ todo[n] \in Entities
    BY <1>1, <1>3 DEF Neglected
  <2> QED BY <2>1, MissingRecord
<1>5. S = Requeued(R, R.queue \cup new, R.minted + N)
  BY <1>2, <1>3 DEF Reconciles
<1> HIDE DEF S, N, record_
<1>6. S \in Replica /\ S.row = R.row /\ S.queue = R.queue \cup new /\ S.shadow = R.shadow
  <2>1. R.queue \cup new \in SUBSET QueueRow /\ R.minted + N \in Nat
    BY <1>1, <1>4 DEF Replica
  <2> HIDE DEF new
  <2> QED BY <1>1, <1>5, <2>1, RequeuedTyped
<1>7. ASSUME NEW e \in Entities PROVE ~Unaccounted(S, e)
  <2>1. Live(S, e) = Live(R, e)
    BY <1>6 DEF Live
  <2>2. CASE e \notin Neglected(R)
    <3>1. \A q \in new : q.entity # e
      <4>1. ASSUME NEW n \in 1..N PROVE record_(n).entity # e
        BY <1>3, <1>4, <2>2
      <4> QED BY <4>1
    <3> HIDE DEF new
    <3>2. QueueOf(S, e) \cap Unsent(S) = QueueOf(R, e) \cap Unsent(R)
      BY <1>6, <3>1 DEF QueueOf, Unsent
    <3>3. Promised(S, e) = Promised(R, e)
      BY <1>6, <3>2 DEF Promised
    <3>4. ~Unaccounted(R, e)
      BY <2>2 DEF Neglected
    <3> QED BY <1>6, <2>1, <3>3, <3>4 DEF Unaccounted
  <2>3. CASE e \in Neglected(R)
    <3>1. PICK n \in 1..N : todo[n] = e
      BY <1>3, <2>3
    <3> DEFINE unsent == QueueOf(S, e) \cap Unsent(S)
    <3>2. PICK q \in new : q = record_(n)
      OBVIOUS
    <3>3. /\ q \in QueueRow /\ q.state = "pending" /\ q.entity = e
          /\ q.doc = IF Live(R, e) THEN R.row[e] ELSE Tomb
          /\ \A p \in R.queue : p.entity = e => p.version < q.version
      BY <1>4, <3>1, <3>2
    <3>4. \A p \in new : p.entity = e => p = q
      <4>1. ASSUME NEW m \in 1..N, record_(m).entity = e PROVE m = n
        BY <1>3, <1>4, <3>1, <4>1 DEF IsInjective
      <4> QED BY <3>2, <4>1
    <3> HIDE DEF new
    <3>5. q \in unsent
      BY <1>6, <3>3 DEF QueueOf, Unsent
    <3>6. IsFiniteSet(unsent) /\ \A p \in unsent : p.version \in Nat
      <4>1. PICK more : QueueGrows(R, S, d, more)
        BY ReconcileGrows DEF S
      <4>2. IsFiniteSet(R.queue) /\ IsFiniteSet(more) /\ S.queue = R.queue \cup more
        BY <4>1 DEF QueueGrows, Sound, QueueOrdered
      <4>3. IsFiniteSet(S.queue)
        BY <4>2, FS_Union
      <4>4. unsent \in SUBSET S.queue
        BY DEF QueueOf
      <4>5. IsFiniteSet(unsent)
        <5> HIDE DEF unsent
        <5> QED BY <4>3, <4>4, FS_Subset
      <4> QED BY <1>6, <4>4, <4>5 DEF Replica, QueueRow
    <3> DEFINE w == Newest(unsent)
    <3>7. w \in unsent /\ q.version <= w.version
      BY <3>5, <3>6, NewestIsNewest
    <3>8. w \in S.queue /\ w.entity = e /\ w.version \in Nat /\ q.version \in Nat
      BY <3>3, <3>6, <3>7 DEF QueueOf, QueueRow
    <3>9. w = q
      <4> HIDE DEF w
      <4>1. w \notin R.queue
        BY <3>3, <3>7, <3>8
      <4> QED BY <1>6, <3>4, <3>8, <4>1
    <3>10. Promised(S, e) = q.doc
      BY <3>5, <3>9 DEF Promised
    <3> HIDE DEF w, unsent
    <3> QED BY <1>6, <2>1, <3>3, <3>10 DEF Unaccounted
  <2> QED BY <2>2, <2>3
<1> QED BY <1>7 DEF Neglected, S

\* A pass that finds nothing neglected changes nothing.
LEMMA ReconcileRests ==
  ASSUME NEW R \in Replica, NEW d, NEW now, Neglected(R) = {}
  PROVE  Reconcile(R, d, now) = R
<1> DEFINE S == Reconcile(R, d, now)
<1>1. PICK todo : Reconciles(R, S, d, todo, now)
  BY ReconcileReconciles
<1>2. Cardinality(Neglected(R)) = 0
  BY FS_EmptySet
<1>3. DOMAIN todo = {}
  BY <1>1, <1>2 DEF Reconciles, Bijection, Injection
<1>4. R.queue \cup {Missing(R, d, n, todo[n], now) : n \in DOMAIN todo} = R.queue
  BY <1>3
<1>5. R.minted + Cardinality(Neglected(R)) = R.minted
  BY <1>2 DEF Replica
<1>6. S = Requeued(R, R.queue, R.minted)
  BY <1>1, <1>4, <1>5 DEF Reconciles
<1>7. Requeued(R, R.queue, R.minted) = R
  BY DEF Requeued, Replica
<1> QED BY <1>6, <1>7 DEF S

-----------------------------------------------------------------------------
\* What keeps a device fit.

LEMMA SameSyncFits ==
  ASSUME NEW d, NEW rows, NEW R, NEW S, NEW t,
         NEW U, DeviceFits(R, t, d, rows, U), SameSync(R, S)
  PROVE  DeviceFits(S, t, d, rows, U)
<1>1. Sound(S, d, rows) /\ Pending(S) = Pending(R)
  BY SameSyncKeeps DEF DeviceFits
<1>2. S.queue = R.queue /\ S.shadow = R.shadow /\ S.cursor = R.cursor
  BY DEF SameSync
<1>3. StoredAreAhead(S, rows) /\ RoundFits(S, t, rows)
  BY <1>1, <1>2 DEF DeviceFits, StoredAreAhead, RoundFits, NoneStored, IsFront
<1>4. PassedAccounted(S, d, rows, S.cursor, U)
  BY <1>2 DEF DeviceFits, PassedAccounted, Accounted, HeldBack, QueueOf
<1> QED BY <1>1, <1>2, <1>3, <1>4 DEF DeviceFits

LEMMA GrownFits ==
  ASSUME NEW d \in Device, NEW rows \in SUBSET ServerRow, NEW R, NEW S, NEW new, NEW t,
         NEW U, DeviceFits(R, t, d, rows, U), QueueGrows(R, S, d, new)
  PROVE  DeviceFits(S, t, d, rows, U)
<1>1. /\ Sound(S, d, rows) /\ Pending(S) = Pending(R) \cup new
      /\ \A q \in new : ~IsStored(rows, q.id)
  BY GrownKeeps DEF DeviceFits
<1>2. R.queue \subseteq S.queue /\ S.shadow = R.shadow /\ S.cursor = R.cursor
  BY DEF QueueGrows
<1>3. StoredAreAhead(S, rows)
  BY <1>1, <1>2 DEF DeviceFits, StoredAreAhead
<1>4. PassedAccounted(S, d, rows, S.cursor, U)
  BY <1>2 DEF DeviceFits, PassedAccounted, Accounted, HeldBack, QueueOf
<1>5. ASSUME NEW batch, IsFront(R, batch) PROVE IsFront(S, batch)
  <2>1. ASSUME NEW i \in DOMAIN batch, NEW p \in Pending(S), p.id[2] <= batch[i].id[2]
        PROVE  p \in Pending(R)
    <3>1. SUFFICES ASSUME p \in new PROVE FALSE
      BY <1>1
    <3>2. batch[i] \in R.queue /\ p \in S.queue
      BY <1>5, <3>1 DEF IsFront, Pending, QueueGrows
    <3>3. batch[i].id[2] <= R.minted /\ p.id[2] > R.minted
      BY <3>1, <3>2 DEF DeviceFits, Sound, IdsCounted, QueueGrows
    <3>4. batch[i].id[2] \in Nat /\ p.id[2] \in Nat /\ R.minted \in Nat
      BY <1>1, <3>2 DEF DeviceFits, Sound, Replica, QueueRow
    <3> QED BY <2>1, <3>3, <3>4
  <2>2. \A i \in DOMAIN batch : batch[i] \in Pending(S)
    BY <1>1, <1>5 DEF IsFront
  <2> QED BY <1>5, <2>1, <2>2 DEF IsFront
<1>6. RoundFits(S, t, rows)
  BY <1>1, <1>5 DEF DeviceFits, RoundFits, NoneStored
<1> QED BY <1>1, <1>2, <1>3, <1>4, <1>6 DEF DeviceFits

LEMMA ReconcileFits ==
  ASSUME NEW d \in Device, NEW rows \in SUBSET ServerRow, NEW R, NEW t,
         NEW U, DeviceFits(R, t, d, rows, U), NEW now \in Now
  PROVE  DeviceFits(Reconcile(R, d, now), t, d, rows, U)
<1>1. PICK new : QueueGrows(R, Reconcile(R, d, now), d, new)
  BY ReconcileGrows DEF DeviceFits
<1> QED BY <1>1, GrownFits

\* A write of the library, observed or not.
LEMMA WriteFits ==
  ASSUME NEW d \in Device, NEW rows \in SUBSET ServerRow, NEW R, NEW t,
         NEW U, DeviceFits(R, t, d, rows, U), NEW S, SameSync(R, S),
         NEW doc \in Doc \cup {Tomb}, NEW now \in Now
  PROVE  DeviceFits(S, t, d, rows, U) /\ DeviceFits(Enqueue(S, d, Snippet, doc, now), t, d, rows, U)
<1>1. DeviceFits(S, t, d, rows, U)
  BY SameSyncFits
<1>2. QueueGrows(S, Enqueue(S, d, Snippet, doc, now), d,
                 {NewRecord(S, d, S.minted + 1, Snippet, doc, now)})
  BY <1>1, EntitiesFinite, EnqueueGrows DEF DeviceFits
<1> QED BY <1>1, <1>2, GrownFits

\* More records have failed to apply.
LEMMA MoreFailedFits ==
  ASSUME NEW d, NEW rows, NEW R, NEW t, NEW U, DeviceFits(R, t, d, rows, U),
         NEW V, U \subseteq V
  PROVE  DeviceFits(R, t, d, rows, V)
BY DEF DeviceFits, PassedAccounted

\* A round that goes on in another way.
LEMMA OtherRoundFits ==
  ASSUME NEW d, NEW rows, NEW R, NEW t, NEW u,
         NEW U, DeviceFits(R, t, d, rows, U), RoundFits(R, u, rows)
  PROVE  DeviceFits(R, u, d, rows, U)
BY DEF DeviceFits

\* Pages are pages in the sense of the walk.
LEMMA PageIsPage ==
  ASSUME NEW rows \in SUBSET ServerRow, Rows(rows), NEW c \in Nat,
         Page(rows, c, PullPageLimit) # {}
  PROVE  LET page == Page(rows, c, PullPageLimit)
             last == Max({r.seq : r \in page})
         IN  IsPageOf(page, rows, c, last) /\ last <= MaxSeq(rows)
<1> DEFINE page == Page(rows, c, PullPageLimit)
           T == {r.seq : r \in page}
           m == MaxSeq(page)
<1>1. /\ page \in SUBSET rows /\ m \in Nat /\ m > c /\ m <= MaxSeq(rows)
      /\ \A r \in rows : r \in page <=> r.seq > c /\ r.seq <= m
  BY RoundsAssumption, PageIsPrefix
<1>2. page # {}
  OBVIOUS
<1> HIDE DEF page
<1>3. Rows(page)
  <2>1. IsFiniteSet(page)
    BY <1>1, FS_Subset DEF Rows
  <2> QED BY <1>1, <2>1 DEF Rows
<1>4. m # 0 /\ (m # 0 => \E r \in page : r.seq = m) /\ \A r \in page : r.seq \in Nat /\ r.seq <= m
  BY <1>1, <1>3, MaxSeqIsLargest
<1>5. Max(T) = m
  <2>1. T \in SUBSET Nat /\ m \in T /\ \A x \in T : x <= m
    BY <1>4
  <2>2. IsFiniteSet(T)
    <3> DEFINE f == [r \in page |-> r.seq]
    <3>1. f \in Surjection(page, T)
      BY DEF Surjection
    <3>2. IsFiniteSet(page)
      BY <1>3 DEF Rows
    <3> HIDE DEF T
    <3> QED BY <3>1, <3>2, FS_Surjection
  <2>3. Max(T) \in T /\ Max(T) \in Nat /\ \A y \in T : y <= Max(T)
    <3> HIDE DEF T
    <3> QED BY <2>1, <2>2, MaxIsLargest
  <2>4. Max(T) <= m /\ m <= Max(T)
    BY <2>1, <2>3
  <2> QED BY <1>1, <2>3, <2>4
<1>6. IsPageOf(page, rows, c, m) /\ m <= MaxSeq(rows)
  BY <1>1 DEF IsPageOf
<1> QED BY <1>5, <1>6 DEF page

LEMMA PullFits ==
  ASSUME NEW d \in Device, NEW rows \in SUBSET ServerRow, LogRows(rows), NEW R, NEW t, NEW u,
         NEW U, DeviceFits(R, t, d, rows, U), t.at = "pull", u.at \in {"pull", "end"},
         Page(rows, R.cursor, PullPageLimit) # {},
         NEW now \in Now, NEW failing,
         NEW V, U \subseteq V, \A r \in failing : <<d, r.seq>> \in V,
         ApplyPage(R, d, Page(rows, R.cursor, PullPageLimit), failing, now).R.copies <= MaxCopies
  PROVE  LET applied == ApplyPage(R, d, Page(rows, R.cursor, PullPageLimit), failing, now)
         IN  /\ DeviceFits(applied.R, u, d, rows, V)
             /\ applied.merged \in BOOLEAN
             /\ applied.R.cursor > R.cursor /\ applied.R.cursor <= MaxSeq(rows)
             /\ \A e \in Entities : applied.R.shadow[e].version >= R.shadow[e].version
<1> DEFINE page == Page(rows, R.cursor, PullPageLimit)
           last == Max({r.seq : r \in page})
           P == ApplyPage(R, d, page, failing, now)
<1>1. R.cursor \in Nat /\ R \in Replica /\ Rows(rows)
  BY DEF DeviceFits, Sound, Replica, LogRows
<1>2. IsPageOf(page, rows, R.cursor, last) /\ last <= MaxSeq(rows)
  BY <1>1, PageIsPage
<1>3. Fine(R, d, rows) /\ PassedAccounted(R, d, rows, R.cursor, V)
  BY DEF DeviceFits, RoundFits, Fine, PassedAccounted
<1>4. page # {} /\ P.R.copies <= MaxCopies
  OBVIOUS
<1>5. PICK m : m = last
  OBVIOUS
<1> HIDE DEF page
<1>6. /\ Fine(P.R, d, rows) /\ P.R.cursor = m
      /\ \A e \in Entities : P.R.shadow[e].version >= R.shadow[e].version
      /\ PassedAccounted(P.R, d, rows, m, V)
      /\ P.merged \in BOOLEAN
  <2>1. IsPageOf(page, rows, R.cursor, m) /\ m = Max({r.seq : r \in page})
    BY <1>2, <1>5
  <2>2. PageApplied(R, P, d, rows, m, V)
    BY <1>3, <1>4, <2>1, ApplyPageFits
  <2> QED BY <2>2 DEF PageApplied
<1>7. m > R.cursor
  <2>1. PICK r \in page : TRUE
    BY <1>4
  <2>2. /\ r \in rows /\ r.seq > R.cursor /\ r.seq <= m /\ r.seq \in Nat /\ m \in Nat
    BY <1>2, <1>5, <2>1 DEF IsPageOf, ServerRow
  <2> QED BY <1>1, <2>2
<1>8. DeviceFits(P.R, u, d, rows, V)
  <2> HIDE DEF P
  <2>1. Sound(P.R, d, rows) /\ NoneStored(P.R, rows)
    BY <1>6 DEF Fine
  <2>2. StoredAreAhead(P.R, rows) /\ RoundFits(P.R, u, rows)
    BY <2>1 DEF StoredAreAhead, NoneStored, RoundFits
  <2>3. P.R.cursor <= MaxSeq(rows)
    BY <1>2, <1>5, <1>6
  <2> QED BY <1>6, <2>1, <2>2, <2>3 DEF DeviceFits
<1>9. P.R.cursor > R.cursor /\ P.R.cursor <= MaxSeq(rows)
  BY <1>2, <1>5, <1>6, <1>7
<1> QED BY <1>6, <1>8, <1>9 DEF P, page

-----------------------------------------------------------------------------
\* A batch on its way to the server.

FirstPending(R) ==
  InOrder({q \in Pending(R) :
             Cardinality({p \in Pending(R) : p.id[2] < q.id[2]}) < PushBatchLimit})

LEMMA FirstPendingIsFront ==
  ASSUME NEW d, NEW rows, NEW R, Sound(R, d, rows)
  PROVE  FirstPending(R) \in Seq(QueueRow) /\ IsFront(R, FirstPending(R))
<1> DEFINE Smaller(q) == {p \in Pending(R) : p.id[2] < q.id[2]}
           first == {q \in Pending(R) : Cardinality(Smaller(q)) < PushBatchLimit}
           batch == InOrder(first)
           N == Cardinality(first)
<1>1. /\ R \in Replica /\ R.queue \in SUBSET QueueRow /\ IsFiniteSet(R.queue)
      /\ \A q \in R.queue : q.id \in Device \X Nat /\ q.id[1] = d
      /\ \A p, q \in R.queue : p.id = q.id => p = q
      /\ Pending(R) \in SUBSET R.queue
  BY DEF Sound, IdsCounted, QueueOrdered, Replica, QueueRow, Pending
<1>2. \A p, q \in R.queue : p.id[2] = q.id[2] => p = q
  <2>1. ASSUME NEW p \in R.queue, NEW q \in R.queue, p.id[2] = q.id[2] PROVE p.id = q.id
    <3>1. p.id = <<p.id[1], p.id[2]>> /\ q.id = <<q.id[1], q.id[2]>>
      BY <1>1
    <3> QED BY <1>1, <2>1, <3>1
  <2> QED BY <1>1, <2>1
<1>3. \A q \in R.queue : q.id[2] \in Nat
  BY <1>1
<1>4. first \in SUBSET R.queue /\ first \in SUBSET Pending(R)
  BY <1>1
<1>5. IsFiniteSet(first) /\ IsFiniteSet(Pending(R))
  <2> HIDE DEF first
  <2> QED BY <1>1, <1>4, FS_Subset
<1>6. /\ N \in Nat
      /\ DOMAIN batch = 1..N
      /\ \A n \in DOMAIN batch : batch[n] \in first
      /\ \A q \in first : \E n \in DOMAIN batch : batch[n] = q
      /\ \A m, n \in DOMAIN batch : batch[m].id[2] <= batch[n].id[2] => m <= n
      /\ \A m, n \in DOMAIN batch : batch[m] = batch[n] => m = n
  <2>1. (\A q \in first : q.id[2] \in Nat) /\ \A p, q \in first : p.id[2] = q.id[2] => p = q
    BY <1>2, <1>3, <1>4
  <2> HIDE DEF first
  <2> QED BY <1>5, <2>1, InOrderLists
<1>7. ASSUME NEW q \in first, NEW p \in Pending(R), p.id[2] <= q.id[2]
      PROVE  p \in first
  <2>1. p.id[2] \in Nat /\ q.id[2] \in Nat /\ \A x \in Pending(R) : x.id[2] \in Nat
    BY <1>1, <1>3, <1>4
  <2>2. Smaller(p) \subseteq Smaller(q)
    BY <1>7, <2>1
  <2>3. Smaller(p) \in SUBSET Pending(R) /\ Smaller(q) \in SUBSET Pending(R)
    OBVIOUS
  <2>4. Cardinality(Smaller(q)) < PushBatchLimit
    OBVIOUS
  <2> HIDE DEF Smaller
  <2>5. /\ IsFiniteSet(Smaller(q)) /\ IsFiniteSet(Smaller(p))
        /\ Cardinality(Smaller(p)) <= Cardinality(Smaller(q))
    BY <1>5, <2>2, <2>3, FS_Subset
  <2>6. Cardinality(Smaller(p)) \in Nat /\ Cardinality(Smaller(q)) \in Nat /\ PushBatchLimit \in Nat
    BY <2>5, FS_CardinalityType, RoundsAssumption
  <2>7. Cardinality(Smaller(p)) < PushBatchLimit
    BY <2>4, <2>5, <2>6
  <2> QED BY <2>7
<1>8. FirstPending(R) = batch
  BY DEF FirstPending
<1>9. batch = [n \in 1..N |-> batch[n]]
  <2> HIDE DEF first
  <2> DEFINE Nth(n) == CHOOSE q \in first : Cardinality({p \in first : p.id[2] <= q.id[2]}) = n
  <2>1. batch = [n \in 1..N |-> Nth(n)]
    BY DEF InOrder
  <2> HIDE DEF Nth, batch, N
  <2> QED BY <2>1
<1> HIDE DEF first, N, batch
<1>10. batch \in Seq(QueueRow)
  <2>1. \A n \in 1..N : batch[n] \in QueueRow
    BY <1>1, <1>4, <1>6
  <2>2. [n \in 1..N |-> batch[n]] \in Seq(QueueRow)
    BY <1>6, <2>1
  <2> QED BY <1>9, <2>2
<1>11. IsFront(R, batch)
  <2>1. \A i \in DOMAIN batch : batch[i] \in Pending(R) /\ batch[i] \in R.queue
    BY <1>4, <1>6
  <2>2. \A i, j \in DOMAIN batch : batch[i].id = batch[j].id => i = j
    BY <1>1, <1>6, <2>1
  <2>3. ASSUME NEW i \in DOMAIN batch, NEW p \in Pending(R), p.id[2] <= batch[i].id[2]
        PROVE  \E j \in DOMAIN batch : j <= i /\ p = batch[j]
    <3>1. p \in first
      BY <1>6, <1>7, <2>3
    <3>2. PICK j \in DOMAIN batch : batch[j] = p
      BY <1>6, <3>1
    <3> QED BY <1>6, <2>3, <3>2
  <2> QED BY <2>1, <2>2, <2>3 DEF IsFront
<1> QED BY <1>8, <1>10, <1>11

LEMMA WireIsRow ==
  ASSUME NEW d \in Device, NEW q \in QueueRow, NEW n \in Nat \ {0}
  PROVE  LET r == WithSeq(Wire(d, q), n)
         IN  /\ r \in ServerRow
             /\ r.id = q.id /\ r.entity = q.entity /\ r.version = q.version /\ r.doc = q.doc
             /\ r.device = d
<1> DEFINE r == WithSeq(Wire(d, q), n)
           s == [id |-> q.id, entity |-> q.entity, version |-> q.version,
                 doc |-> q.doc, at |-> q.at, device |-> d, seq |-> n]
           Columns == {"id", "entity", "version", "doc", "at", "device", "seq"}
<1>1. r = [f \in Columns |-> IF f = "seq" THEN n ELSE Wire(d, q)[f]]
  <2>1. DOMAIN Wire(d, q) \cup {"seq"} = Columns
    BY DEF Wire
  <2> QED BY <2>1 DEF WithSeq
<1>2. s = [f \in Columns |-> s[f]]
  OBVIOUS
<1>3. \A f \in Columns : s[f] = IF f = "seq" THEN n ELSE Wire(d, q)[f]
  BY DEF Wire
<1>4. r = s
  <2> HIDE DEF s, r, Columns
  <2> QED BY <1>1, <1>2, <1>3
<1>5. s \in ServerRow
  BY DEF ServerRow, QueueRow
<1> HIDE DEF r
<1>6. r.id = q.id /\ r.entity = q.entity /\ r.version = q.version /\ r.doc = q.doc /\ r.device = d
  BY <1>4
<1> QED BY <1>4, <1>5, <1>6 DEF r

\* A batch as it travels.
Posted(d, queued) == [i \in DOMAIN queued |-> Wire(d, queued[i])]

LEMMA PostedIsBatch ==
  ASSUME NEW d, NEW queued \in Seq(QueueRow)
  PROVE  /\ IsBatch(Posted(d, queued))
         /\ DOMAIN Posted(d, queued) = DOMAIN queued
         /\ \A i \in DOMAIN queued :
              /\ Posted(d, queued)[i] = Wire(d, queued[i])
              /\ Posted(d, queued)[i].id = queued[i].id
              /\ Posted(d, queued)[i].entity = queued[i].entity
              /\ Posted(d, queued)[i].version = queued[i].version
<1> DEFINE batch == Posted(d, queued)
<1>1. DOMAIN batch = DOMAIN queued /\ \A i \in DOMAIN queued : batch[i] = Wire(d, queued[i])
  BY DEF Posted
<1>2. Len(queued) \in Nat /\ DOMAIN queued = 1..Len(queued)
  OBVIOUS
<1>3. \A i \in DOMAIN queued :
        /\ {"id", "entity", "version"} \subseteq DOMAIN Wire(d, queued[i])
        /\ Wire(d, queued[i]).id = queued[i].id
        /\ Wire(d, queued[i]).entity = queued[i].entity
        /\ Wire(d, queued[i]).version = queued[i].version
  BY DEF Wire
<1> HIDE DEF batch
<1>4. IsBatch(batch)
  BY <1>1, <1>2, <1>3 DEF IsBatch
<1> QED BY <1>1, <1>3, <1>4 DEF batch

\* The table with a pushed batch: the records stored before, and the batch's
\* new ones above them.
Grows(rows, more, d, queued) ==
  /\ more \in SUBSET ServerRow
  /\ LogRows(more)
  /\ rows \subseteq more
  /\ MaxSeq(rows) \in Nat /\ MaxSeq(more) \in Nat /\ MaxSeq(rows) <= MaxSeq(more)
  /\ \A i \in DOMAIN queued : IsStored(more, queued[i].id)
  /\ \A r \in more \ rows :
       /\ r.device = d /\ r.id[1] = d
       /\ r.seq \in Nat /\ r.seq > MaxSeq(rows)
       /\ \A q \in rows : q.entity = r.entity => q.version < r.version
       /\ \E i \in DOMAIN queued :
            /\ r.id = queued[i].id /\ r.entity = queued[i].entity
            /\ r.version = queued[i].version /\ r.doc = queued[i].doc

LEMMA PushGrows ==
  ASSUME NEW d \in Device, NEW rows \in SUBSET ServerRow, LogRows(rows),
         NEW queued \in Seq(QueueRow),
         \A i \in DOMAIN queued : queued[i].id[1] = d,
         \A i, j \in DOMAIN queued : queued[i].id = queued[j].id => i = j,
         ConflictingEntities(rows, Posted(d, queued)) = {}
  PROVE  Grows(rows, rows \cup Inserted(rows, Posted(d, queued)), d, queued)
<1> DEFINE batch == Posted(d, queued)
           new == Inserted(rows, batch)
           more == rows \cup new
<1>1. /\ IsBatch(batch) /\ DOMAIN batch = DOMAIN queued
      /\ \A i \in DOMAIN queued :
           batch[i] = Wire(d, queued[i]) /\ batch[i].id = queued[i].id
  BY PostedIsBatch
<1>2. ConflictingEntities(rows, batch) = {}
  OBVIOUS
<1>3. Rows(rows)
  BY DEF LogRows
<1> HIDE DEF batch
<1>4. ~Collides(rows, batch)
  <2>1. \A i \in FreshAt(rows, batch) : i \in DOMAIN queued
    BY <1>1 DEF FreshAt
  <2> QED BY <1>1, <2>1 DEF Collides
<1>5. Accepts(rows, batch)
  BY <1>2, <1>4 DEF Accepts
<1>6. LogRows(more)
  BY <1>1, <1>5, AcceptedKeepsLog
<1>7. /\ MaxSeq(rows) \in Nat /\ MaxSeq(more) \in Nat /\ MaxSeq(rows) <= MaxSeq(more)
      /\ \A r \in new : r.seq \in Nat /\ r.seq > MaxSeq(rows)
  BY <1>1, <1>3, <1>5, AcceptedIsAbove
<1>8. /\ \A r \in new : \E i \in FreshAt(rows, batch) : IsRowOf(r, rows, batch, i)
      /\ \A i \in FreshAt(rows, batch) : \E r \in new : IsRowOf(r, rows, batch, i)
  BY <1>1, <1>3, <1>5, InsertedRows
<1> HIDE DEF new
<1>9. ASSUME NEW r \in new
      PROVE  /\ r \in ServerRow
             /\ r.device = d /\ r.id[1] = d
             /\ \A q \in rows : q.entity = r.entity => q.version < r.version
             /\ \E i \in DOMAIN queued :
                  /\ r.id = queued[i].id /\ r.entity = queued[i].entity
                  /\ r.version = queued[i].version /\ r.doc = queued[i].doc
  <2>1. PICK i \in FreshAt(rows, batch) : IsRowOf(r, rows, batch, i)
    BY <1>8
  <2>2. i \in DOMAIN queued /\ queued[i] \in QueueRow
    BY <1>1 DEF FreshAt
  <2>3. PICK n \in Nat \ {0} : n = r.seq /\ n = SeqAt(rows, batch, i)
    <3>1. r.seq \in Nat \ {0} /\ r.seq = SeqAt(rows, batch, i)
      BY <2>1 DEF IsRowOf, SeqAt
    <3> QED BY <3>1
  <2>4. PICK q \in QueueRow : q = queued[i]
    BY <2>2
  <2>5. r = WithSeq(Wire(d, q), n)
    BY <1>1, <2>1, <2>2, <2>3, <2>4 DEF IsRowOf
  <2>6. /\ r \in ServerRow
        /\ r.id = q.id /\ r.entity = q.entity /\ r.version = q.version /\ r.doc = q.doc
        /\ r.device = d
    BY <2>5, WireIsRow
  <2>7. \A p \in rows : p.entity = r.entity => p.version < r.version
    BY <1>1, <1>3, <2>1, NewRowIsAbove
  <2> QED BY <2>2, <2>4, <2>6, <2>7
<1>10. ASSUME NEW i \in DOMAIN queued PROVE IsStored(more, queued[i].id)
  <2>1. CASE IsStored(rows, batch[i].id)
    BY <1>1, <2>1 DEF IsStored
  <2>2. CASE ~IsStored(rows, batch[i].id)
    <3>1. i \in FreshAt(rows, batch)
      BY <1>1, <2>2 DEF FreshAt
    <3>2. PICK r \in new : IsRowOf(r, rows, batch, i)
      BY <1>8, <3>1
    <3> QED BY <1>1, <3>2 DEF IsRowOf, IsStored
  <2> QED BY <2>1, <2>2
<1>11. more \in SUBSET ServerRow /\ rows \subseteq more /\ \A r \in more \ rows : r \in new
  BY <1>9
<1> HIDE DEF more
<1>12. Grows(rows, more, d, queued)
  BY <1>6, <1>7, <1>9, <1>10, <1>11 DEF Grows
<1> QED BY <1>12 DEF more, new, batch

\* Agreement with the server outlives more records, and so does everything
\* else for the devices that did not push.
LEMMA OtherDeviceFits ==
  ASSUME NEW c \in Device, NEW d \in Device, c # d, NEW rows, NEW more, NEW queued,
         Grows(rows, more, d, queued),
         NEW R, NEW t, NEW U, DeviceFits(R, t, c, rows, U)
  PROVE  DeviceFits(R, t, c, more, U)
<1>1. /\ R \in Replica /\ R.cursor \in Nat /\ Sound(R, c, rows)
      /\ \A q \in R.queue : q.id[1] = c
      /\ rows \subseteq more
      /\ \A r \in more \ rows : r.device = d /\ r.id[1] = d /\ r.seq \in Nat /\ r.seq > MaxSeq(rows)
      /\ MaxSeq(rows) \in Nat /\ MaxSeq(more) \in Nat /\ MaxSeq(rows) <= MaxSeq(more)
      /\ R.cursor <= MaxSeq(rows)
  BY DEF DeviceFits, Sound, IdsCounted, Grows, Replica
<1>2. \A q \in R.queue : IsStored(more, q.id) => IsStored(rows, q.id)
  BY <1>1 DEF IsStored
<1>3. IdsCounted(R, c, more)
  BY <1>1 DEF Sound, IdsCounted
<1>4. SentAsQueued(R, more)
  <2>1. ASSUME NEW q \in R.queue, NEW r \in more, r.id = q.id
        PROVE  r \in rows
    BY <1>1, <2>1
  <2> QED BY <1>1, <2>1 DEF Sound, SentAsQueued
<1>5. ShadowAgreed(R, more)
  BY <1>1 DEF Sound, ShadowAgreed, Agreed
<1>6. StoredAreAhead(R, more)
  BY <1>2 DEF DeviceFits, StoredAreAhead, Pending
<1>7. PassedAccounted(R, c, more, R.cursor, U)
  <2>1. ASSUME NEW r \in more, r.seq <= R.cursor PROVE r \in rows
    BY <1>1, <2>1
  <2> QED BY <2>1 DEF DeviceFits, PassedAccounted
<1>8. RoundFits(R, t, more)
  <2>1. NoneStored(R, rows) => NoneStored(R, more)
    BY <1>2 DEF NoneStored, Pending
  <2>2. \A id : IsStored(rows, id) => IsStored(more, id)
    BY <1>1 DEF IsStored
  <2> QED BY <2>1, <2>2 DEF DeviceFits, RoundFits
<1>9. R.cursor <= MaxSeq(more)
  BY <1>1
<1>10. QueueOrdered(R)
  BY <1>1 DEF Sound
<1> QED BY <1>1, <1>3, <1>4, <1>5, <1>6, <1>7, <1>8, <1>9, <1>10 DEF DeviceFits, Sound

LEMMA PushedFits ==
  ASSUME NEW d \in Device, NEW rows \in SUBSET ServerRow, NEW more, NEW R, NEW t,
         NEW U, DeviceFits(R, t, d, rows, U),
         NEW queued, IsFront(R, queued), Grows(rows, more, d, queued),
         NEW u, u.at = "reply", u.batch = queued
  PROVE  DeviceFits(R, u, d, more, U)
<1>1. /\ R \in Replica /\ R.cursor \in Nat /\ Sound(R, d, rows)
      /\ \A q \in R.queue : q.id[1] = d /\ q.id[2] <= R.minted
      /\ \A p, q \in R.queue : p.id = q.id => p = q
      /\ MaxSeq(rows) \in Nat /\ MaxSeq(more) \in Nat /\ MaxSeq(rows) <= MaxSeq(more)
      /\ R.cursor <= MaxSeq(rows)
      /\ \A i \in DOMAIN queued : queued[i] \in R.queue
  BY DEF DeviceFits, Sound, IdsCounted, QueueOrdered, Grows, Replica, IsFront, Pending
<1>2. ASSUME NEW r \in more \ rows
      PROVE  /\ r.device = d /\ r.id[1] = d
             /\ r.seq \in Nat /\ r.seq > MaxSeq(rows)
             /\ \A q \in rows : q.entity = r.entity => q.version < r.version
             /\ \E i \in DOMAIN queued :
                  /\ r.id = queued[i].id /\ r.entity = queued[i].entity
                  /\ r.version = queued[i].version /\ r.doc = queued[i].doc
  BY DEF Grows
<1>3. rows \subseteq more /\ more \in SUBSET ServerRow
  BY DEF Grows
<1>4. IdsCounted(R, d, more)
  <2>1. ASSUME NEW r \in more, r \notin rows PROVE r.id[1] = r.device /\ r.id[2] <= R.minted
    BY <1>1, <1>2, <2>1
  <2>2. \A r \in rows : r.id[1] = r.device /\ (r.device = d => r.id[2] <= R.minted)
    BY <1>1 DEF Sound, IdsCounted
  <2> QED BY <1>1, <2>1, <2>2 DEF IdsCounted
<1>5. SentAsQueued(R, more)
  <2>1. SUFFICES ASSUME NEW q \in R.queue, NEW r \in more, r.id = q.id
                 PROVE  r.entity = q.entity /\ r.version = q.version /\ r.doc = q.doc
    BY DEF SentAsQueued
  <2>2. CASE r \in rows
    BY <1>1, <2>1, <2>2 DEF Sound, SentAsQueued
  <2>3. CASE r \notin rows
    <3>1. PICK i \in DOMAIN queued :
            /\ r.id = queued[i].id /\ r.entity = queued[i].entity
            /\ r.version = queued[i].version /\ r.doc = queued[i].doc
      BY <1>2, <2>3
    <3>2. queued[i] = q
      BY <1>1, <2>1, <3>1
    <3> QED BY <3>1, <3>2
  <2> QED BY <2>2, <2>3
<1>6. ShadowAgreed(R, more)
  BY <1>1, <1>3 DEF Sound, ShadowAgreed, Agreed
<1>7. StoredAreAhead(R, more)
  <2>1. SUFFICES ASSUME NEW q \in Pending(R), NEW r \in more, r.id = q.id
                 PROVE  q.version > R.shadow[q.entity].version
    BY DEF StoredAreAhead, IsStored
  <2>2. CASE r \in rows
    BY <2>1, <2>2 DEF DeviceFits, StoredAreAhead, IsStored
  <2>3. CASE r \notin rows
    <3>1. q \in R.queue /\ q \in QueueRow /\ q.entity \in Entities /\ q.version \in Nat \ {0}
      BY <1>1 DEF Pending, Replica, QueueRow
    <3>2. r.entity = q.entity /\ r.version = q.version
      BY <1>5, <2>1, <3>1 DEF SentAsQueued
    <3>3. R.shadow[q.entity].version \in Nat
      BY <1>1, <3>1 DEF Replica
    <3>4. CASE R.shadow[q.entity].version = 0
      BY <3>1, <3>4
    <3>5. CASE R.shadow[q.entity].version > 0
      <4>1. PICK p \in rows : p.entity = q.entity /\ p.version = R.shadow[q.entity].version
        BY <1>1, <3>1, <3>5 DEF Sound, ShadowAgreed, Agreed
      <4>2. p.version < r.version
        BY <1>2, <2>3, <3>2, <4>1
      <4> QED BY <3>1, <3>2, <3>3, <4>1, <4>2
    <3> QED BY <3>3, <3>4, <3>5
  <2> QED BY <2>2, <2>3
<1>8. PassedAccounted(R, d, more, R.cursor, U)
  <2>1. ASSUME NEW r \in more, Foreign(d, r) PROVE r \in rows
    BY <1>2, <2>1 DEF Foreign
  <2> QED BY <2>1 DEF DeviceFits, PassedAccounted
<1>9. RoundFits(R, u, more)
  BY DEF RoundFits, Grows
<1>10. R.cursor <= MaxSeq(more) /\ QueueOrdered(R)
  BY <1>1 DEF Sound
<1> QED BY <1>1, <1>4, <1>5, <1>6, <1>7, <1>8, <1>9, <1>10 DEF DeviceFits, Sound

-----------------------------------------------------------------------------
\* The steps of a device.

Books ==
  /\ enabled \in [Device -> BOOLEAN]
  /\ edits \in [Device -> Seq(Operations)]
  /\ \A d \in Device : Len(edits[d]) <= MaxEditsEach
  /\ failures \in 0..MaxFailures

\* Device d goes to replica S and round t; the server is not involved.
DeviceMoves(d, S, t) ==
  /\ record' = record
  /\ replica' = [replica EXCEPT ![d] = S]
  /\ round' = [round EXCEPT ![d] = t]
  /\ t \in Round
  /\ unapplied \subseteq unapplied' /\ unapplied' \subseteq Device \X (Nat \ {0})
  /\ DeviceFits(S, t, d, record, unapplied')
  /\ \/ S.cursor = replica[d].cursor
     \/ S.cursor \in (replica[d].cursor + 1)..MaxSeq(record)
  /\ \A e \in Entities : S.shadow[e].version >= replica[d].shadow[e].version

LEMMA InvParts ==
  ASSUME Inv
  PROVE  /\ record \in SUBSET ServerRow /\ LogRows(record) /\ Rows(record) /\ Books
         /\ unapplied \subseteq Device \X (Nat \ {0})
         /\ replica \in [Device -> Replica] /\ round \in [Device -> Round]
         /\ \A d \in Device : /\ replica[d] \in Replica /\ round[d] \in Round
                              /\ DeviceFits(replica[d], round[d], d, record, unapplied)
                              /\ Sound(replica[d], d, record)
                              /\ replica[d].cursor \in Nat
                              /\ \A e \in Entities : replica[d].shadow[e].version \in Nat
<1>1. TypeOK /\ LogRows(record)
  BY DEF Inv
<1>2. /\ record \in SUBSET ServerRow /\ replica \in [Device -> Replica]
      /\ round \in [Device -> Round] /\ Books /\ Rows(record)
      /\ unapplied \subseteq Device \X (Nat \ {0})
  BY <1>1 DEF TypeOK, Books, LogRows
<1>3. \A d \in Device : /\ DeviceFits(replica[d], round[d], d, record, unapplied)
                        /\ Sound(replica[d], d, record)
  BY DEF Inv, DeviceFits
<1>4. \A R \in Replica : R.cursor \in Nat /\ \A e \in Entities : R.shadow[e].version \in Nat
  BY DEF Replica
<1>5. \A d \in Device : replica[d] \in Replica /\ round[d] \in Round
  BY <1>2
<1> QED BY <1>1, <1>2, <1>3, <1>4, <1>5

LEMMA MovesInv ==
  ASSUME Inv, NEW d \in Device, NEW S, NEW t, DeviceMoves(d, S, t), Books'
  PROVE  Inv'
<1>1. /\ replica' = [replica EXCEPT ![d] = S] /\ round' = [round EXCEPT ![d] = t]
      /\ record' = record /\ t \in Round /\ DeviceFits(S, t, d, record, unapplied')
      /\ unapplied \subseteq unapplied' /\ unapplied' \subseteq Device \X (Nat \ {0})
  BY DEF DeviceMoves
<1>2. S \in Replica
  BY <1>1 DEF DeviceFits, Sound
<1>3. /\ record \in SUBSET ServerRow /\ LogRows(record)
      /\ replica \in [Device -> Replica] /\ round \in [Device -> Round]
      /\ \A c \in Device : DeviceFits(replica[c], round[c], c, record, unapplied)
  BY InvParts
<1>4. replica' \in [Device -> Replica] /\ round' \in [Device -> Round]
  BY <1>1, <1>2, <1>3
<1>5. TypeOK'
  BY <1>1, <1>3, <1>4 DEF TypeOK, Books
<1>6. ASSUME NEW c \in Device PROVE DeviceFits(replica'[c], round'[c], c, record', unapplied')
  <2>1. CASE c = d
    <3>1. replica'[c] = S /\ round'[c] = t
      BY <1>1, <1>3, <2>1
    <3> QED BY <1>1, <2>1, <3>1
  <2>2. CASE c # d
    <3>1. replica'[c] = replica[c] /\ round'[c] = round[c]
      BY <1>1, <1>3, <2>2
    <3>2. DeviceFits(replica[c], round[c], c, record, unapplied')
      BY <1>1, <1>3, MoreFailedFits
    <3> QED BY <1>1, <3>1, <3>2
  <2> QED BY <2>1, <2>2
<1> QED BY <1>1, <1>3, <1>5, <1>6 DEF Inv

\* A device whose replica changes without its shadow or watermark.
LEMMA ReplicaMoves ==
  ASSUME Inv, NEW d \in Device, NEW S, NEW t \in Round, DeviceFits(S, t, d, record, unapplied),
         S.cursor = replica[d].cursor, S.shadow = replica[d].shadow,
         record' = record /\ unapplied' = unapplied, replica' = [replica EXCEPT ![d] = S],
         round' = [round EXCEPT ![d] = t]
  PROVE  DeviceMoves(d, S, t)
<1>1. \A e \in Entities : replica[d].shadow[e].version \in Nat
  BY InvParts
<1>2. \A e \in Entities : S.shadow[e].version >= replica[d].shadow[e].version
  BY <1>1
<1>3. unapplied \subseteq Device \X (Nat \ {0}) /\ DeviceFits(S, t, d, record, unapplied')
  BY InvParts
<1> QED BY <1>2, <1>3 DEF DeviceMoves

\* A device that only goes to another round.
LEMMA RoundMoves ==
  ASSUME Inv, NEW d \in Device, NEW t \in Round, RoundFits(replica[d], t, record),
         record' = record /\ unapplied' = unapplied, replica' = replica, round' = [round EXCEPT ![d] = t]
  PROVE  DeviceMoves(d, replica[d], t)
<1>1. /\ DeviceFits(replica[d], round[d], d, record, unapplied)
      /\ replica \in [Device -> Replica]
      /\ \A e \in Entities : replica[d].shadow[e].version \in Nat
  BY InvParts
<1>2. DeviceFits(replica[d], t, d, record, unapplied)
  BY <1>1, OtherRoundFits
<1>3. PICK S : S = replica[d]
  OBVIOUS
<1>4. replica' = [replica EXCEPT ![d] = S]
  BY <1>1, <1>3
<1>5. DeviceFits(S, t, d, record, unapplied) /\ S.cursor = replica[d].cursor /\ S.shadow = replica[d].shadow
  BY <1>2, <1>3
<1>6. DeviceMoves(d, S, t)
  BY <1>4, <1>5, ReplicaMoves
<1> QED BY <1>3, <1>6

\* The books of a local operation.
LEMMA EditsBooks ==
  ASSUME Books, NEW d \in Device, NEW op, Edits(d, op), enabled' \in [Device -> BOOLEAN]
  PROVE  Books' /\ record' = record /\ unapplied' = unapplied /\ round' = round
<1>1. /\ op \in Operations /\ Len(edits[d]) < MaxEditsEach /\ MaxEditsEach \in Nat
      /\ edits' = [edits EXCEPT ![d] = Append(edits[d], op)]
      /\ record' = record /\ unapplied' = unapplied /\ round' = round /\ failures' = failures
  BY RoundsAssumption DEF Edits
<1>2. edits \in [Device -> Seq(Operations)] /\ \A c \in Device : Len(edits[c]) <= MaxEditsEach
  BY DEF Books
<1>3. Append(edits[d], op) \in Seq(Operations) /\ Len(Append(edits[d], op)) = Len(edits[d]) + 1
  BY <1>1, <1>2
<1>4. Len(edits[d]) \in Nat
  BY <1>2
<1>5. edits' \in [Device -> Seq(Operations)]
  BY <1>1, <1>2, <1>3
<1>6. \A c \in Device : Len(edits'[c]) <= MaxEditsEach
  <2>1. ASSUME NEW c \in Device PROVE Len(edits'[c]) <= MaxEditsEach
    <3>1. CASE c = d
      <4>1. edits'[c] = Append(edits[d], op)
        BY <1>1, <1>2, <3>1
      <4>2. Len(edits'[c]) = Len(edits[d]) + 1
        BY <1>3, <4>1
      <4> QED BY <1>1, <1>4, <4>2
    <3>2. CASE c # d
      BY <1>1, <1>2, <3>2
    <3> QED BY <3>1, <3>2
  <2> QED BY <2>1
<1> QED BY <1>1, <1>5, <1>6 DEF Books

LEMMA FreshTyped ==
  ASSUME EditCount < MaxEdits
  PROVE  Fresh \in 0..MaxEdits
<1> DEFINE places == Device \X (1..MaxEditsEach)
           done == {x \in places : x[2] \in DOMAIN edits[x[1]]}
<1>1. IsFiniteSet(Device) /\ MaxEditsEach \in Nat /\ MaxEdits \in Nat
  BY RoundsAssumption
<1>2. IsFiniteSet(1..MaxEditsEach)
  BY <1>1, UpTo
<1>3. IsFiniteSet(places)
  BY <1>1, <1>2, FS_Product
<1>4. IsFiniteSet(done)
  <2>1. done \in SUBSET places
    OBVIOUS
  <2> HIDE DEF places, done
  <2> QED BY <1>3, <2>1, FS_Subset
<1>5. EditCount = Cardinality(done)
  BY DEF EditCount
<1>6. EditCount \in Nat
  BY <1>4, <1>5, FS_CardinalityType
<1> QED BY <1>1, <1>6 DEF Fresh

\* A write, observed when sync is on.
LEMMA WriteMoves ==
  ASSUME Inv, NEW d \in Device, NEW R, SameSync(replica[d], R), NEW doc \in Doc \cup {Tomb},
         Write(d, R, doc), record' = record /\ unapplied' = unapplied, round' = round
  PROVE  \E S : DeviceMoves(d, S, round[d])
<1>1. /\ DeviceFits(replica[d], round[d], d, record, unapplied) /\ record \in SUBSET ServerRow
      /\ round \in [Device -> Round] /\ round[d] \in Round
  BY InvParts
<1>2. PICK now \in Now :
        replica' = [replica EXCEPT ![d] = IF enabled[d] THEN Enqueue(R, d, Snippet, doc, now) ELSE R]
  BY DEF Write
<1>3. /\ DeviceFits(R, round[d], d, record, unapplied)
      /\ DeviceFits(Enqueue(R, d, Snippet, doc, now), round[d], d, record, unapplied)
  BY <1>1, WriteFits
<1>4. round' = [round EXCEPT ![d] = round[d]]
  BY <1>1
<1>5. R.cursor = replica[d].cursor /\ R.shadow = replica[d].shadow /\ R \in Replica
  BY DEF SameSync
<1>6. CASE enabled[d]
  <2> DEFINE S == Enqueue(R, d, Snippet, doc, now)
  <2>1. S.cursor = R.cursor /\ S.shadow = R.shadow
    <3>1. QueueGrows(R, S, d, {NewRecord(R, d, R.minted + 1, Snippet, doc, now)})
      BY <1>3, EntitiesFinite, EnqueueGrows DEF DeviceFits
    <3> QED BY <3>1 DEF QueueGrows
  <2>2. replica' = [replica EXCEPT ![d] = S]
    BY <1>2, <1>6
  <2> HIDE DEF S
  <2>3. DeviceFits(S, round[d], d, record, unapplied)
    BY <1>3 DEF S
  <2>4. DeviceMoves(d, S, round[d])
    BY <1>1, <1>4, <1>5, <2>1, <2>2, <2>3, ReplicaMoves
  <2> QED BY <2>4
<1>7. CASE ~enabled[d]
  <2>1. replica' = [replica EXCEPT ![d] = R]
    BY <1>2, <1>7
  <2>2. DeviceMoves(d, R, round[d])
    BY <1>1, <1>3, <1>4, <1>5, <2>1, ReplicaMoves
  <2> QED BY <2>2
<1> QED BY <1>6, <1>7

LEMMA UpdateSame ==
  ASSUME NEW R \in Replica, NEW doc \in Doc
  PROVE  SameSync(R, [R EXCEPT !.row[Snippet] = doc, !.history[Snippet] = @ \cup {doc.body}])
<1>1. Snippet \in Entities /\ doc.body \in 0..MaxEdits
  BY EntitiesFinite DEF Doc
<1> HIDE DEF Snippet
<1>2. /\ R.row \in [Entities -> Doc \cup {NoRow}]
      /\ R.history \in [Entities -> SUBSET (0..MaxEdits)]
  BY DEF Replica
<1>3. R.history[Snippet] \cup {doc.body} \in SUBSET (0..MaxEdits)
  BY <1>1, <1>2
<1> DEFINE rows == [R.row EXCEPT ![Snippet] = doc]
           hist == [R.history EXCEPT ![Snippet] = R.history[Snippet] \cup {doc.body}]
<1>4. rows \in [Entities -> Doc \cup {NoRow}] /\ hist \in [Entities -> SUBSET (0..MaxEdits)]
  BY <1>1, <1>2, <1>3
<1>5. [R EXCEPT !.row[Snippet] = doc, !.history[Snippet] = @ \cup {doc.body}]
        = [R EXCEPT !.row = rows, !.history = hist]
  BY DEF Replica
<1> HIDE DEF rows, hist
<1>6. SameSync(R, [R EXCEPT !.row = rows, !.history = hist])
  BY <1>4 DEF SameSync, Replica
<1> QED BY <1>5, <1>6

\* A local operation moves its device and nothing else.
LEMMA LocalMoves ==
  ASSUME Inv, NEW d \in Device, Local(d)
  PROVE  Books' /\ \E S : DeviceMoves(d, S, round[d])
<1> DEFINE R == replica[d]
<1>1. /\ R \in Replica /\ DeviceFits(R, round[d], d, record, unapplied) /\ Books
      /\ round \in [Device -> Round] /\ round[d] \in Round
      /\ record \in SUBSET ServerRow /\ enabled \in [Device -> BOOLEAN]
      /\ replica \in [Device -> Replica]
  BY InvParts DEF Books
<1>2. Snippet \in Entities
  BY EntitiesFinite
<1>3. Row(d) # NoRow => Row(d) \in Doc
  BY <1>1, <1>2 DEF Row, Replica
<1>4. Live(R, Snippet) => Row(d) # NoRow
  BY DEF Live, Row
<1>5. ASSUME NEW doc \in Doc, Update(d, doc), record' = record /\ unapplied' = unapplied, round' = round
      PROVE  \E S : DeviceMoves(d, S, round[d])
  <2>1. PICK T : T = [R EXCEPT !.row[Snippet] = doc, !.history[Snippet] = @ \cup {doc.body}]
    OBVIOUS
  <2>2. SameSync(R, T)
    BY <1>1, <2>1, UpdateSame
  <2>3. Write(d, T, doc)
    BY <1>5, <2>1 DEF Update
  <2> QED BY <1>5, <2>2, <2>3, WriteMoves
<1>6. ASSUME EditTitle(d)
      PROVE  Books' /\ \E S : DeviceMoves(d, S, round[d])
  <2>1. /\ Edits(d, "title") /\ Live(R, Snippet) /\ enabled' = enabled
        /\ Update(d, [Row(d) EXCEPT !.title = Fresh])
    BY <1>6 DEF EditTitle
  <2>2. Fresh \in 0..MaxEdits
    BY <2>1, FreshTyped DEF Edits
  <2>3. [Row(d) EXCEPT !.title = Fresh] \in Doc
    BY <1>3, <1>4, <2>1, <2>2 DEF Doc
  <2>4. Books' /\ record' = record /\ unapplied' = unapplied /\ round' = round
    BY <1>1, <2>1, EditsBooks
  <2> QED BY <1>5, <2>1, <2>3, <2>4
<1>7. ASSUME EditBody(d)
      PROVE  Books' /\ \E S : DeviceMoves(d, S, round[d])
  <2>1. /\ Edits(d, "body") /\ Live(R, Snippet) /\ enabled' = enabled
        /\ Update(d, [Row(d) EXCEPT !.body = Fresh])
    BY <1>7 DEF EditBody
  <2>2. Fresh \in 0..MaxEdits
    BY <2>1, FreshTyped DEF Edits
  <2>3. [Row(d) EXCEPT !.body = Fresh] \in Doc
    BY <1>3, <1>4, <2>1, <2>2 DEF Doc
  <2>4. Books' /\ record' = record /\ unapplied' = unapplied /\ round' = round
    BY <1>1, <2>1, EditsBooks
  <2> QED BY <1>5, <2>1, <2>3, <2>4
<1>8. ASSUME Trash(d)
      PROVE  Books' /\ \E S : DeviceMoves(d, S, round[d])
  <2>1. /\ Edits(d, "trash") /\ enabled' = enabled
        /\ Write(d, ApplyTombstone(R, Snippet), Tomb)
    BY <1>8 DEF Trash
  <2>2. SameSync(R, ApplyTombstone(R, Snippet))
    BY <1>1, <1>2, ApplyTombstoneSame
  <2>3. Books' /\ record' = record /\ unapplied' = unapplied /\ round' = round
    BY <1>1, <2>1, EditsBooks
  <2>4. PICK doc \in Doc \cup {Tomb} : doc = Tomb
    OBVIOUS
  <2>5. Write(d, ApplyTombstone(R, Snippet), doc)
    BY <2>1, <2>4
  <2> QED BY <2>2, <2>3, <2>5, WriteMoves
<1>9. ASSUME Restore(d)
      PROVE  Books' /\ \E S : DeviceMoves(d, S, round[d])
  <2> DEFINE live == [Row(d) EXCEPT !.deleted = FALSE]
  <2>1. /\ Edits(d, "restore") /\ enabled' = enabled /\ Row(d) # NoRow
        /\ Write(d, ApplyDocument(R, Snippet, live), live)
    BY <1>9 DEF Restore, ApplyDocument
  <2>2. live \in Doc
    BY <1>3, <2>1 DEF Doc
  <2> HIDE DEF live
  <2>3. SameSync(R, ApplyDocument(R, Snippet, live))
    BY <1>1, <1>2, <2>2, ApplyDocumentSame
  <2>4. Books' /\ record' = record /\ unapplied' = unapplied /\ round' = round
    BY <1>1, <2>1, EditsBooks
  <2> QED BY <2>1, <2>2, <2>3, <2>4, WriteMoves
<1>10. SameSync(R, HardDelete(R, Snippet))
  BY <1>1, <1>2, HardDeleteSame
<1>11. ASSUME DeleteForever(d)
       PROVE  Books' /\ \E S : DeviceMoves(d, S, round[d])
  <2>1. /\ Edits(d, "delete") /\ enabled' = enabled
        /\ Write(d, HardDelete(R, Snippet), Tomb)
    BY <1>11 DEF DeleteForever
  <2>2. Books' /\ record' = record /\ unapplied' = unapplied /\ round' = round
    BY <1>1, <2>1, EditsBooks
  <2>3. PICK doc \in Doc \cup {Tomb} : doc = Tomb
    OBVIOUS
  <2>4. Write(d, HardDelete(R, Snippet), doc)
    BY <2>1, <2>3
  <2> QED BY <1>10, <2>2, <2>4, WriteMoves
<1>12. \A S : /\ DeviceFits(S, round[d], d, record, unapplied)
              /\ S.cursor = R.cursor /\ S.shadow = R.shadow
              /\ record' = record /\ unapplied' = unapplied /\ round' = round
              /\ replica' = [replica EXCEPT ![d] = S]
              => DeviceMoves(d, S, round[d])
  <2>1. round = [round EXCEPT ![d] = round[d]]
    BY <1>1
  <2> QED BY <1>1, <2>1, ReplicaMoves
<1>13. ASSUME PurgeExpired(d)
       PROVE  Books' /\ \E S : DeviceMoves(d, S, round[d])
  <2>1. /\ Edits(d, "purge") /\ enabled' = enabled
        /\ replica' = [replica EXCEPT ![d] = HardDelete(R, Snippet)]
    BY <1>13 DEF PurgeExpired
  <2>2. Books' /\ record' = record /\ unapplied' = unapplied /\ round' = round
    BY <1>1, <2>1, EditsBooks
  <2>3. PICK S : S = HardDelete(R, Snippet)
    OBVIOUS
  <2>4. DeviceFits(S, round[d], d, record, unapplied) /\ S.cursor = R.cursor /\ S.shadow = R.shadow
    BY <1>1, <1>10, <2>3, SameSyncFits DEF SameSync
  <2>5. replica' = [replica EXCEPT ![d] = S]
    BY <2>1, <2>3
  <2> QED BY <1>12, <2>2, <2>4, <2>5
<1>14. ASSUME Disable(d)
       PROVE  Books' /\ \E S : DeviceMoves(d, S, round[d])
  <2>1. /\ Edits(d, "switch") /\ enabled' = [enabled EXCEPT ![d] = FALSE] /\ replica' = replica
    BY <1>14 DEF Disable
  <2>2. enabled' \in [Device -> BOOLEAN]
    BY <1>1, <2>1
  <2>3. Books' /\ record' = record /\ unapplied' = unapplied /\ round' = round
    BY <1>1, <2>1, <2>2, EditsBooks
  <2>4. PICK S : S = R
    OBVIOUS
  <2>5. replica' = [replica EXCEPT ![d] = S]
    BY <1>1, <2>1, <2>4
  <2>6. DeviceFits(S, round[d], d, record, unapplied) /\ S.cursor = R.cursor /\ S.shadow = R.shadow
    BY <1>1, <2>4
  <2> QED BY <1>12, <2>3, <2>5, <2>6
<1>15. ASSUME Enable(d)
       PROVE  Books' /\ \E S : DeviceMoves(d, S, round[d])
  <2>1. /\ enabled' = [enabled EXCEPT ![d] = TRUE]
        /\ record' = record /\ unapplied' = unapplied /\ round' = round /\ edits' = edits /\ failures' = failures
    BY <1>15 DEF Enable
  <2>2. PICK now \in Now : replica' = [replica EXCEPT ![d] = Reconcile(R, d, now)]
    BY <1>15 DEF Enable
  <2>3. Books'
    BY <1>1, <2>1 DEF Books
  <2>4. PICK S : S = Reconcile(R, d, now)
    OBVIOUS
  <2>5. PICK new : QueueGrows(R, S, d, new)
    BY <1>1, <2>4, ReconcileGrows DEF DeviceFits
  <2>6. DeviceFits(S, round[d], d, record, unapplied) /\ S.cursor = R.cursor /\ S.shadow = R.shadow
    BY <1>1, <2>5, GrownFits DEF QueueGrows
  <2>7. replica' = [replica EXCEPT ![d] = S]
    BY <2>2, <2>4
  <2> QED BY <1>12, <2>1, <2>3, <2>6, <2>7
<1> QED BY <1>6, <1>7, <1>8, <1>9, <1>11, <1>13, <1>14, <1>15 DEF Local

\* The steps of a round that only move the round.
LEMMA RoundFieldsTyped ==
  ASSUME NEW t \in Round
  PROVE  /\ t.iteration \in 0..MergeRoundsMax /\ t.merged \in BOOLEAN
         /\ t.batch \in Seq(QueueRow) /\ t.heads \in SUBSET Entities
         /\ \A at \in {"idle", "push", "reply", "pull", "end"} :
              /\ [t EXCEPT !.at = at] \in Round /\ [t EXCEPT !.at = at].at = at
BY DEF Round

LEMMA IdleTyped ==
  /\ Idle \in Round /\ Idle.at = "idle"
  /\ [Idle EXCEPT !.at = "push", !.iteration = 1] \in Round
  /\ [Idle EXCEPT !.at = "push", !.iteration = 1].at = "push"
<1>1. 0 \in 0..MergeRoundsMax /\ 1 \in 0..MergeRoundsMax
  BY RoundsAssumption
<1>2. <<>> \in Seq(QueueRow)
  OBVIOUS
<1> QED BY <1>1, <1>2 DEF Idle, Round

LEMMA RoundOnlyMoves ==
  ASSUME Inv, NEW d \in Device,
         Starts(d) \/ PushDone(d) \/ EndIteration(d) \/ RoundFails(d)
  PROVE  Books' /\ \E S, t : DeviceMoves(d, S, t)
<1>1. /\ replica[d] \in Replica /\ DeviceFits(replica[d], round[d], d, record, unapplied) /\ Books
      /\ round \in [Device -> Round] /\ round[d] \in Round
  BY InvParts
<1>2. ASSUME NEW t \in Round, t.at \in {"idle", "push"}
      PROVE  RoundFits(replica[d], t, record)
  BY <1>2 DEF RoundFits
<1>3. CASE Starts(d)
  <2>1. PICK t \in Round : t = [Idle EXCEPT !.at = "push", !.iteration = 1] /\ t.at = "push"
    BY IdleTyped
  <2>2. /\ round' = [round EXCEPT ![d] = t] /\ record' = record /\ unapplied' = unapplied /\ replica' = replica
        /\ enabled' = enabled /\ edits' = edits /\ failures' = failures
    BY <1>3, <2>1 DEF Starts
  <2>3. DeviceMoves(d, replica[d], t)
    BY <1>2, <2>1, <2>2, RoundMoves
  <2> QED BY <1>1, <2>2, <2>3 DEF Books
<1>4. CASE PushDone(d)
  <2>1. PICK t \in Round : t = [round[d] EXCEPT !.at = "pull"] /\ t.at = "pull"
    BY <1>1, RoundFieldsTyped
  <2>2. /\ round' = [round EXCEPT ![d] = t] /\ record' = record /\ unapplied' = unapplied /\ replica' = replica
        /\ enabled' = enabled /\ edits' = edits /\ failures' = failures
        /\ Pending(replica[d]) = {}
    BY <1>1, <1>4, <2>1 DEF PushDone
  <2>3. RoundFits(replica[d], t, record)
    BY <2>1, <2>2 DEF RoundFits, NoneStored
  <2>4. DeviceMoves(d, replica[d], t)
    BY <2>2, <2>3, RoundMoves
  <2> QED BY <1>1, <2>2, <2>4 DEF Books
<1>5. CASE EndIteration(d)
  <2> DEFINE next == [Idle EXCEPT !.at = "push", !.iteration = round[d].iteration + 1]
  <2>1. PICK t : t = IF round[d].merged /\ round[d].iteration < MergeRoundsMax THEN next ELSE Idle
    OBVIOUS
  <2>2. t \in Round /\ t.at \in {"idle", "push"}
    <3>1. CASE round[d].merged /\ round[d].iteration < MergeRoundsMax
      <4>1. round[d].iteration + 1 \in 0..MergeRoundsMax
        BY <1>1, <3>1, RoundsAssumption DEF Round
      <4>2. next \in Round /\ next.at = "push"
        <5>1. PICK n \in 0..MergeRoundsMax : n = round[d].iteration + 1
          BY <4>1
        <5>2. [Idle EXCEPT !.at = "push", !.iteration = n] \in Round
          <6>1. <<>> \in Seq(QueueRow)
            OBVIOUS
          <6> QED BY <6>1 DEF Idle, Round
        <5>3. [Idle EXCEPT !.at = "push", !.iteration = n].at = "push"
          BY DEF Idle
        <5> QED BY <5>1, <5>2, <5>3
      <4> QED BY <2>1, <3>1, <4>2
    <3>2. CASE ~(round[d].merged /\ round[d].iteration < MergeRoundsMax)
      BY <2>1, <3>2, IdleTyped
    <3> QED BY <3>1, <3>2
  <2>3. /\ round' = [round EXCEPT ![d] = t] /\ record' = record /\ unapplied' = unapplied /\ replica' = replica
        /\ enabled' = enabled /\ edits' = edits /\ failures' = failures
    BY <1>1, <1>5, <2>1 DEF EndIteration
  <2>4. DeviceMoves(d, replica[d], t)
    BY <1>2, <2>2, <2>3, RoundMoves
  <2> QED BY <1>1, <2>3, <2>4 DEF Books
<1>6. CASE RoundFails(d)
  <2>1. PICK t \in Round : t = Idle /\ t.at = "idle"
    BY IdleTyped
  <2>2. /\ round' = [round EXCEPT ![d] = t] /\ record' = record /\ unapplied' = unapplied /\ replica' = replica
        /\ enabled' = enabled /\ edits' = edits
        /\ failures' = failures + 1 /\ failures < MaxFailures
    BY <1>6, <2>1 DEF RoundFails
  <2>3. failures' \in 0..MaxFailures
    BY <1>1, <2>2, RoundsAssumption DEF Books
  <2>4. DeviceMoves(d, replica[d], t)
    BY <1>2, <2>1, <2>2, RoundMoves
  <2> QED BY <1>1, <2>2, <2>3, <2>4 DEF Books
<1> QED BY <1>3, <1>4, <1>5, <1>6

\* The reply of the server: the round goes back to reading a batch.
LEMMA AcknowledgeMoves ==
  ASSUME Inv, NEW d \in Device, Acknowledge(d)
  PROVE  Books' /\ \E S, t : DeviceMoves(d, S, t)
<1> DEFINE R == replica[d]
           u == round[d]
           rows == record
<1>1. /\ R \in Replica /\ u \in Round /\ DeviceFits(R, u, d, rows, unapplied) /\ Books
      /\ round \in [Device -> Round] /\ replica \in [Device -> Replica]
      /\ rows \in SUBSET ServerRow /\ u.at = "reply"
      /\ record' = record /\ unapplied' = unapplied /\ enabled' = enabled /\ edits' = edits /\ failures' = failures
  BY InvParts DEF Acknowledge
<1>2. PICK t \in Round : t = [u EXCEPT !.at = "push", !.batch = <<>>, !.heads = {}] /\ t.at = "push"
  <2>1. <<>> \in Seq(QueueRow)
    OBVIOUS
  <2>2. [u EXCEPT !.at = "push", !.batch = <<>>, !.heads = {}] \in Round
    BY <1>1, <2>1 DEF Round
  <2>3. [u EXCEPT !.at = "push", !.batch = <<>>, !.heads = {}].at = "push"
    BY <1>1 DEF Round
  <2> QED BY <2>2, <2>3
<1>3. round' = [round EXCEPT ![d] = t]
  BY <1>1, <1>2 DEF Acknowledge
<1>4. PICK S : S = IF u.heads = {} THEN AcknowledgeAll(R, u.batch) ELSE MarkConflicted(R, u.heads)
  OBVIOUS
<1>5. replica' = [replica EXCEPT ![d] = S]
  BY <1>1, <1>4 DEF Acknowledge
<1>6. /\ Sound(R, d, rows) /\ StoredAreAhead(R, rows) /\ PassedAccounted(R, d, rows, R.cursor, unapplied)
      /\ RoundFits(R, u, rows) /\ R.cursor <= MaxSeq(rows)
  BY <1>1 DEF DeviceFits
<1>7. DOMAIN u.batch = 1..Len(u.batch) /\ u.batch \in Seq(QueueRow) /\ u.heads \in SUBSET Entities
  BY <1>1 DEF Round
<1>8. Books'
  BY <1>1 DEF Books
<1>9. Acknowledges(R, S, d, rows)
  <2>1. CASE u.heads = {}
    <3>1. IsFront(R, u.batch) /\ \A i \in DOMAIN u.batch : IsStored(rows, u.batch[i].id)
      BY <1>1, <1>6, <2>1 DEF RoundFits
    <3>2. S = AcknowledgeAll(R, u.batch)
      BY <1>4, <2>1
    <3> QED BY <1>1, <1>6, <1>7, <3>1, <3>2, AcknowledgeAllAcknowledges
  <2>2. CASE u.heads # {}
    <3>1. S = MarkConflicted(R, u.heads)
      BY <1>4, <2>2
    <3>2. /\ Sound(S, d, rows) /\ Pending(S) \subseteq Pending(R)
          /\ S.shadow = R.shadow /\ S.cursor = R.cursor
          /\ \A e \in Entities : HeldBack(R, e) => HeldBack(S, e)
      BY <1>6, <3>1, MarkConflictedKeeps
    <3>3. StoredAreAhead(S, rows)
      BY <1>6, <3>2 DEF StoredAreAhead
    <3>4. \A e \in Entities : R.shadow[e].version \in Nat
      BY <1>1 DEF Replica
    <3> QED BY <3>2, <3>3, <3>4 DEF Acknowledges
  <2> QED BY <2>1, <2>2
<1>10. /\ Sound(S, d, rows) /\ StoredAreAhead(S, rows) /\ S.cursor = R.cursor
       /\ \A e \in Entities : S.shadow[e].version >= R.shadow[e].version
       /\ \A e \in Entities : HeldBack(R, e) => HeldBack(S, e)
  BY <1>9 DEF Acknowledges
<1>11. PassedAccounted(S, d, rows, S.cursor, unapplied)
  <2>1. SUFFICES ASSUME NEW r \in rows, Foreign(d, r), r.seq <= R.cursor,
                        <<d, r.seq>> \notin unapplied
                 PROVE  Accounted(S, r)
    BY <1>10 DEF PassedAccounted
  <2>2. Accounted(R, r) /\ r.entity \in Entities /\ r.version \in Nat
    BY <1>1, <1>6, <2>1 DEF PassedAccounted, ServerRow
  <2>3. S.shadow[r.entity].version \in Nat /\ R.shadow[r.entity].version \in Nat
    BY <1>1, <1>10, <2>2 DEF Sound, Replica
  <2> QED BY <1>10, <2>2, <2>3 DEF Accounted
<1>12. RoundFits(S, t, rows)
  BY <1>2 DEF RoundFits
<1>13. DeviceFits(S, t, d, rows, unapplied)
  BY <1>6, <1>10, <1>11, <1>12 DEF DeviceFits
<1>14. DeviceMoves(d, S, t)
  <2>1. unapplied \subseteq Device \X (Nat \ {0})
    BY InvParts
  <2> QED BY <1>1, <1>2, <1>3, <1>5, <1>10, <1>13, <2>1 DEF DeviceMoves
<1> QED BY <1>8, <1>14

\* The application restarts.
LEMMA RestartMoves ==
  ASSUME Inv, NEW d \in Device, Restart(d)
  PROVE  Books' /\ \E S, t : DeviceMoves(d, S, t)
<1>1. /\ DeviceFits(replica[d], round[d], d, record, unapplied) /\ Books /\ replica[d] \in Replica
      /\ record \in SUBSET ServerRow
  BY InvParts
<1>2. PICK t \in Round : t = Idle /\ t.at = "idle"
  BY IdleTyped
<1>3. /\ round' = [round EXCEPT ![d] = t] /\ record' = record /\ unapplied' = unapplied
      /\ enabled' = enabled /\ edits' = edits
      /\ failures' = failures + 1 /\ failures < MaxFailures
  BY <1>2 DEF Restart
<1>4. PICK now \in Now :
        replica' = [replica EXCEPT ![d] = IF enabled[d] THEN Reconcile(replica[d], d, now) ELSE replica[d]]
  BY DEF Restart
<1>5. PICK S : S = IF enabled[d] THEN Reconcile(replica[d], d, now) ELSE replica[d]
  OBVIOUS
<1>6. replica' = [replica EXCEPT ![d] = S]
  BY <1>4, <1>5
<1>7. DeviceFits(S, round[d], d, record, unapplied) /\ S.cursor = replica[d].cursor /\ S.shadow = replica[d].shadow
  <2>1. CASE enabled[d]
    <3>1. PICK new : QueueGrows(replica[d], S, d, new)
      BY <1>1, <1>5, <2>1, ReconcileGrows DEF DeviceFits
    <3> QED BY <1>1, <3>1, GrownFits DEF QueueGrows
  <2>2. CASE ~enabled[d]
    BY <1>1, <1>5, <2>2
  <2> QED BY <2>1, <2>2
<1>8. DeviceFits(S, t, d, record, unapplied)
  <2>1. RoundFits(S, t, record)
    BY <1>2 DEF RoundFits
  <2> QED BY <1>7, <2>1, OtherRoundFits
<1>9. DeviceMoves(d, S, t)
  BY <1>3, <1>6, <1>7, <1>8, ReplicaMoves
<1>10. failures' \in 0..MaxFailures
  BY <1>1, <1>3, RoundsAssumption DEF Books
<1> QED BY <1>1, <1>3, <1>9, <1>10 DEF Books

\* One page of the feed.
LEMMA PullMoves ==
  ASSUME Inv, NEW d \in Device, PullPage(d)
  PROVE  Books' /\ \E S, t : DeviceMoves(d, S, t)
<1> DEFINE R == replica[d]
           u == round[d]
           page == Page(record, R.cursor, PullPageLimit)
<1>1. /\ R \in Replica /\ u \in Round /\ DeviceFits(R, u, d, record, unapplied) /\ Books
      /\ round \in [Device -> Round] /\ replica \in [Device -> Replica]
      /\ record \in SUBSET ServerRow /\ LogRows(record) /\ u.at = "pull" /\ R.cursor \in Nat
      /\ unapplied \subseteq Device \X (Nat \ {0})
      /\ record' = record /\ enabled' = enabled /\ edits' = edits /\ failures' = failures
  BY InvParts DEF PullPage
<1>2. Books'
  BY <1>1 DEF Books
<1>3. NoneStored(R, record)
  BY <1>1 DEF DeviceFits, RoundFits
<1>4. CASE page = {}
  <2>1. PICK t \in Round : t = [u EXCEPT !.at = "end"] /\ t.at = "end"
    BY <1>1, RoundFieldsTyped
  <2>2. round' = [round EXCEPT ![d] = t] /\ replica' = replica /\ unapplied' = unapplied
    BY <1>1, <1>4, <2>1 DEF PullPage
  <2>3. RoundFits(R, t, record)
    BY <1>3, <2>1 DEF RoundFits
  <2>4. DeviceMoves(d, R, t)
    BY <1>1, <2>2, <2>3, RoundMoves
  <2> QED BY <1>2, <2>4
<1>5. CASE page # {}
  <2>1. PICK more : more = HasMore(record, R.cursor, PullPageLimit)
    OBVIOUS
  <2>2. PICK now \in Now, failing \in SUBSET {r \in page : Foreign(d, r)} :
          LET applied == ApplyPage(R, d, page, failing, now)
          IN  /\ unapplied' = unapplied \cup {<<d, r.seq>> : r \in failing}
              /\ applied.R.copies <= MaxCopies
              /\ replica' = [replica EXCEPT ![d] = applied.R]
              /\ round' = [round EXCEPT ![d].at = IF more THEN "pull" ELSE "end",
                                        ![d].merged = @ \/ applied.merged]
    BY <1>5, <2>1 DEF PullPage
  <2> DEFINE V == unapplied \cup {<<d, r.seq>> : r \in failing}
  <2>a. /\ unapplied' = V /\ unapplied \subseteq V
        /\ \A r \in failing : <<d, r.seq>> \in V
    BY <2>2
  <2>b. V \subseteq Device \X (Nat \ {0})
    <3>1. \A r \in failing : r \in record
      BY DEF Page, Since
    <3>2. \A r \in failing : <<d, r.seq>> \in Device \X (Nat \ {0})
      BY <1>1, <3>1 DEF ServerRow
    <3> QED BY <1>1, <3>2
  <2> HIDE DEF V
  <2>3. PICK P : P = ApplyPage(R, d, page, failing, now)
    OBVIOUS
  <2>4. PICK at \in {"pull", "end"} : at = IF more THEN "pull" ELSE "end"
    OBVIOUS
  <2>5. PICK S : S = P.R
    OBVIOUS
  <2>6. S.copies <= MaxCopies /\ replica' = [replica EXCEPT ![d] = S]
    BY <2>2, <2>3, <2>5
  <2> DEFINE t(merged) == [u EXCEPT !.at = at, !.merged = merged]
  <2>7. t(u.merged \/ P.merged).at = at
    BY <1>1 DEF Round
  <2>8. /\ DeviceFits(S, t(u.merged \/ P.merged), d, record, V)
        /\ P.merged \in BOOLEAN
        /\ S.cursor > R.cursor /\ S.cursor <= MaxSeq(record)
        /\ \A e \in Entities : S.shadow[e].version >= R.shadow[e].version
    <3>1. PICK w : w = t(u.merged \/ P.merged)
      OBVIOUS
    <3>2. w.at \in {"pull", "end"}
      BY <2>4, <2>7, <3>1
    <3>3. ApplyPage(R, d, page, failing, now).R.copies <= MaxCopies
      BY <2>3, <2>5, <2>6
    <3>4. /\ DeviceFits(ApplyPage(R, d, page, failing, now).R, w, d, record, V)
          /\ ApplyPage(R, d, page, failing, now).merged \in BOOLEAN
          /\ ApplyPage(R, d, page, failing, now).R.cursor > R.cursor
          /\ ApplyPage(R, d, page, failing, now).R.cursor <= MaxSeq(record)
          /\ \A e \in Entities : ApplyPage(R, d, page, failing, now).R.shadow[e].version >= R.shadow[e].version
      BY <1>1, <1>5, <2>a, <3>2, <3>3, PullFits
    <3> HIDE DEF page, t
    <3> QED BY <2>3, <2>5, <3>1, <3>4
  <2>9. PICK merged \in BOOLEAN : merged = (u.merged \/ P.merged)
    OBVIOUS
  <2>10. PICK w \in Round : w = t(merged)
    BY <1>1, <2>4 DEF Round
  <2>11. round' = [round EXCEPT ![d] = w]
    <3>1. round' = [round EXCEPT ![d].at = at, ![d].merged = u.merged \/ P.merged]
      BY <2>2, <2>3, <2>4
    <3> QED BY <1>1, <2>9, <2>10, <3>1
  <2>12. DeviceFits(S, w, d, record, V)
    BY <2>8, <2>9, <2>10
  <2>13. S.cursor \in Nat /\ MaxSeq(record) \in Nat
    BY <1>1, <2>12, MaxSeqIsLargest DEF DeviceFits, Sound, Replica, LogRows
  <2>14. S.cursor \in (R.cursor + 1)..MaxSeq(record)
    BY <1>1, <2>8, <2>13
  <2>15. DeviceMoves(d, S, w)
    BY <1>1, <2>a, <2>b, <2>6, <2>8, <2>11, <2>12, <2>14 DEF DeviceMoves
  <2> QED BY <1>2, <2>15
<1> QED BY <1>4, <1>5

\* A batch reaches the server: its device waits for the reply, the others see
\* at most more of the log.
LEMMA PushInv ==
  ASSUME Inv, NEW d \in Device, Push(d)
  PROVE  /\ Inv'
         /\ replica' = replica
         /\ \/ record' = record
            \/ /\ ConflictingEntities(record, Posted(d, FirstPending(replica[d]))) = {}
               /\ record' = record \cup Inserted(record, Posted(d, FirstPending(replica[d])))
<1> DEFINE R == replica[d]
           queued == FirstPending(R)
           batch == Posted(d, queued)
           heads == ConflictingEntities(record, batch)
           w == [round[d] EXCEPT !.at = "reply", !.batch = queued, !.heads = heads]
<1>1. /\ R \in Replica /\ round[d] \in Round /\ DeviceFits(R, round[d], d, record, unapplied) /\ Books
      /\ round \in [Device -> Round] /\ replica \in [Device -> Replica]
      /\ record \in SUBSET ServerRow /\ LogRows(record) /\ Sound(R, d, record)
  BY InvParts
<1>2. queued \in Seq(QueueRow) /\ IsFront(R, queued)
  BY <1>1, FirstPendingIsFront
<1>3. /\ record' = IF heads = {} THEN record \cup Inserted(record, batch) ELSE record
      /\ round' = [round EXCEPT ![d] = w]
      /\ replica' = replica /\ enabled' = enabled /\ edits' = edits /\ failures' = failures
      /\ unapplied' = unapplied /\ unapplied \subseteq Device \X (Nat \ {0})
  BY InvParts DEF Push, NextBatch, FirstPending, Posted
<1> HIDE DEF queued
<1>4. heads \in SUBSET Entities
  <2>1. \A i \in DOMAIN queued : queued[i] \in QueueRow
    BY <1>2
  <2>2. \A i \in DOMAIN queued : batch[i].entity = queued[i].entity
    BY <1>2, PostedIsBatch
  <2>3. DOMAIN batch = DOMAIN queued
    BY <1>2, PostedIsBatch
  <2> HIDE DEF batch
  <2>4. \A i \in FreshAt(record, batch) : batch[i].entity \in Entities
    BY <2>1, <2>2, <2>3 DEF FreshAt, QueueRow
  <2> QED BY <2>4 DEF ConflictingEntities
<1> HIDE DEF batch, heads
<1>5. w \in Round
  BY <1>1, <1>2, <1>4 DEF Round
<1>6. w.at = "reply" /\ w.batch = queued /\ w.heads = heads
  BY <1>1 DEF Round
<1> HIDE DEF w
<1>7. Books' /\ round' \in [Device -> Round]
  BY <1>1, <1>3, <1>5 DEF Books
<1>8. round'[d] = w /\ \A c \in Device : c # d => round'[c] = round[c]
  BY <1>1, <1>3
<1>9. CASE heads = {}
  <2>1. PICK more : more = record \cup Inserted(record, batch)
    OBVIOUS
  <2>2. record' = more
    BY <1>3, <1>9, <2>1
  <2>3. \A i \in DOMAIN queued : queued[i].id[1] = d
    BY <1>1, <1>2 DEF IsFront, Pending, Sound, IdsCounted
  <2>4. Grows(record, more, d, queued)
    BY <1>1, <1>2, <1>9, <2>1, <2>3, PushGrows DEF IsFront, batch, heads
  <2>5. more \in SUBSET ServerRow /\ LogRows(more)
    BY <2>4 DEF Grows
  <2>6. ASSUME NEW c \in Device PROVE DeviceFits(replica[c], round'[c], c, more, unapplied)
    <3>1. CASE c = d
      <4>1. DeviceFits(R, w, d, more, unapplied)
        BY <1>1, <1>2, <1>6, <2>4, PushedFits
      <4> QED BY <1>8, <3>1, <4>1
    <3>2. CASE c # d
      <4>1. DeviceFits(replica[c], round[c], c, record, unapplied)
        BY InvParts
      <4>2. DeviceFits(replica[c], round[c], c, more, unapplied)
        BY <2>4, <3>2, <4>1, OtherDeviceFits
      <4> QED BY <1>8, <3>2, <4>2
    <3> QED BY <3>1, <3>2
  <2>7. TypeOK'
    BY <1>1, <1>3, <1>7, <2>2, <2>5 DEF TypeOK, Books
  <2>8. Inv'
    BY <1>3, <2>2, <2>5, <2>6, <2>7 DEF Inv
  <2> QED BY <1>3, <1>9, <2>8 DEF heads, batch, queued
<1>10. CASE heads # {}
  <2>1. record' = record
    BY <1>3, <1>10
  <2>2. RoundFits(R, w, record)
    BY <1>2, <1>6, <1>10 DEF RoundFits
  <2>3. DeviceMoves(d, R, w)
    BY <1>3, <1>5, <2>1, <2>2, RoundMoves
  <2>4. Inv'
    BY <1>7, <2>3, MovesInv
  <2> QED BY <1>3, <2>1, <2>4
<1> QED BY <1>9, <1>10

\* Every step but a push is one device's move.
LEMMA StepMoves ==
  ASSUME Inv, NEW d \in Device,
         Local(d) \/ Starts(d) \/ PushDone(d) \/ Acknowledge(d) \/ PullPage(d)
           \/ EndIteration(d) \/ RoundFails(d) \/ Restart(d)
  PROVE  Books' /\ \E S, t : DeviceMoves(d, S, t)
<1>1. CASE Local(d)
  <2>1. Books' /\ \E S : DeviceMoves(d, S, round[d])
    BY <1>1, LocalMoves
  <2> QED BY <2>1
<1>2. CASE Starts(d) \/ PushDone(d) \/ EndIteration(d) \/ RoundFails(d)
  BY <1>2, RoundOnlyMoves
<1>3. CASE Acknowledge(d)
  BY <1>3, AcknowledgeMoves
<1>4. CASE PullPage(d)
  BY <1>4, PullMoves
<1>5. CASE Restart(d)
  BY <1>5, RestartMoves
<1> QED BY <1>1, <1>2, <1>3, <1>4, <1>5

-----------------------------------------------------------------------------
\* The invariant holds at first, and every step keeps it.

LEMMA InitInv == Init => Inv
<1> SUFFICES ASSUME Init PROVE Inv
  OBVIOUS
<1> DEFINE author == CHOOSE d \in Device : TRUE
           first == [id |-> <<author, 0>>, entity |-> Snippet, version |-> 1,
                     doc |-> FirstDoc, at |-> 0, state |-> "applied"]
           r1 == WithSeq(Wire(author, first), 1)
<1>1. author \in Device /\ Device # {}
  BY RoundsAssumption
<1>2. MaxEdits \in Nat /\ MaxEditsEach \in Nat /\ MaxFailures \in Nat /\ MaxCopies \in Nat
  BY RoundsAssumption
<1>3. FirstDoc \in Doc /\ Snippet \in Entities
  BY <1>2, EntitiesFinite DEF FirstDoc, Doc
<1> HIDE DEF author
<1>4. PICK q \in QueueRow : /\ q = first
                            /\ q.id = <<author, 0>> /\ q.entity = Snippet /\ q.version = 1
                            /\ q.doc = FirstDoc /\ q.state = "applied"
  <2> HIDE DEF Snippet
  <2>1. first \in QueueRow
    BY <1>1, <1>3 DEF QueueRow
  <2>2. /\ first.id = <<author, 0>> /\ first.entity = Snippet /\ first.version = 1
        /\ first.doc = FirstDoc /\ first.state = "applied"
    OBVIOUS
  <2> QED BY <2>1, <2>2
<1>5. PICK r \in ServerRow : /\ r = r1
                             /\ r.id = <<author, 0>> /\ r.entity = Snippet /\ r.version = 1
                             /\ r.doc = FirstDoc /\ r.device = author /\ r.seq = 1
  <2>1. PICK n \in Nat \ {0} : n = 1
    OBVIOUS
  <2>2. PICK r : r = WithSeq(Wire(author, q), n)
    OBVIOUS
  <2>3. /\ r \in ServerRow /\ r.id = q.id /\ r.entity = q.entity /\ r.version = q.version
        /\ r.doc = q.doc /\ r.device = author
    BY <1>1, <2>2, WireIsRow
  <2>4. r.seq = n
    BY <2>2 DEF WithSeq
  <2> QED BY <1>4, <2>1, <2>2, <2>3, <2>4
<1>6. record = {r}
  BY <1>5 DEF Init, author
<1> HIDE DEF r1
<1>7. Rows(record) /\ record \in SUBSET ServerRow
  <2>1. IsFiniteSet({r})
    BY FS_Singleton
  <2> QED BY <1>5, <1>6, <2>1 DEF Rows
<1>8. LogRows(record)
  BY <1>5, <1>6, <1>7 DEF LogRows
<1>9. MaxSeq(record) = 1
  BY <1>5, <1>6, <1>7, MaxSeqIsLargest
<1> DEFINE rows == [e \in Entities |-> IF e = Snippet THEN FirstDoc ELSE NoRow]
           shadow == [e \in Entities |-> IF e = Snippet THEN [version |-> 1, doc |-> FirstDoc]
                                                        ELSE [version |-> 0, doc |-> NoDoc]]
           history(d) == [e \in Entities |-> IF e = Snippet /\ d = author THEN {0} ELSE {}]
           queue(d) == IF d = author THEN {q} ELSE {}
           R(d) == [row |-> rows, queue |-> queue(d), shadow |-> shadow, cursor |-> 1,
                    history |-> history(d), minted |-> 0, copies |-> 0]
<1>10. replica = [d \in Device |-> R(d)]
  BY <1>4 DEF Init, author
<1>11. rows \in [Entities -> Doc \cup {NoRow}]
  BY <1>3
<1>12. shadow \in [Entities -> [version : Nat, doc : Doc \cup {NoDoc}]]
  BY <1>3
<1>13. \A d \in Device : history(d) \in [Entities -> SUBSET (0..MaxEdits)]
  BY <1>2
<1>14. \A e \in Entities : shadow[e].version > 0 =>
         e = Snippet /\ shadow[e].version = 1 /\ shadow[e].doc = FirstDoc
  OBVIOUS
<1>15. \A d \in Device : queue(d) \in SUBSET {q} /\ (d # author => queue(d) = {}) /\ IsFiniteSet(queue(d))
  BY FS_EmptySet, FS_Singleton
<1> HIDE DEF rows, shadow, history, queue
<1>16. \A d \in Device : R(d) \in Replica
  BY <1>2, <1>11, <1>12, <1>13, <1>15 DEF Replica
<1>17. round = [d \in Device |-> Idle] /\ Idle \in Round /\ Idle.at = "idle"
  BY IdleTyped DEF Init
<1>18. TypeOK
  <2>1. replica \in [Device -> Replica] /\ round \in [Device -> Round]
    BY <1>10, <1>16, <1>17
  <2>2. /\ enabled \in [Device -> BOOLEAN] /\ failures \in 0..MaxFailures
        /\ edits = [d \in Device |-> <<>>]
    BY <1>2 DEF Init
  <2>3. <<>> \in Seq(Operations) /\ Len(<<>>) = 0
    OBVIOUS
  <2>4. edits \in [Device -> Seq(Operations)] /\ \A d \in Device : Len(edits[d]) <= MaxEditsEach
    BY <1>2, <2>2, <2>3
  <2>5. unapplied \subseteq Device \X (Nat \ {0})
    BY DEF Init
  <2> QED BY <1>7, <2>1, <2>2, <2>4, <2>5 DEF TypeOK
<1>19. ASSUME NEW d \in Device PROVE DeviceFits(R(d), Idle, d, record, unapplied)
  <2>1. PICK S : S = R(d)
    OBVIOUS
  <2>2. /\ S \in Replica /\ S.queue = queue(d) /\ S.shadow = shadow
        /\ S.cursor = 1 /\ S.minted = 0
    BY <1>16, <2>1
  <2>3. \A p \in S.queue : p = q /\ d = author
    BY <1>15, <2>2
  <2>4. IdsCounted(S, d, record)
    BY <1>4, <1>5, <1>6, <2>2, <2>3 DEF IdsCounted
  <2>5. QueueOrdered(S)
    BY <1>4, <1>15, <2>2, <2>3 DEF QueueOrdered
  <2>6. SentAsQueued(S, record)
    BY <1>4, <1>5, <1>6, <2>3 DEF SentAsQueued
  <2>7. ShadowAgreed(S, record)
    <3>1. SUFFICES ASSUME NEW e \in Entities, S.shadow[e].version > 0
                   PROVE  Agreed(record, e, S.shadow[e].version, S.shadow[e].doc)
      BY DEF ShadowAgreed
    <3>2. e = Snippet /\ S.shadow[e].version = 1 /\ S.shadow[e].doc = FirstDoc
      BY <1>14, <2>2, <3>1
    <3>3. FirstDoc # Tomb
      BY <1>3, SentinelsAssumption
    <3> QED BY <1>5, <1>6, <3>2, <3>3 DEF Agreed
  <2>8. Pending(S) = {}
    BY <1>4, <2>3 DEF Pending
  <2>9. StoredAreAhead(S, record) /\ RoundFits(S, Idle, record)
    BY <1>17, <2>8 DEF StoredAreAhead, RoundFits
  <2>10. PassedAccounted(S, d, record, S.cursor, unapplied)
    <3>1. S.shadow[Snippet].version = 1
      BY <1>3, <2>2 DEF shadow
    <3> QED BY <1>5, <1>6, <3>1 DEF PassedAccounted, Accounted
  <2> QED BY <1>9, <2>1, <2>2, <2>4, <2>5, <2>6, <2>7, <2>9, <2>10 DEF DeviceFits, Sound
<1> HIDE DEF R
<1>20. \A d \in Device : replica[d] = R(d) /\ round[d] = Idle
  BY <1>10, <1>17
<1> QED BY <1>8, <1>18, <1>19, <1>20 DEF Inv

LEMMA NextInv == Inv /\ [Next]_vars => Inv'
<1> SUFFICES ASSUME Inv, [Next]_vars PROVE Inv'
  OBVIOUS
<1>1. ASSUME NEW d \in Device,
             Local(d) \/ Starts(d) \/ PushDone(d) \/ Acknowledge(d) \/ PullPage(d)
               \/ EndIteration(d) \/ RoundFails(d) \/ Restart(d)
      PROVE  Inv'
  <2>1. Books' /\ \E S, t : DeviceMoves(d, S, t)
    BY <1>1, StepMoves
  <2> QED BY <2>1, MovesInv
<1>2. ASSUME NEW d \in Device, Push(d) PROVE Inv'
  BY <1>2, PushInv
<1>3. CASE UNCHANGED vars
  BY <1>3 DEF vars, Inv, TypeOK, DeviceFits
<1> QED BY <1>1, <1>2, <1>3 DEF Next, RoundStep

-----------------------------------------------------------------------------
\* What the invariant says of the parts that the runs check.

LEMMA InvShadow == Inv => ShadowTracksServer
<1> SUFFICES ASSUME Inv PROVE ShadowTracksServer
  OBVIOUS
<1>1. \A d \in Device : /\ ShadowAgreed(replica[d], record)
                        /\ PassedAccounted(replica[d], d, record, replica[d].cursor, unapplied)
                        /\ replica[d].cursor \in Nat
  BY InvParts DEF DeviceFits, Sound
<1>2. ShadowIsServerRecord
  BY <1>1 DEF ShadowIsServerRecord, ShadowAgreed, Agreed, RowsOf
<1>3. NothingPassedUnapplied
  <2>1. SUFFICES ASSUME NEW d \in Device, NEW r \in record, Foreign(d, r), ~Ahead(d, r)
                 PROVE  Accounted(replica[d], r) \/ <<d, r.seq>> \in unapplied
    BY DEF NothingPassedUnapplied, Accounted
  <2>2. r.seq <= replica[d].cursor
    BY <1>1, <2>1, InvParts DEF Ahead, Rows
  <2> QED BY <1>1, <2>1, <2>2 DEF PassedAccounted
<1> QED BY <1>2, <1>3 DEF ShadowTracksServer

LEMMA InvQueue == Inv => QueueIntact
<1> SUFFICES ASSUME Inv PROVE QueueIntact
  OBVIOUS
<1>1. \A d \in Device : /\ DeviceFits(replica[d], round[d], d, record, unapplied)
                        /\ Sound(replica[d], d, record)
                        /\ replica[d] \in Replica /\ round[d] \in Round
  BY InvParts
<1>2. InFlightStillPending
  <2>1. SUFFICES ASSUME NEW d \in Device, round[d].at = "reply",
                        NEW q \in ToSet(round[d].batch)
                 PROVE  q \in Pending(replica[d])
    BY DEF InFlightStillPending
  <2>2. PICK i \in DOMAIN round[d].batch : q = round[d].batch[i]
    BY DEF ToSet
  <2> QED BY <1>1, <2>1, <2>2 DEF DeviceFits, RoundFits, IsFront
<1>3. QueueSlotsUnique
  <2>1. SUFFICES ASSUME NEW d \in Device, NEW p \in replica[d].queue, NEW q \in replica[d].queue,
                        p.entity = q.entity, p.version = q.version
                 PROVE  p = q
    BY DEF QueueSlotsUnique
  <2>2. QueueOrdered(replica[d]) /\ IdsCounted(replica[d], d, record)
    BY <1>1 DEF Sound
  <2>3. p \in QueueRow /\ q \in QueueRow
    BY <1>1 DEF Replica
  <2>4. p.version \in Nat /\ p.id[2] \in Nat /\ q.id[2] \in Nat
        /\ p.id = <<p.id[1], p.id[2]>> /\ q.id = <<q.id[1], q.id[2]>>
    BY <2>3 DEF QueueRow
  <2>5. p.id[2] = q.id[2]
    BY <2>1, <2>2, <2>4 DEF QueueOrdered
  <2>6. p.id = q.id
    BY <2>2, <2>4, <2>5 DEF IdsCounted
  <2> QED BY <2>2, <2>6 DEF QueueOrdered
<1>4. ReconcileSettles
  <2>1. SUFFICES ASSUME NEW d \in Device, NEW now \in Now
                 PROVE  Reconcile(Reconcile(replica[d], d, now), d, now)
                          = Reconcile(replica[d], d, now)
    BY DEF ReconcileSettles
  <2>2. PICK S : S = Reconcile(replica[d], d, now)
    OBVIOUS
  <2>3. Neglected(S) = {}
    BY <1>1, <2>2, ReconcileLeavesNone
  <2>4. \E new : QueueGrows(replica[d], S, d, new)
    BY <1>1, <2>2, ReconcileGrows
  <2>5. S \in Replica
    BY <2>4 DEF QueueGrows
  <2>6. Reconcile(S, d, now) = S
    BY <2>3, <2>5, ReconcileRests
  <2> QED BY <2>2, <2>6
<1> QED BY <1>2, <1>3, <1>4 DEF QueueIntact

-----------------------------------------------------------------------------
\* The refinement, step by step.

Cursors == [d \in Device |-> replica[d].cursor]

LEMMA NextOfEntityExtends ==
  ASSUME NEW l, NEW n, NextOfEntity(l, n)
  PROVE  Log!Extends(l, n)
<1>1. Log!Cardinality({m \in 1..(n - 1) : l[m].entity = l[n].entity})
        = Cardinality({m \in 1..(n - 1) : l[m].entity = l[n].entity})
  BY DEF Log!Cardinality, Cardinality
<1> QED BY <1>1 DEF NextOfEntity, Log!Extends

\* Any state of the devices and the server shows a log and its readers.
LEMMA InitImplements == Inv => Log!Init
<1> SUFFICES ASSUME Inv PROVE Log!Init
  OBVIOUS
<1> DEFINE log == LogOf(record)
<1>1. LogRows(record) /\ record \in SUBSET ServerRow
  BY InvParts
<1>2. /\ Len(log) = MaxSeq(record) /\ MaxSeq(record) \in Nat
      /\ DOMAIN log = 1..MaxSeq(record)
      /\ \A r \in record : log[r.seq] = EntryOf(r)
  BY <1>1, LogHasRows
<1> HIDE DEF log
<1>3. \A n \in 1..MaxSeq(record) : log[n] \in [id : Device \X Nat, entity : Entities, version : Nat]
  <2>1. ASSUME NEW n \in 1..MaxSeq(record)
        PROVE  log[n] \in [id : Device \X Nat, entity : Entities, version : Nat]
    <3>1. PICK r \in record : r.seq = n
      BY <1>1, EveryNumberTaken
    <3>2. log[n] = EntryOf(r) /\ r \in ServerRow
      BY <1>1, <1>2, <3>1
    <3> QED BY <3>2 DEF EntryOf, ServerRow
  <2> QED BY <2>1
<1>4. \A n \in 1..MaxSeq(record) : Log!Extends(log, n)
  BY <1>1, LogExtends, NextOfEntityExtends DEF log
<1>5. Cursors \in [Device -> 0..MaxSeq(record)]
  <2>1. \A d \in Device : replica[d].cursor \in Nat /\ replica[d].cursor <= MaxSeq(record)
    BY InvParts DEF DeviceFits
  <2> QED BY <1>2, <2>1 DEF Cursors
<1> QED BY <1>2, <1>3, <1>4, <1>5 DEF Log!Init, log, Cursors

\* A device's move follows the log, or does not show.
LEMMA MoveImplements ==
  ASSUME Inv, NEW d \in Device, NEW S, NEW t, DeviceMoves(d, S, t)
  PROVE  Log!Follow(d) \/ UNCHANGED <<LogOf(record), Cursors>>
<1>1. /\ record' = record /\ replica' = [replica EXCEPT ![d] = S]
      /\ replica \in [Device -> Replica] /\ LogRows(record)
  BY InvParts DEF DeviceMoves
<1>2. /\ Cursors' = [c \in Device |-> IF c = d THEN S.cursor ELSE replica[c].cursor]
      /\ LogOf(record)' = LogOf(record)
  BY <1>1 DEF Cursors
<1>3. CASE S.cursor = replica[d].cursor
  BY <1>2, <1>3 DEF Cursors
<1>4. CASE S.cursor \in (replica[d].cursor + 1)..MaxSeq(record)
  <2>1. Len(LogOf(record)) = MaxSeq(record)
    BY <1>1, LogHasRows
  <2>2. Cursors'[d] = S.cursor /\ Cursors[d] = replica[d].cursor
    BY <1>2 DEF Cursors
  <2>3. Cursors' = [Cursors EXCEPT ![d] = Cursors'[d]]
    BY <1>2, <2>2 DEF Cursors
  <2>4. Cursors'[d] \in (Cursors[d] + 1)..Len(LogOf(record))
    BY <1>4, <2>1, <2>2
  <2> QED BY <1>2, <2>3, <2>4 DEF Log!Follow, Cursors
<1> QED BY <1>3, <1>4 DEF DeviceMoves

\* An accepted batch appends its fresh records; a refused one does not show.
LEMMA PushImplements ==
  ASSUME Inv, NEW d \in Device, Push(d)
  PROVE  Log!Grow(LogOf(record)') \/ UNCHANGED <<LogOf(record), Cursors>>
<1> DEFINE batch == Posted(d, FirstPending(replica[d]))
<1>1. /\ Inv' /\ replica' = replica
      /\ \/ record' = record
         \/ /\ ConflictingEntities(record, batch) = {}
            /\ record' = record \cup Inserted(record, batch)
  BY PushInv
<1>2. LogRows(record) /\ LogRows(record') /\ Rows(record)
  BY <1>1 DEF Inv, LogRows
<1>3. Cursors' = Cursors
  BY <1>1 DEF Cursors
<1>4. CASE record' = record
  BY <1>3, <1>4
<1>5. CASE record' # record
  <2>1. /\ IsBatch(batch) /\ Sound(replica[d], d, record)
        /\ FirstPending(replica[d]) \in Seq(QueueRow) /\ IsFront(replica[d], FirstPending(replica[d]))
    BY InvParts, FirstPendingIsFront, PostedIsBatch
  <2>2. Grows(record, record', d, FirstPending(replica[d]))
    <3>1. \A i \in DOMAIN FirstPending(replica[d]) : FirstPending(replica[d])[i].id[1] = d
      BY <2>1 DEF IsFront, Pending, Sound, IdsCounted
    <3>2. PICK queued \in Seq(QueueRow) : queued = FirstPending(replica[d])
      BY <2>1
    <3>3. /\ record' = record \cup Inserted(record, Posted(d, queued))
          /\ ConflictingEntities(record, Posted(d, queued)) = {}
      BY <1>1, <1>5, <3>2
    <3>4. \A i \in DOMAIN queued : queued[i].id[1] = d
      BY <3>1, <3>2
    <3>5. \A i, j \in DOMAIN queued : queued[i].id = queued[j].id => i = j
      BY <2>1, <3>2 DEF IsFront
    <3>6. Grows(record, record \cup Inserted(record, Posted(d, queued)), d, queued)
      BY <1>2, <3>3, <3>4, <3>5, InvParts, PushGrows
    <3> QED BY <3>2, <3>3, <3>6
  <2>3. record \subseteq record' /\ \A r \in record' \ record : r.seq > MaxSeq(record)
    BY <2>2 DEF Grows
  <2>4. Continues(LogOf(record'), LogOf(record))
    BY <1>2, <1>5, <2>3, MoreRowsGrowLog
  <2>5. /\ Len(LogOf(record')) > Len(LogOf(record))
        /\ \A n \in 1..Len(LogOf(record)) : LogOf(record)[n] = LogOf(record')[n]
        /\ \A n \in (Len(LogOf(record)) + 1)..Len(LogOf(record')) : NextOfEntity(LogOf(record'), n)
    BY <2>4 DEF Continues
  <2>6. Len(LogOf(record)) \in Nat /\ Len(LogOf(record')) \in Nat
    BY <1>2, LogHasRows
  <2>7. Log!IsPrefixOf(LogOf(record), LogOf(record'))
    BY <2>5, <2>6 DEF Log!IsPrefixOf
  <2>8. \A n \in (Len(LogOf(record)) + 1)..Len(LogOf(record')) : Log!Extends(LogOf(record'), n)
    BY <2>5, NextOfEntityExtends
  <2> QED BY <1>3, <2>5, <2>7, <2>8 DEF Log!Grow, Cursors
<1> QED BY <1>4, <1>5

-----------------------------------------------------------------------------
\* The theorems.

\* Every step of every device, sync server included, keeps the table, the
\* sync state, the rounds and the bookkeeping of local operations typed.
THEOREM RoundsTyped == Spec => []TypeOK
<1>1. Inv => TypeOK
  BY DEF Inv
<1> QED BY InitInv, NextInv, <1>1, PTL DEF Spec

\* The shadow of a device is a state the server stored, and its watermark has
\* passed no foreign record that was not applied, merged, skipped because its
\* application failed, or held back by a parked tombstone: mark_applied,
\* shadow_put and advance_watermark never claim what never was, for any number
\* of devices, lost replies, failed applications and restarts.
THEOREM RoundsTrackServer == Spec => []ShadowTracksServer
<1> QED BY InitInv, NextInv, InvShadow, PTL DEF Spec

\* A batch on the wire stays pending whatever is written meanwhile, a write
\* never meets a taken (entity, version) slot of sync_record, and the catch-up
\* pass of a restart is done after one pass.
THEOREM RoundsKeepQueue == Spec => []QueueIntact
<1> QED BY InitInv, NextInv, InvQueue, PTL DEF Spec

\* shadow_put never takes an entity back to an older state of the server, in no
\* order of acknowledgements, pulls, merges and retries.
THEOREM RoundsShadowAdvances == Spec => ShadowAdvances
<1> DEFINE Forward == \A d \in Device : \A e \in Entities :
                        replica'[d].shadow[e].version >= replica[d].shadow[e].version
<1>1. Inv /\ [Next]_vars => [Forward]_vars
  <2>1. SUFFICES ASSUME Inv, Next PROVE Forward
    BY DEF vars
  <2>2. /\ \A d \in Device : \A e \in Entities : replica[d].shadow[e].version \in Nat
        /\ replica \in [Device -> Replica]
    BY <2>1, InvParts
  <2>3. ASSUME NEW d \in Device, NEW S, NEW t, DeviceMoves(d, S, t) PROVE Forward
    <3>1. /\ replica' = [replica EXCEPT ![d] = S]
          /\ \A e \in Entities : S.shadow[e].version >= replica[d].shadow[e].version
      BY <2>3 DEF DeviceMoves
    <3>2. ASSUME NEW c \in Device, NEW e \in Entities
          PROVE  replica'[c].shadow[e].version >= replica[c].shadow[e].version
      <4>1. CASE c = d
        <5>1. replica'[c] = S
          BY <2>2, <3>1, <4>1
        <5> QED BY <3>1, <4>1, <5>1
      <4>2. CASE c # d
        <5>1. replica'[c] = replica[c]
          BY <2>2, <3>1, <4>2
        <5> QED BY <2>2, <5>1
      <4> QED BY <4>1, <4>2
    <3> QED BY <3>2
  <2>4. ASSUME NEW d \in Device, Push(d) PROVE Forward
    <3>1. replica' = replica
      BY <2>1, <2>4, PushInv
    <3> QED BY <2>2, <3>1
  <2>5. PICK d \in Device : Local(d) \/ RoundStep(d) \/ RoundFails(d) \/ Restart(d)
    BY <2>1 DEF Next
  <2>6. CASE Push(d)
    BY <2>4, <2>6
  <2>7. CASE ~Push(d)
    <3>1. \E S, t : DeviceMoves(d, S, t)
      BY <2>1, <2>5, <2>7, StepMoves DEF RoundStep
    <3> HIDE DEF Forward
    <3> QED BY <2>3, <3>1
  <2> QED BY <2>6, <2>7
<1> QED BY <1>1, InitInv, NextInv, PTL DEF Spec, ShadowAdvances

\* The devices and the server together implement the account's record log:
\* whatever is edited, pushed, lost, retried, pulled and merged, a step appends
\* complete batches of next versions, moves one watermark forward, or shows
\* nothing.
THEOREM RoundsImplementLog == Spec => ImplementsLog
<1>1. Init => Log!Init
  BY InitInv, InitImplements
<1>2. Inv /\ [Next]_vars => [Log!Next]_<<LogOf(record), Cursors>>
  <2> SUFFICES ASSUME Inv, [Next]_vars
               PROVE  [Log!Next]_<<LogOf(record), Cursors>>
    OBVIOUS
  <2>1. CASE UNCHANGED vars
    BY <2>1 DEF vars, Cursors
  <2>2. CASE Next
    <3>1. PICK d \in Device : Local(d) \/ RoundStep(d) \/ RoundFails(d) \/ Restart(d)
      BY <2>2 DEF Next
    <3>2. CASE Push(d)
      <4>1. Log!Grow(LogOf(record)') \/ UNCHANGED <<LogOf(record), Cursors>>
        BY <3>2, PushImplements
      <4> QED BY <4>1 DEF Log!Next
    <3>3. CASE ~Push(d)
      <4>1. PICK S, t : DeviceMoves(d, S, t)
        BY <3>1, <3>3, StepMoves DEF RoundStep
      <4>2. Log!Follow(d) \/ UNCHANGED <<LogOf(record), Cursors>>
        BY <4>1, MoveImplements
      <4> QED BY <4>2 DEF Log!Next
    <3> QED BY <3>2, <3>3
  <2> QED BY <2>1, <2>2
<1> QED BY <1>1, <1>2, InitInv, NextInv, PTL DEF Spec, ImplementsLog, Log!Spec, Cursors
=============================================================================

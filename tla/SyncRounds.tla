----------------------------- MODULE SyncRounds -----------------------------
(***************************************************************************)
(* Devices of one account keep a snippet in sync through the record        *)
(* server: local edits, sync rounds (SyncEngine::sync) that interleave     *)
(* with them, failing networks and restarting applications.                *)
(*                                                                         *)
(* The engine takes the database only for a local phase and releases it    *)
(* while it waits for the server, so a round is cut into the steps between *)
(* which other threads of the application, and other devices, run:         *)
(*   Push         read the pending batch and hand it to the server,        *)
(*   Acknowledge  process the reply, read the next batch,                  *)
(*   PullPage     fetch one page and apply it in one transaction,          *)
(*   EndIteration start over when something was merged, or finish.         *)
(* Reading a batch or fetching a page and the server's handling of it are  *)
(* one step: what happens in between commutes with it.                     *)
(***************************************************************************)
EXTENDS RecordStore, SyncReplica

CONSTANTS
  Device,            \* device ids, numbers: their order breaks clock ties
  Now,               \* values a device's clock may show when it queues
  PullPageLimit,     \* PULL_PAGE_LIMIT
  PushBatchLimit,    \* MAX_PUSH_RECORDS
  MergeRoundsMax,    \* MERGE_ROUNDS_MAX
  MaxEdits,          \* bound: local operations in a behaviour
  MaxEditsEach,      \* bound: local operations per device
  MaxFailures,       \* bound: failed rounds and restarts in a behaviour
  MaxCopies,         \* bound: conflict copies a device may make
  MaxUnapplied,      \* bound: records whose application fails in a behaviour
  Operations,        \* which local operations the instance exercises
  EditsDuringRounds  \* may the user edit while a round is on the wire?

ASSUME RoundsAssumption ==
  /\ Device \subseteq Nat /\ IsFiniteSet(Device) /\ Device # {}
  /\ Now \subseteq Nat
  /\ PullPageLimit \in Nat \ {0}
  /\ PushBatchLimit \in Nat \ {0}
  /\ MergeRoundsMax \in Nat \ {0}
  /\ {MaxEdits, MaxEditsEach, MaxFailures, MaxCopies, MaxUnapplied} \subseteq Nat
  /\ Operations \subseteq {"title", "body", "trash", "restore", "delete", "purge", "switch"}
  /\ EditsDuringRounds \in BOOLEAN

VARIABLES
  record,    \* the server's record table
  replica,   \* replica[d]: the sync state and the library of device d
  round,     \* round[d]: where the running round of d stands
  enabled,   \* enabled[d]: the persisted switch (sync_config.enabled)
  edits,     \* history: edits[d], the local operations of device d in order
  failures,  \* failed rounds and restarts so far
  owed,      \* history: bodies the user wrote and never knowingly replaced
  unapplied  \* history: <<d, seq>> when applying record seq failed on device d

vars == <<record, replica, round, enabled, edits, failures, owed, unapplied>>

Snippet == <<"s">>
Entities == {Snippet} \cup {Copy(d, n) : d \in Device, n \in 1..MaxCopies}

Idle == [at |-> "idle", iteration |-> 0, merged |-> FALSE, batch |-> <<>>, heads |-> {}]

-----------------------------------------------------------------------------
\* A snippet that one device created and every device has synced.

FirstDoc == [title |-> 0, body |-> 0, deleted |-> FALSE]

\* What travels: the queued row without its local state, signed by its device.
Wire(d, q) == [id |-> q.id, entity |-> q.entity, version |-> q.version,
               doc |-> q.doc, at |-> q.at, device |-> d]

Init ==
  LET author == CHOOSE d \in Device : TRUE
      first == [id |-> <<author, 0>>, entity |-> Snippet, version |-> 1,
                doc |-> FirstDoc, at |-> 0, state |-> "applied"]
  IN  /\ record = {WithSeq(Wire(author, first), 1)}
      /\ replica = [d \in Device |->
           [row |-> [e \in Entities |-> IF e = Snippet THEN FirstDoc ELSE NoRow],
            queue |-> IF d = author THEN {first} ELSE {},
            shadow |-> [e \in Entities |->
                          IF e = Snippet THEN [version |-> 1, doc |-> FirstDoc]
                                         ELSE [version |-> 0, doc |-> NoDoc]],
            cursor |-> 1,
            history |-> [e \in Entities |-> IF e = Snippet /\ d = author THEN {0} ELSE {}],
            minted |-> 0, copies |-> 0]]
      /\ round = [d \in Device |-> Idle]
      /\ enabled = [d \in Device |-> TRUE]
      /\ edits = [d \in Device |-> <<>>]
      /\ failures = 0
      /\ owed = {} /\ unapplied = {}

-----------------------------------------------------------------------------
\* Local operations: the host's write and the observer's enqueue in one
\* transaction.

EditCount == Cardinality({x \in Device \X (1..MaxEditsEach) : x[2] \in DOMAIN edits[x[1]]})

\* A value no other edit has used.
Fresh == EditCount + 1

Edits(d, op) ==
  /\ op \in Operations
  /\ EditCount < MaxEdits
  /\ Len(edits[d]) < MaxEditsEach
  /\ EditsDuringRounds \/ round[d].at = "idle"
  /\ edits' = [edits EXCEPT ![d] = Append(@, op)]
  /\ UNCHANGED <<record, round, failures, unapplied>>

\* The write R on device d, observed with the document to seal.
Write(d, R, doc) ==
  \E now \in Now :
    replica' = [replica EXCEPT ![d] =
                  IF enabled[d] THEN Enqueue(R, d, Snippet, doc, now) ELSE R]

Row(d) == replica[d].row[Snippet]

Update(d, doc) ==
  Write(d, [replica[d] EXCEPT !.row[Snippet] = doc, !.history[Snippet] = @ \cup {doc.body}], doc)

EditTitle(d) ==
  /\ Edits(d, "title")
  /\ Live(replica[d], Snippet)
  /\ Update(d, [Row(d) EXCEPT !.title = Fresh])
  /\ UNCHANGED <<enabled, owed>>

EditBody(d) ==
  /\ Edits(d, "body")
  /\ Live(replica[d], Snippet)
  /\ Update(d, [Row(d) EXCEPT !.body = Fresh])
  /\ owed' = (owed \ {Row(d).body}) \cup {Fresh}
  /\ UNCHANGED enabled

Trash(d) ==
  /\ Edits(d, "trash")
  /\ Live(replica[d], Snippet)
  /\ Write(d, ApplyTombstone(replica[d], Snippet), Tomb)
  /\ UNCHANGED <<enabled, owed>>

Restore(d) ==
  LET live == [Row(d) EXCEPT !.deleted = FALSE]
  IN  /\ Edits(d, "restore")
      /\ Row(d) # NoRow
      /\ ~Live(replica[d], Snippet)
      /\ Write(d, [replica[d] EXCEPT !.row[Snippet] = live], live)
      /\ UNCHANGED <<enabled, owed>>

DeleteForever(d) ==
  /\ Edits(d, "delete")
  /\ Row(d) # NoRow
  /\ Write(d, HardDelete(replica[d], Snippet), Tomb)
  /\ owed' = owed \ {Row(d).body}
  /\ UNCHANGED enabled

\* The retention sweep drops a trashed row without telling the observer.
PurgeExpired(d) ==
  /\ Edits(d, "purge")
  /\ Row(d) # NoRow
  /\ ~Live(replica[d], Snippet)
  /\ replica' = [replica EXCEPT ![d] = HardDelete(@, Snippet)]
  /\ owed' = owed \ {Row(d).body}
  /\ UNCHANGED enabled

\* Turning sync off keeps queue and state; turning it on reconciles what
\* changed in between.
Disable(d) ==
  /\ Edits(d, "switch")
  /\ enabled[d]
  /\ round[d].at = "idle"
  /\ enabled' = [enabled EXCEPT ![d] = FALSE]
  /\ UNCHANGED <<replica, owed>>

Enable(d) ==
  /\ ~enabled[d]
  /\ round[d].at = "idle"
  /\ enabled' = [enabled EXCEPT ![d] = TRUE]
  /\ \E now \in Now : replica' = [replica EXCEPT ![d] = Reconcile(@, d, now)]
  /\ UNCHANGED <<record, round, edits, failures, owed, unapplied>>

Local(d) ==
  \/ EditTitle(d) \/ EditBody(d) \/ Trash(d) \/ Restore(d) \/ DeleteForever(d)
  \/ PurgeExpired(d) \/ Disable(d) \/ Enable(d)

-----------------------------------------------------------------------------
\* A sync round.

Starts(d) ==
  /\ round[d].at = "idle"
  /\ enabled[d]
  /\ round' = [round EXCEPT ![d] = [Idle EXCEPT !.at = "push", !.iteration = 1]]
  /\ UNCHANGED <<record, replica, enabled, edits, failures, owed, unapplied>>

\* The first pending records, in queue order.
NextBatch(d) ==
  LET pending == Pending(replica[d])
  IN  InOrder({q \in pending :
                 Cardinality({p \in pending : p.id[2] < q.id[2]}) < PushBatchLimit})

\* Nothing is pending: on to the pull.
PushDone(d) ==
  /\ round[d].at = "push"
  /\ Pending(replica[d]) = {}
  /\ round' = [round EXCEPT ![d].at = "pull"]
  /\ UNCHANGED <<record, replica, enabled, edits, failures, owed, unapplied>>

\* The batch reaches the server, which stores all of it or names the entities
\* whose head it does not advance.
Push(d) ==
  LET queued == NextBatch(d)
      batch == [i \in DOMAIN queued |-> Wire(d, queued[i])]
      heads == ConflictingEntities(record, batch)
  IN  /\ round[d].at = "push"
      /\ queued # <<>>
      /\ record' = IF heads = {} THEN record \cup Inserted(record, batch) ELSE record
      /\ round' = [round EXCEPT ![d] = [@ EXCEPT !.at = "reply", !.batch = queued, !.heads = heads]]
      /\ UNCHANGED <<replica, enabled, edits, failures, owed, unapplied>>

\* The reply: accepted records leave the queue and become the shadow base, a
\* conflict parks everything pending of the named entities.
Acknowledge(d) ==
  /\ round[d].at = "reply"
  /\ replica' = [replica EXCEPT ![d] =
                   IF round[d].heads = {} THEN AcknowledgeAll(@, round[d].batch)
                                          ELSE MarkConflicted(@, round[d].heads)]
  /\ round' = [round EXCEPT ![d] = [@ EXCEPT !.at = "push", !.batch = <<>>, !.heads = {}]]
  /\ UNCHANGED <<record, enabled, edits, failures, owed, unapplied>>

Foreign(d, r) == r.device # d

\* One page of the feed; an empty or a last page ends the pull.  Any record of
\* another device may fail to apply.
PullPage(d) ==
  LET cursor == replica[d].cursor
      page == Page(record, cursor, PullPageLimit)
      more == HasMore(record, cursor, PullPageLimit)
  IN  /\ round[d].at = "pull"
      /\ IF page = {}
         THEN /\ round' = [round EXCEPT ![d].at = "end"]
              /\ UNCHANGED <<replica, unapplied>>
         ELSE \E now \in Now, failing \in SUBSET {r \in page : Foreign(d, r)} :
                LET applied == ApplyPage(replica[d], d, page, failing, now)
                IN  /\ unapplied' = unapplied \cup {<<d, r.seq>> : r \in failing}
                    /\ Cardinality(unapplied') <= MaxUnapplied
                    /\ applied.R.copies <= MaxCopies
                    /\ replica' = [replica EXCEPT ![d] = applied.R]
                    /\ round' = [round EXCEPT
                         ![d].at = IF more THEN "pull" ELSE "end",
                         ![d].merged = @ \/ applied.merged]
      /\ UNCHANGED <<record, enabled, edits, failures, owed>>

\* The merge loop: another iteration while this one merged something.
EndIteration(d) ==
  LET ended == round[d]
  IN  /\ ended.at = "end"
      /\ round' = [round EXCEPT ![d] =
           IF ended.merged /\ ended.iteration < MergeRoundsMax
           THEN [Idle EXCEPT !.at = "push", !.iteration = ended.iteration + 1]
           ELSE Idle]
      /\ UNCHANGED <<record, replica, enabled, edits, failures, owed, unapplied>>

\* The network fails, or a reply is lost after the server acted on the
\* request: the round ends where it stands.
RoundFails(d) ==
  /\ round[d].at \in {"push", "reply", "pull"}
  /\ failures < MaxFailures
  /\ failures' = failures + 1
  /\ round' = [round EXCEPT ![d] = Idle]
  /\ UNCHANGED <<record, replica, enabled, edits, owed, unapplied>>

\* The application dies at any point; the database keeps what was committed,
\* and attaching sync at the next start reconciles.
Restart(d) ==
  /\ failures < MaxFailures
  /\ failures' = failures + 1
  /\ round' = [round EXCEPT ![d] = Idle]
  /\ \E now \in Now : replica' = [replica EXCEPT ![d] = IF enabled[d] THEN Reconcile(@, d, now) ELSE @]
  /\ UNCHANGED <<record, enabled, edits, owed, unapplied>>

RoundStep(d) ==
  Starts(d) \/ Push(d) \/ PushDone(d) \/ Acknowledge(d) \/ PullPage(d) \/ EndIteration(d)

Next ==
  \E d \in Device : Local(d) \/ RoundStep(d) \/ RoundFails(d) \/ Restart(d)

\* The scheduler starts rounds forever, and a started round's steps are taken
\* by its worker thread.  Nothing makes the user edit or switch.
Fairness == \A d \in Device : WF_vars(RoundStep(d))

Spec == Init /\ [][Next]_vars
FairSpec == Spec /\ Fairness

-----------------------------------------------------------------------------
\* Properties.

Doc == [title : 0..MaxEdits, body : 0..MaxEdits, deleted : BOOLEAN]

\* The values that stand for an absent row, an absent base and a tombstone are
\* no documents.
ASSUME SentinelsAssumption == NoRow \notin Doc /\ NoDoc \notin Doc /\ Tomb \notin Doc

ServerRow ==
  [id : Device \X Nat, entity : Entities, version : Nat \ {0}, doc : Doc \cup {Tomb},
   at : Now \cup {0}, device : Device, seq : Nat \ {0}]

QueueRow ==
  [id : Device \X Nat, entity : Entities, version : Nat \ {0}, doc : Doc \cup {Tomb},
   at : Now \cup {0}, state : {"pending", "conflict", "applied"}]

Replica ==
  [row : [Entities -> Doc \cup {NoRow}],
   queue : SUBSET QueueRow,
   shadow : [Entities -> [version : Nat, doc : Doc \cup {NoDoc}]],
   cursor : Nat,
   history : [Entities -> SUBSET (0..MaxEdits)],
   minted : Nat,
   copies : 0..MaxCopies]

Round ==
  [at : {"idle", "push", "reply", "pull", "end"}, iteration : 0..MergeRoundsMax,
   merged : BOOLEAN, batch : Seq(QueueRow), heads : SUBSET Entities]

\* r is still ahead of device d in the feed.
Ahead(d, r) == r.seq > replica[d].cursor

TypeOK ==
  /\ record \subseteq ServerRow
  /\ replica \in [Device -> Replica]
  /\ round \in [Device -> Round]
  /\ enabled \in [Device -> BOOLEAN]
  /\ edits \in [Device -> Seq(Operations)]
  /\ \A d \in Device : Len(edits[d]) <= MaxEditsEach
  /\ failures \in 0..MaxFailures
  /\ unapplied \subseteq Device \X (Nat \ {0})

\* The shadow base of a device is a state the server really stored: the merge
\* never works from a base that only one side has seen.
ShadowIsServerRecord ==
  \A d \in Device : \A e \in Entities :
    LET s == replica[d].shadow[e]
    IN  s.version > 0 =>
          \E r \in RowsOf(record, e) :
            /\ r.version = s.version
            /\ s.doc = IF r.doc = Tomb THEN NoDoc ELSE r.doc

\* A merge with this tombstone may have failed.
HeldBack(R, e) == \E q \in QueueOf(R, e) : q.state = "conflict" /\ q.doc = Tomb

\* The watermark passes a record of another device only in the transaction
\* that applied or merged it, or tried to: advance_watermark and the page
\* commit together.  Two kinds of record stay behind it without having changed
\* the shadow: one whose application failed, and one that met a parked
\* tombstone it could not be merged with, which stays parked.
NothingPassedUnapplied ==
  \A d \in Device : \A r \in record :
    Foreign(d, r) /\ ~Ahead(d, r) =>
      \/ replica[d].shadow[r.entity].version >= r.version
      \/ <<d, r.seq>> \in unapplied
      \/ HeldBack(replica[d], r.entity)

\* Neither a lost reply nor an edit between two steps of a round makes the
\* device's picture of the server, shadow and watermark, claim what never was.
ShadowTracksServer == ShadowIsServerRecord /\ NothingPassedUnapplied

\* mark_applied finds every record of an accepted batch still pending, whatever
\* the application did while the batch was on the wire.
InFlightStillPending ==
  \A d \in Device :
    round[d].at = "reply" =>
      ToSet(round[d].batch) \subseteq Pending(replica[d])

\* A local write never hits the UNIQUE (entity, version) slot of sync_record,
\* which would abort it: versions in the table are distinct, whatever was
\* accepted, parked, merged or pulled meanwhile.
QueueSlotsUnique ==
  \A d \in Device : \A p, q \in replica[d].queue :
    p.entity = q.entity /\ p.version = q.version => p = q

\* Reconciling twice queues nothing the first pass did not.
ReconcileSettles ==
  \A d \in Device : \A now \in Now :
    LET once == Reconcile(replica[d], d, now)
    IN  Reconcile(once, d, now) = once

\* The queue stays fit to be pushed from: while a batch is on the wire its rows
\* keep their place, the writes made meanwhile find slots of their own, and a
\* restart at any moment completes it once, not again and again.
QueueIntact == InFlightStillPending /\ QueueSlotsUnique /\ ReconcileSettles

\* The last state agreed with the server never moves back, in no interleaving
\* of acknowledgements, pulls and retries.
ShadowAdvances ==
  [][\A d \in Device : \A e \in Entities :
       replica'[d].shadow[e].version >= replica[d].shadow[e].version]_vars

\* The devices and the server together implement the account's record log:
\* complete batches appended, followed by each device's watermark.
Log == INSTANCE RecordLog WITH
         Id <- Device \X Nat, Entity <- Entities, Reader <- Device,
         log <- LogOf(record), read <- [d \in Device |-> replica[d].cursor]

ImplementsLog == Log!Spec

-----------------------------------------------------------------------------
\* What the user is owed once things calm down.

\* Nothing is left to do: no round is running, nothing waits to be pushed and
\* every device has read the feed to its end.
Settled ==
  \A d \in Device : /\ enabled[d]
                    /\ round[d].at = "idle"
                    /\ Pending(replica[d]) = {}
                    /\ replica[d].cursor = MaxSeq(record)

\* The live snippets a device shows.
Shown(d) == [e \in {x \in Entities : Live(replica[d], x)} |-> replica[d].row[e]]

\* SECURITY_MODEL.md: concurrent body edits are never silently discarded.  A
\* body that nobody replaced knowingly is still in a snippet or a conflict
\* copy, or in the recycle bin or the version history of a deleted snippet.
BodiesKept ==
  Settled =>
    \A b \in owed : \E d \in Device, e \in Entities :
      LET row == replica[d].row[e]
      IN  /\ row # NoRow
          /\ row.body = b \/ (row.deleted /\ b \in replica[d].history[e])

\* "Leftovers stay queued for the next call": a record parked as conflicted
\* between rounds waits for a record some next round will still pull, or no
\* merge ever releases it.
NoStrandedConflict ==
  \A d \in Device : \A e \in Entities :
    Parked(replica[d], e) =>
      \/ round[d].at # "idle"
      \/ \E r \in RowsOf(record, e) : Foreign(d, r) /\ Ahead(d, r)

\* "The conflict stays parked for a later round": when a merge fails, the
\* server head it failed against is met again, so the watermark is not past it.
FailedMergeMeetsHeadAgain ==
  \A d \in Device : \A r \in record :
    /\ Foreign(d, r)
    /\ ~Ahead(d, r)
    /\ Parked(replica[d], r.entity)
    => r.version <= replica[d].shadow[r.entity].version

\* A library that sync already accounts for costs nothing to reconcile: the
\* row, the queue and the shadow agree in every state, so the catch-up pass of
\* a restart queues no record.
NothingToReconcile ==
  \A d \in Device : \A now \in Now :
    enabled[d] => Reconcile(replica[d], d, now) = replica[d]

\* No bookkeeping is left over between rounds: nothing parked for good, and
\* nothing that a restart would queue once more.
NothingLeftBehind == NoStrandedConflict /\ NothingToReconcile

\* When nothing is left to do, every device shows the same library, and a
\* tombstone on either side has won over concurrent edits: once the server has
\* one, the snippet is gone from every device unless somebody restored it.
Restored == \E d \in Device : "restore" \in ToSet(edits[d])
SettledAgrees ==
  Settled =>
    /\ \A c, d \in Device : Shown(c) = Shown(d)
    /\ (\E r \in RowsOf(record, Snippet) : r.doc = Tomb) /\ ~Restored =>
         \A d \in Device : ~Live(replica[d], Snippet)

\* While devices stay switched on, they end up showing the same library with
\* nothing left in any queue and nothing unread.
Converged ==
  /\ \A c, d \in Device : Shown(c) = Shown(d)
  /\ \A d \in Device : Unsent(replica[d]) = {} /\ replica[d].cursor = MaxSeq(record)

EventuallyConverged == (\A d \in Device : <>[]enabled[d]) => <>[]Converged
=============================================================================

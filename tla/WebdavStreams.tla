--------------------------- MODULE WebdavStreams ---------------------------
(***************************************************************************)
(* The WebDAV form of record sync: no server, only files.  Every device    *)
(* publishes its records into a stream of its own, one numbered file per   *)
(* record and a head file with the next number, and follows the streams of *)
(* the others with a cursor each.  A round pulls every stream first,       *)
(* settles what it finds concurrent on the spot, and then publishes.       *)
(*                                                                         *)
(* The database is held for a local phase and released for every request,  *)
(* so a round is cut at the requests and at each release of the lock.      *)
(* Replicas are those of SyncReplica, except that there is a cursor per    *)
(* stream.                                                                 *)
(***************************************************************************)
EXTENDS SyncReplica

CONSTANTS
  Device,      \* device ids, numbers: their order breaks clock ties
  Now,         \* values a device's clock may show when it queues
  Operations,  \* which local operations the instance exercises
  MaxEdits,    \* bound: local operations in a behaviour
  MaxCopies,   \* bound: conflict copies a device may make
  MaxFailures  \* bound: failed rounds, restarts and files passed unapplied

ASSUME StreamsAssumption ==
  /\ Device \subseteq Nat /\ IsFiniteSet(Device) /\ Device # {}
  /\ Now \subseteq Nat
  /\ Operations \subseteq {"body", "trash"}
  /\ {MaxEdits, MaxCopies, MaxFailures} \subseteq Nat

VARIABLES
  stream,    \* stream[d]: the record files of device d, by number
  head,      \* head[d]: the next_seq in the head file of device d
  replica,   \* replica[d]: the library and the sync state of device d
  round,     \* round[d]: where the running round of d stands
  edits,     \* local operations so far
  failures,  \* failed rounds, restarts and files passed unapplied so far
  overlap,   \* history: was anything edited while that device's round ran?
  owed,      \* history: bodies the user wrote and never knowingly replaced
  unapplied  \* history: <<d, s, n>> when d passed file n of s without applying it

files == <<stream, head>>
edited == <<edits, overlap, owed>>
failed == <<failures, unapplied>>
vars == <<files, replica, round, edited, failed>>

Snippet == <<"s">>
Entities == {Snippet} \cup {Copy(d, n) : d \in Device, n \in 1..MaxCopies}

Idle == [at |-> "idle"]

FirstDoc == [title |-> 0, body |-> 0, deleted |-> FALSE]

\* The file that carries a queued record.
Wire(d, q) == [id |-> q.id, entity |-> q.entity, version |-> q.version,
               doc |-> q.doc, at |-> q.at, device |-> d]

\* A snippet that one device created and the others have pulled.
Init ==
  LET author == CHOOSE d \in Device : TRUE
      first == [id |-> <<author, 0>>, entity |-> Snippet, version |-> 1, doc |-> FirstDoc,
                at |-> 0, state |-> "applied"]
      Length(d) == IF d = author THEN 1 ELSE 0
  IN  /\ stream = [d \in Device |-> IF d = author THEN <<Wire(author, first)>> ELSE <<>>]
      /\ head = [d \in Device |-> Length(d) + 1]
      /\ replica = [d \in Device |->
           [row |-> [e \in Entities |-> IF e = Snippet THEN FirstDoc ELSE NoRow],
            queue |-> IF d = author THEN {first} ELSE {},
            shadow |-> [e \in Entities |->
                          IF e = Snippet THEN [version |-> 1, doc |-> FirstDoc]
                                         ELSE [version |-> 0, doc |-> NoDoc]],
            history |-> [e \in Entities |-> IF e = Snippet /\ d = author THEN {0} ELSE {}],
            minted |-> 0, copies |-> 0,
            cursors |-> [s \in Device |-> Length(s) + 1],
            pushSeq |-> Length(d)]]
      /\ round = [d \in Device |-> Idle]
      /\ edits = 0 /\ failures = 0 /\ overlap = FALSE /\ owed = {} /\ unapplied = {}

-----------------------------------------------------------------------------
\* Local operations, as in SyncRounds.

Row(d) == replica[d].row[Snippet]

Edits(d, op, R, doc) ==
  /\ op \in Operations
  /\ edits < MaxEdits
  /\ Live(replica[d], Snippet)
  /\ \E now \in Now : replica' = [replica EXCEPT ![d] = Enqueue(R, d, Snippet, doc, now)]
  /\ edits' = edits + 1
  /\ overlap' = (overlap \/ round[d] # Idle)
  /\ UNCHANGED <<files, round, failed>>

EditBody(d) ==
  LET doc == [Row(d) EXCEPT !.body = edits + 1]
  IN  /\ Edits(d, "body",
               [replica[d] EXCEPT !.row[Snippet] = doc, !.history[Snippet] = @ \cup {doc.body}], doc)
      /\ owed' = (owed \ {Row(d).body}) \cup {doc.body}

Trash(d) ==
  /\ Edits(d, "trash", ApplyTombstone(replica[d], Snippet), Tomb)
  /\ UNCHANGED owed

-----------------------------------------------------------------------------
\* Pulling.

SetRound(d, r) == round' = [round EXCEPT ![d] = r]

\* The head of the next source is read when its turn comes; after the last
\* source the outbox is published.
Opened(d, sources, queued) ==
  IF sources = {}
    THEN [at |-> "list", published |-> FALSE, next |-> replica[d].pushSeq + 1]
    ELSE LET s == CHOOSE x \in sources : \A y \in sources : x <= y
         IN  [at |-> "pull", source |-> s, head |-> head[s],
              sources |-> sources \ {s}, queued |-> queued]

QueuedHeads(R) ==
  {q \in Unsent(R) : \A p \in Unsent(R) : p.entity = q.entity => p.version <= q.version}

BeginRound(d) ==
  /\ round[d] = Idle
  /\ SetRound(d, Opened(d, Device \ {d}, QueuedHeads(replica[d])))
  /\ UNCHANGED <<files, replica, edited, failed>>

Cursor(d) == replica[d].cursors[round[d].source]
Incoming(d) == stream[round[d].source][Cursor(d)]

\* Up to one file past the head is tried.
MoreToPull(d) ==
  /\ Cursor(d) < round[d].head + 2
  /\ Cursor(d) <= Len(stream[round[d].source])

NextSource(d) ==
  /\ round[d].at = "pull"
  /\ ~MoreToPull(d)
  /\ SetRound(d, Opened(d, round[d].sources, round[d].queued))
  /\ UNCHANGED <<files, replica, edited, failed>>

\* webdav_cursor_put, in the transaction of what was done with the record.
Advance(R, s) == [R EXCEPT !.cursors[s] = @ + 1]

\* The queued head of the record's entity, as it was when the pull began.
LocalHeads(d) == {q \in round[d].queued : q.entity = Incoming(d).entity}

Pulling(d) == round[d].at = "pull" /\ MoreToPull(d)

SameContent(d, q) == q.doc # Tomb /\ q.doc = Incoming(d).doc

\* The file under the cursor is passed without being applied.
Leaves(d) ==
  /\ failures < MaxFailures
  /\ failures' = failures + 1
  /\ unapplied' = unapplied \cup {<<d, round[d].source, Cursor(d)>>}

\* A file that is structurally broken is counted as skipped, and the cursor is
\* put past it.
PassMalformed(d) ==
  /\ Pulling(d)
  /\ Leaves(d)
  /\ replica' = [replica EXCEPT ![d] = Advance(@, round[d].source)]
  /\ UNCHANGED <<files, round, edited>>

\* Both sides produced the same document: the queued record counts as sent.
\* Three writes, each committed on its own; mark_applied wants it pending.
Agreeing(d) ==
  IF Pulling(d) THEN {q \in LocalHeads(d) : SameContent(d, q)} ELSE {}
Agreeable(d) == Agreeing(d) \cap Pending(replica[d])

\* Mutant of AgreeShadow: the version of the queued record is kept.
AgreeOwnVersion(R, q, r) == PutShadow(Accepted(R, q), r.entity, q.version, q.doc)

AgreeShadow(R, q, r) ==
  PutShadow(Accepted(R, q), r.entity, Max({r.version, q.version}), q.doc)

Agree(d) ==
  /\ \E q \in Agreeable(d) :
       replica' = [replica EXCEPT
         ![d] = Advance(AgreeShadow(@, q, Incoming(d)), round[d].source)]
  /\ UNCHANGED <<files, round, edited, failed>>

\* A head that is no longer pending fails the round.
AgreeFails(d) ==
  /\ Agreeing(d) \ Agreeable(d) # {}
  /\ SetRound(d, Idle)
  /\ UNCHANGED <<files, replica, edited, failed>>

\* Anything else that is queued for the entity is parked for the merge.
Park(d) ==
  /\ Pulling(d)
  /\ \E q \in LocalHeads(d) : ~SameContent(d, q)
  /\ replica' = [replica EXCEPT ![d] = MarkConflicted(@, {Incoming(d).entity})]
  /\ SetRound(d, [round[d] EXCEPT !.at = "apply"])
  /\ UNCHANGED <<files, edited, failed>>

\* The bound on conflict copies stops the steps that could make another.
MayCopy(d) == replica[d].copies < MaxCopies

\* resolve_rival_publish: this device published the same version with other
\* content.
Rivals(d) ==
  LET r == Incoming(d)
      s == replica[d].shadow[r.entity]
  IN  IF r.doc = Tomb \/ s.doc = NoDoc \/ s.version # r.version \/ r.doc = s.doc THEN {}
      ELSE {q \in replica[d].queue :
              q.state = "applied" /\ q.entity = r.entity /\ q.version = r.version}

\* Mutant of OwnWins: each side keeps its own when the clocks agree.
OwnWinsTies(d, q) == q.at >= Incoming(d).at

OwnWins(d, q) ==
  LET r == Incoming(d) IN q.at > r.at \/ (q.at = r.at /\ d > r.device)

\* Mutant of Adopt: the other document simply replaces this one.
AdoptOnly(R, d, r, now) ==
  PutShadow(ApplyDocument(R, r.entity, r.doc), r.entity, r.version, r.doc)

\* The loser takes the other document and keeps its own as a copy.
Adopt(R, d, r, now) ==
  MakeCopy(PutShadow(ApplyDocument(R, r.entity, r.doc), r.entity, r.version, r.doc),
           d, r.entity, R.shadow[r.entity].doc, now)

ResolveRival(d) ==
  /\ Pulling(d) /\ MayCopy(d)
  /\ LocalHeads(d) = {}
  /\ \E q \in Rivals(d), now \in Now :
       replica' = [replica EXCEPT
         ![d] = Advance(IF OwnWins(d, q) THEN @ ELSE Adopt(@, d, Incoming(d), now), round[d].source)]
  /\ UNCHANGED <<files, round, edited, failed>>

\* Neither: on to the transaction that applies the record.
TakeUp(d) ==
  /\ Pulling(d)
  /\ LocalHeads(d) = {} /\ Rivals(d) = {}
  /\ SetRound(d, [round[d] EXCEPT !.at = "apply"])
  /\ UNCHANGED <<files, replica, edited, failed>>

\* The cursor moves in this transaction whether the record could be applied
\* or not.
Apply(d) ==
  /\ round[d].at = "apply" /\ MayCopy(d)
  /\ \E now \in Now, fails \in BOOLEAN :
       /\ IF fails THEN Leaves(d) ELSE UNCHANGED failed
       /\ replica' = [replica EXCEPT
            ![d] = Advance(ApplyOne(@, d, Incoming(d), now, fails), round[d].source)]
  /\ SetRound(d, [round[d] EXCEPT !.at = "pull"])
  /\ UNCHANGED <<files, edited>>

-----------------------------------------------------------------------------
\* Publishing.

\* The pending records are listed again until there are none.
ListPending(d) ==
  /\ round[d].at = "list"
  /\ SetRound(d,
       IF Pending(replica[d]) # {}
         THEN [at |-> "publish", published |-> TRUE, next |-> round[d].next, batch |-> InOrder(Pending(replica[d]))]
       ELSE IF round[d].published THEN [at |-> "bump", next |-> round[d].next] ELSE Idle)
  /\ UNCHANGED <<files, replica, edited, failed>>

\* Mutants of FreeSlot: a taken number counts as written; one number too far.
NextSlot(d) == round[d].next
SlotAfterNext(d) == Max({round[d].next, Len(stream[d]) + 1}) + 1

\* A number that is taken is passed over.
FreeSlot(d) == Max({round[d].next, Len(stream[d]) + 1})

\* An exclusive PUT: a file that is there stays.
Put(s, n, r) == [k \in DOMAIN s \cup {n} |-> IF k \in DOMAIN s THEN s[k] ELSE r]

Publish(d) ==
  /\ round[d].at = "publish"
  /\ stream' = [stream EXCEPT ![d] = Put(@, FreeSlot(d), Wire(d, Head(round[d].batch)))]
  /\ SetRound(d, [round[d] EXCEPT !.at = "mark", !.next = FreeSlot(d)])
  /\ UNCHANGED <<head, replica, edited, failed>>

\* mark_applied, the new shadow base and the push counter, in one transaction.
Mark(d) ==
  LET q == Head(round[d].batch)
      rest == Tail(round[d].batch)
  IN  /\ round[d].at = "mark"
      /\ replica' = [replica EXCEPT
           ![d] = [MarkApplied(@, q)
                     EXCEPT !.pushSeq = round[d].next]]
      /\ SetRound(d, IF rest = <<>> THEN [at |-> "list", published |-> TRUE, next |-> round[d].next + 1]
                     ELSE [round[d] EXCEPT !.at = "publish", !.next = @ + 1, !.batch = rest])
      /\ UNCHANGED <<files, edited, failed>>

WriteHead(d) ==
  /\ round[d].at = "bump"
  /\ head' = [head EXCEPT ![d] = round[d].next]
  /\ SetRound(d, Idle)
  /\ UNCHANGED <<stream, replica, edited, failed>>

-----------------------------------------------------------------------------
Failing(d) ==
  /\ failures < MaxFailures
  /\ failures' = failures + 1
  /\ SetRound(d, Idle)
  /\ UNCHANGED <<files, edited, unapplied>>

\* A request fails, or its reply is lost after it took effect.
RoundFails(d) ==
  /\ round[d] # Idle
  /\ Failing(d)
  /\ UNCHANGED replica

\* What is committed when the application dies, between the writes of an
\* agreement too.
Committed(d) ==
  {replica[d]} \cup {Accepted(replica[d], q) : q \in Agreeable(d)}
               \cup {AgreeShadow(replica[d], q, Incoming(d)) : q \in Agreeable(d)}

\* It reconciles when it is started again.
Restart(d) ==
  /\ Failing(d)
  /\ \E now \in Now, R \in Committed(d) : replica' = [replica EXCEPT ![d] = Reconcile(R, d, now)]

Local(d) == EditBody(d) \/ Trash(d)
Pull(d) == \/ BeginRound(d) \/ NextSource(d) \/ PassMalformed(d) \/ Agree(d) \/ AgreeFails(d)
           \/ Park(d) \/ ResolveRival(d) \/ TakeUp(d) \/ Apply(d)
Push(d) == ListPending(d) \/ Publish(d) \/ Mark(d) \/ WriteHead(d)

Next == \E d \in Device : Local(d) \/ Pull(d) \/ Push(d) \/ RoundFails(d) \/ Restart(d)

Spec == Init /\ [][Next]_vars

-----------------------------------------------------------------------------
\* Properties.

Doc == [title : {0}, body : 0..MaxEdits, deleted : BOOLEAN]

\* The values that stand for an absent row, an absent base and a tombstone are
\* no documents.
ASSUME SentinelsAssumption == NoRow \notin Doc /\ NoDoc \notin Doc /\ Tomb \notin Doc

RecordFile ==
  [id : Device \X Nat, entity : Entities, version : Nat \ {0}, doc : Doc \cup {Tomb},
   at : Now \cup {0}, device : Device]

QueueRow ==
  [id : Device \X Nat, entity : Entities, version : Nat \ {0}, doc : Doc \cup {Tomb},
   at : Now \cup {0}, state : {"pending", "conflict", "applied"}]

Replica ==
  [row : [Entities -> Doc \cup {NoRow}],
   queue : SUBSET QueueRow,
   shadow : [Entities -> [version : Nat, doc : Doc \cup {NoDoc}]],
   history : [Entities -> SUBSET (0..MaxEdits)],
   minted : Nat,
   copies : 0..MaxCopies,
   cursors : [Device -> Nat \ {0}],
   pushSeq : Nat]

Round ==
  {Idle}
    \cup [at : {"pull", "apply"}, source : Device, head : Nat, sources : SUBSET Device,
          queued : SUBSET QueueRow]
    \cup [at : {"list"}, published : BOOLEAN, next : Nat \ {0}]
    \cup [at : {"publish", "mark"}, published : BOOLEAN, next : Nat \ {0}, batch : Seq(QueueRow)]
    \cup [at : {"bump"}, next : Nat \ {0}]

\* Also: a device numbers its files without a gap, and neither its own
\* counters nor the cursors of its followers get ahead of them.
TypeOK ==
  /\ DOMAIN stream = Device
  /\ \A d \in Device :
       \E n \in 0..Cardinality(DOMAIN stream[d]) : stream[d] \in [1..n -> RecordFile]
  /\ head \in [Device -> Nat \ {0}]
  /\ replica \in [Device -> Replica]
  /\ round \in [Device -> Round]
  /\ \A d \in Device :
       /\ head[d] \in 1..Len(stream[d]) + 1
       /\ replica[d].pushSeq \in 0..Len(stream[d])
       /\ \A s \in Device : replica[d].cursors[s] \in 1..Len(stream[s]) + 1
  /\ edits \in 0..MaxEdits /\ failures \in 0..MaxFailures
  /\ unapplied \subseteq Device \X Device \X (Nat \ {0})

\* mark_applied and webdav_push_seq survive any crash between publishing and
\* marking: what a device counts as sent can be fetched by everybody, from
\* its own stream or, after an agreement, from that of another.
AppliedIsPublished ==
  \A d \in Device : \A q \in replica[d].queue :
    q.state = "applied" =>
      \E s \in Device : \E r \in ToSet(stream[s]) : r.entity = q.entity /\ r.doc = q.doc

\* A merge with this parked tombstone may have failed.
HeldBack(R, e) == \E q \in QueueOf(R, e) : q.state = "conflict" /\ q.doc = Tomb

\* A cursor passes a record only in the transaction that takes account of it:
\* by then the shadow is at its version or later, in every one of the ways a
\* record is applied, merged, agreed with, outranked or replayed.  Left behind
\* without that are the file that was broken, the record whose application
\* failed, and one that met a parked tombstone it could not be merged with,
\* which stays parked.
ReadIsKnown ==
  [][\A d, s \in Device : replica'[d].cursors[s] > replica[d].cursors[s] =>
       LET r == stream[s][replica[d].cursors[s]]
       IN  \/ replica'[d].shadow[r.entity].version >= r.version
           \/ <<d, s, replica[d].cursors[s]>> \in unapplied'
           \/ HeldBack(replica'[d], r.entity)]_vars

\* Nothing is left to do: no round runs, no record waits to be sent or
\* merged, and every device has read every stream to its end.
Settled ==
  \A d \in Device : /\ round[d] = Idle
                    /\ Unsent(replica[d]) = {}
                    /\ \A s \in Device \ {d} : replica[d].cursors[s] = Len(stream[s]) + 1

Shown(d) == [e \in {x \in Entities : Live(replica[d], x)} |-> replica[d].row[e]]

\* The published files that raced: another device published other content as
\* the same version of the same entity.
Published == UNION {{d} \X DOMAIN stream[d] : d \in Device}
File(x) == stream[x[1]][x[2]]
Raced ==
  {x \in Published : \E y \in Published :
     /\ x[1] # y[1] /\ File(x).doc # File(y).doc
     /\ File(x).entity = File(y).entity /\ File(x).version = File(y).version}

\* "The winner's document is the head everywhere": when nothing is left to do
\* the devices show the same library, whatever was published before it was
\* pulled and whatever round failed.  Edits made while a round runs, and
\* tombstones that race, are beyond what resolve_rival_publish sees, and a file
\* passed unapplied is not read again.
SettledAgrees ==
  Settled /\ ~overlap /\ unapplied = {} /\ (\A x \in Raced : File(x).doc # Tomb) =>
    \A c, d \in Device : Shown(c) = Shown(d)

Kept(b) ==
  \E d \in Device, e \in Entities :
    LET row == replica[d].row[e]
    IN  /\ row # NoRow
        /\ row.body = b \/ (row.deleted /\ b \in replica[d].history[e])

Superseded(x) == \E n \in DOMAIN stream[x[1]] : n > x[2] /\ stream[x[1]][n].entity = File(x).entity

\* "The loser - exactly one side - preserves its own body as the single
\* conflict copy": no body of the user's is lost, and none is copied twice.
\* The race is resolved record by record, so this takes a race in which
\* neither side had published further, and every file applied.
BodiesKeptOnce ==
  Settled /\ ~overlap /\ unapplied = {} =>
    /\ (\A x \in Raced : ~Superseded(x)) => \A b \in owed : Kept(b)
    /\ \A c, d \in Device : \A e, f \in Entities \ {Snippet} :
         e # f /\ Live(replica[c], e) /\ Live(replica[d], f) =>
           replica[c].row[e].body # replica[d].row[f].body
=============================================================================

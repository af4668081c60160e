------------------------ MODULE WebdavStreams_proofs ------------------------
(***************************************************************************)
(* Sync without a server, for any number of devices: the merge of two      *)
(* sides that rounds settle conflicts with, and the record streams.        *)
(*                                                                         *)
(* Of the merge, for every set of values: whichever device runs it, it     *)
(* decides alike, loses no edit and settles.  Of the streams: the types    *)
(* hold and no counter gets ahead of the files, what a device counts as    *)
(* sent can be fetched from some stream, and a cursor only passes what was *)
(* accounted for.                                                          *)
(***************************************************************************)
EXTENDS MergeSides, WebdavStreams, RecordStore_proofs

-----------------------------------------------------------------------------
\* The merge of two sides.  The heart is a lemma per merge rule, about any base
\* and any two sides; the invariant only has to supply that clocks are numbers
\* and that the two sides carry different device ids.

\* The clock rule names exactly one winner: of two different devices one and
\* only one wins, whatever their clocks show.
LEMMA OneWinner ==
  ASSUME NEW l, NEW r, l.at \in Nat, r.at \in Nat,
         l.device \in Nat, r.device \in Nat, l.device # r.device
  PROVE  LocalWins(l, r) <=> ~LocalWins(r, l)
  BY DEF LocalWins

\* Rules 1 and 2 do not depend on the side that applies them.
LEMMA PickIsSymmetric ==
  ASSUME NEW b, NEW l, NEW r, NEW w \in BOOLEAN
  PROVE  Pick(b, l, r, w) = Pick(b, r, l, ~w)
  BY DEF Pick, TakesLocal

\* Without a conflict the body does not depend on the side either.
LEMMA BodyIsSymmetric ==
  ASSUME NEW b, NEW l, NEW r
  PROVE  /\ BodyConflict(b, l, r) <=> BodyConflict(b, r, l)
         /\ ~BodyConflict(b, l, r) => MergedBody(b, l, r) = MergedBody(b, r, l)
  BY DEF BodyConflict, MergedBody, Pick, TakesLocal

\* Rule 4 is a maximum with Null at the bottom, so it is commutative.
LEMMA UsageMaxIsSymmetric ==
  ASSUME NEW a \in Nat \cup {Null}, NEW c \in Nat \cup {Null}
  PROVE  UsageMax(a, c) = UsageMax(c, a)
  BY SidesAssumption DEF UsageMax

\* merge_documents gives both devices the same document, apart from the body
\* of a conflict, for any base and any two sides of different devices.
THEOREM MergeSymmetry ==
  ASSUME NEW b, NEW l, NEW r,
         l.at \in Nat, r.at \in Nat,
         l.device \in Nat, r.device \in Nat, l.device # r.device,
         l.doc.usage \in Nat \cup {Null}, r.doc.usage \in Nat \cup {Null},
         l.doc.version \in Nat \cup {Null}, r.doc.version \in Nat \cup {Null}
  PROVE  SymmetricMerge(b, l, r)
<1> DEFINE here == MergeDocuments(b, l, r)
           there == MergeDocuments(b, r, l)
           wins == LocalWins(l, r)
<1>1. LocalWins(r, l) = ~wins
  BY OneWinner DEF LocalWins
<1>2. wins \in BOOLEAN
  BY DEF LocalWins
<1>3. here.doc.trigger = there.doc.trigger /\ here.doc.field = there.doc.field
  <2>1. Pick(b.trigger, l.doc.trigger, r.doc.trigger, wins)
          = Pick(b.trigger, r.doc.trigger, l.doc.trigger, ~wins)
    BY <1>2, PickIsSymmetric
  <2>2. Pick(b.field, l.doc.field, r.doc.field, wins)
          = Pick(b.field, r.doc.field, l.doc.field, ~wins)
    BY <1>2, PickIsSymmetric
  <2> QED BY <1>1, <2>1, <2>2 DEF MergeDocuments
<1>4. here.doc.usage = there.doc.usage /\ here.doc.version = there.doc.version
  BY UsageMaxIsSymmetric DEF MergeDocuments
<1>5. here.bodyConflict = there.bodyConflict
  BY BodyIsSymmetric DEF MergeDocuments, BodyConflict
<1>6. ~here.bodyConflict => here.doc.body = there.doc.body
  BY BodyIsSymmetric DEF MergeDocuments
<1>7. /\ here.doc = [body |-> here.doc.body, trigger |-> here.doc.trigger,
                     usage |-> here.doc.usage, version |-> here.doc.version,
                     field |-> here.doc.field]
      /\ there.doc = [body |-> there.doc.body, trigger |-> there.doc.trigger,
                      usage |-> there.doc.usage, version |-> there.doc.version,
                      field |-> there.doc.field]
  BY DEF MergeDocuments
<1> HIDE DEF here, there
<1>8. ASSUME here.bodyConflict
      PROVE  [here.doc EXCEPT !.body = there.doc.body] = there.doc
  BY <1>3, <1>4, <1>7
<1>9. ASSUME ~here.bodyConflict
      PROVE  here.doc = there.doc
  BY <1>3, <1>4, <1>6, <1>7, <1>9
<1> QED BY <1>5, <1>8, <1>9 DEF SymmetricMerge, here, there

-----------------------------------------------------------------------------
\* The type invariant of the two sides is inductive.
LEMMA SidesTypeInv == SidesSpec => []SidesTypeOK
<1> USE SidesAssumption DEF Devices
<1>1. SidesInit => SidesTypeOK
  BY DEF SidesInit, SidesTypeOK, SideDoc, FreshDoc
<1>2. SidesTypeOK /\ [SidesNext]_sides => SidesTypeOK'
  <2> SUFFICES ASSUME SidesTypeOK, [SidesNext]_sides PROVE SidesTypeOK'
    OBVIOUS
  <2>1. base' = base
    BY DEF SidesNext, sides
  <2>2. ASSUME NEW d \in Devices, NEW doc \in SideDoc, Edit(d, doc)
        PROVE  SidesTypeOK'
    <3>1. PICK now \in side[d].at..MaxClock :
            side' = [side EXCEPT ![d].doc = doc, ![d].at = now]
      BY <2>2 DEF Edit
    <3>2. now \in 1..MaxClock
      BY DEF SidesTypeOK
    <3> QED BY <2>1, <3>1, <3>2 DEF SidesTypeOK
  <2>3. ASSUME NEW d \in Devices, side[d].doc.version < 2, ChangeBody(d)
        PROVE  SidesTypeOK'
    <3>1. PICK v \in Value :
            Edit(d, [side[d].doc EXCEPT !.body = v, !.version = @ + 1])
      BY <2>3 DEF ChangeBody
    <3>2. [side[d].doc EXCEPT !.body = v, !.version = @ + 1] \in SideDoc
      <4>1. side[d].doc \in SideDoc
        BY DEF SidesTypeOK
      <4>2. side[d].doc.version + 1 \in 1..2
        BY <2>3, <4>1 DEF SideDoc
      <4> QED BY <4>1, <4>2 DEF SideDoc
    <3> QED BY <2>2, <3>1, <3>2
  <2>4. ASSUME NEW d \in Devices, ChangeTrigger(d)
        PROVE  SidesTypeOK'
    <3>1. PICK v \in Value \cup {Null} : Edit(d, [side[d].doc EXCEPT !.trigger = v])
      BY <2>4 DEF ChangeTrigger
    <3>2. [side[d].doc EXCEPT !.trigger = v] \in SideDoc
      BY DEF SidesTypeOK, SideDoc
    <3> QED BY <2>2, <3>1, <3>2
  <2>5. ASSUME NEW d \in Devices, ChangeField(d)
        PROVE  SidesTypeOK'
    <3>1. PICK v \in Value \cup {Null} : Edit(d, [side[d].doc EXCEPT !.field = v])
      BY <2>5 DEF ChangeField
    <3>2. [side[d].doc EXCEPT !.field = v] \in SideDoc
      BY DEF SidesTypeOK, SideDoc
    <3> QED BY <2>2, <3>1, <3>2
  <2>6. ASSUME NEW d \in Devices, Use(d)
        PROVE  SidesTypeOK'
    <3>1. [side[d].doc EXCEPT !.usage = @ + 1] \in SideDoc
      <4>1. side[d].doc \in SideDoc
        BY DEF SidesTypeOK
      <4>2. side[d].doc.usage + 1 \in 0..MaxUsage
        BY <2>6, <4>1 DEF SideDoc, Use
      <4> QED BY <4>1, <4>2 DEF SideDoc
    <3>2. Edit(d, [side[d].doc EXCEPT !.usage = @ + 1])
      BY <2>6 DEF Use
    <3> QED BY <2>2, <3>1, <3>2
  <2>7. CASE UNCHANGED sides
    BY <2>7 DEF SidesTypeOK, sides
  <2> QED BY <2>3, <2>4, <2>5, <2>6, <2>7 DEF SidesNext
<1> QED BY <1>1, <1>2, PTL DEF SidesSpec

-----------------------------------------------------------------------------
\* Of a unit changed on one side only, the changed value is kept.
LEMMA PickKeepsOneSided ==
  ASSUME NEW b, NEW l, NEW r, NEW w \in BOOLEAN
  PROVE  /\ l # b /\ r = b => Pick(b, l, r, w) = l
         /\ r # b /\ l = b => Pick(b, l, r, w) = r
  BY DEF Pick, TakesLocal

\* What every state of two sides gives the lemmas.
LEMMA TwoSides ==
  ASSUME SidesTypeOK, NEW d \in Devices
  PROVE  /\ 3 - d \in Devices /\ 3 - (3 - d) = d
         /\ side[d].device # side[3 - d].device
         /\ LocalWins(side[d], side[3 - d]) \in BOOLEAN
         /\ side[d].doc.usage \in Nat /\ side[d].doc.version \in Nat
         /\ side[d].at \in Nat /\ side[d].device \in Nat
  BY SidesAssumption DEF SidesTypeOK, SideDoc, Devices, LocalWins

\* The body of the other side enters the document unless only the merging side
\* changed it; a body the document does not take is that of a conflict.
LEMMA BodiesLemma == SidesTypeOK => BodiesSurvive
<1> SUFFICES ASSUME SidesTypeOK, NEW d \in Devices, NEW w \in Devices,
                    side[w].doc.body # base.body
             PROVE  \/ Merged(d).doc.body = side[w].doc.body
                    \/ /\ Merged(d).bodyConflict
                       /\ ConflictCopy(side[d].doc).body = side[w].doc.body
  BY DEF BodiesSurvive
<1>1. w = d \/ w = 3 - d
  BY DEF Devices
<1>2. Merged(d).doc.body = MergedBody(base.body, side[d].doc.body, side[3 - d].doc.body)
  BY DEF Merged, MergeDocuments
<1>3. Merged(d).bodyConflict
        = BodyConflict(base.body, side[d].doc.body, side[3 - d].doc.body)
  BY DEF Merged, MergeDocuments
<1>4. ConflictCopy(side[d].doc).body = side[d].doc.body
  BY DEF ConflictCopy, SidesTypeOK, SideDoc
<1> QED BY <1>1, <1>2, <1>3, <1>4 DEF MergedBody, BodyConflict, Pick, TakesLocal

\* Every unit of the merged document is picked by one of the two rules, and
\* both keep a change made on one side only.
LEMMA OneSidedLemma == SidesTypeOK => OneSidedChangesSurvive
<1> SUFFICES ASSUME SidesTypeOK, NEW d \in Devices, NEW w \in Devices,
                    NEW u \in {"body", "trigger", "field"},
                    side[w].doc[u] # base[u], side[3 - w].doc[u] = base[u]
             PROVE  Merged(d).doc[u] = side[w].doc[u]
  BY DEF OneSidedChangesSurvive
<1> DEFINE wins == LocalWins(side[d], side[3 - d])
           rule == IF u = "body" THEN FALSE ELSE wins
<1>1. /\ Merged(d).doc["body"] = Pick(base.body, side[d].doc.body, side[3 - d].doc.body, FALSE)
      /\ Merged(d).doc["trigger"]
           = Pick(base.trigger, side[d].doc.trigger, side[3 - d].doc.trigger, wins)
      /\ Merged(d).doc["field"]
           = Pick(base.field, side[d].doc.field, side[3 - d].doc.field, wins)
  BY DEF Merged, MergeDocuments, MergedBody
<1>2. rule \in BOOLEAN /\ (w = d \/ w = 3 - d) /\ 3 - (3 - d) = d
  BY TwoSides DEF Devices
<1>3. Merged(d).doc[u] = Pick(base[u], side[d].doc[u], side[3 - d].doc[u], rule)
  BY <1>1
<1> HIDE DEF rule
<1> QED BY <1>2, <1>3, PickKeepsOneSided

\* With the remote document as base the second merge picks the first outcome
\* everywhere, and the maximum of the counters is already reached.
LEMMA SettlesLemma == SidesTypeOK => MergeSettles
<1> SUFFICES ASSUME SidesTypeOK, NEW d \in Devices
             PROVE  LET remote == side[3 - d]
                        again == MergeDocuments(remote.doc,
                                   [side[d] EXCEPT !.doc = Merged(d).doc], remote)
                    IN  /\ ~again.bodyConflict
                        /\ [again.doc EXCEPT !.version = Merged(d).doc.version]
                             = Merged(d).doc
  BY DEF MergeSettles
<1> DEFINE remote == side[3 - d]
           first == Merged(d).doc
           mine == [side[d] EXCEPT !.doc = first]
           again == MergeDocuments(remote.doc, mine, remote)
<1>1. mine.doc = first
  BY DEF SidesTypeOK
<1>2. ~again.bodyConflict
  BY DEF MergeDocuments, BodyConflict
<1>3. \A x, y, w : Pick(y, x, y, w) = x
  BY DEF Pick, TakesLocal
<1>4. /\ again.doc.body = first.body
      /\ again.doc.trigger = first.trigger
      /\ again.doc.field = first.field
  BY <1>1, <1>3 DEF MergeDocuments, MergedBody
<1>5. again.doc.usage = first.usage
  <2>1. first.usage = UsageMax(side[d].doc.usage, remote.doc.usage)
    BY DEF Merged, MergeDocuments
  <2>2. again.doc.usage = UsageMax(first.usage, remote.doc.usage)
    BY <1>1 DEF MergeDocuments
  <2>3. side[d].doc.usage \in Nat /\ remote.doc.usage \in Nat
    BY TwoSides
  <2> HIDE DEF remote, first, again
  <2> QED BY <2>1, <2>2, <2>3, SidesAssumption DEF UsageMax
<1>6. /\ first = [body |-> first.body, trigger |-> first.trigger, usage |-> first.usage,
                  version |-> first.version, field |-> first.field]
      /\ again.doc = [body |-> again.doc.body, trigger |-> again.doc.trigger,
                      usage |-> again.doc.usage, version |-> again.doc.version,
                      field |-> again.doc.field]
  BY DEF Merged, MergeDocuments
<1> HIDE DEF first, again
<1>7. [again.doc EXCEPT !.version = first.version] = first
  BY <1>4, <1>5, <1>6
<1> QED BY <1>2, <1>7 DEF first, again

-----------------------------------------------------------------------------
\* The copies of the two devices stay well formed, and their devices distinct,
\* whatever is edited and merged.
THEOREM MergeSidesTyped == SidesSpec => []SidesTypeOK
  BY SidesTypeInv

\* Whatever the clocks show, both devices come to the same outcome of a merge
\* when they exchange their copies at any moment.
THEOREM MergesAgree == SidesSpec => []MergeIsSymmetric
<1>1. SidesTypeOK => MergeIsSymmetric
  <2> SUFFICES ASSUME SidesTypeOK PROVE SymmetricMerge(base, side[1], side[2])
    BY DEF MergeIsSymmetric
  <2>1. 1 \in Devices /\ 2 \in Devices /\ 3 - 1 = 2
    BY DEF Devices
  <2>2. /\ side[1].at \in Nat /\ side[2].at \in Nat
        /\ side[1].device \in Nat /\ side[2].device \in Nat
        /\ side[1].device # side[2].device
        /\ side[1].doc.usage \in Nat /\ side[2].doc.usage \in Nat
        /\ side[1].doc.version \in Nat /\ side[2].doc.version \in Nat
    BY <2>1, TwoSides
  <2> QED BY <2>2, MergeSymmetry
<1> QED BY SidesTypeInv, <1>1, PTL

\* No merge loses a body that one of the devices wrote, nor a change that only
\* one of them made.
THEOREM MergesKeepEdits == SidesSpec => []EditsSurvive
<1>1. SidesTypeOK => EditsSurvive
  BY BodiesLemma, OneSidedLemma DEF EditsSurvive
<1> QED BY SidesTypeInv, <1>1, PTL

\* Merging the outcome with the same remote copy again changes nothing and asks
\* for no further conflict copy: the exchange ends.
THEOREM MergesSettle == SidesSpec => []MergeSettles
  BY SidesTypeInv, SettlesLemma, PTL

-----------------------------------------------------------------------------
\* The inductive invariant, part by part.  R is a device's replica, t its
\* round, d the device and files the streams.

\* The queue has one row per id; ids name the device and count its records.
IdsCounted(R, d) ==
  /\ IsFiniteSet(R.queue)
  /\ \A q \in R.queue : q.id[1] = d /\ q.id[2] <= R.minted
  /\ \A p, q \in R.queue : p.id = q.id => p = q

Fit(R, d) == R \in Replica /\ IdsCounted(R, d)

\* Some stream has this state of entity e.
Carries(files_, e, doc) ==
  \E s \in Device : \E n \in 1..Len(files_[s]) :
    files_[s][n].entity = e /\ files_[s][n].doc = doc

AppliedCarried(R, files_) ==
  \A q \in R.queue : q.state = "applied" => Carries(files_, q.entity, q.doc)

\* The records of a batch were queued, and the queue has not changed them.
BatchQueued(R, batch) ==
  \A i \in DOMAIN batch :
    /\ batch[i].id[2] <= R.minted
    /\ \A p \in R.queue : p.id = batch[i].id =>
         p.entity = batch[i].entity /\ p.doc = batch[i].doc

\* A round follows the streams of others, applies a record that is there, and
\* publishes without leaving a gap; what it marks next is in a stream.
RoundFits(R, t, d, files_) ==
  /\ t.at \in {"pull", "apply"} => t.source # d /\ d \notin t.sources
  /\ t.at = "apply" => R.cursors[t.source] <= Len(files_[t.source])
  /\ t.at \in {"list", "publish", "bump"} => t.next <= Len(files_[d]) + 1
  /\ t.at = "mark" => /\ t.next <= Len(files_[d])
                      /\ Carries(files_, t.batch[1].entity, t.batch[1].doc)
  /\ t.at \in {"publish", "mark"} => t.batch # <<>> /\ BatchQueued(R, t.batch)

CountersFit(R, d, files_) ==
  /\ R.pushSeq \in 0..Len(files_[d])
  /\ \A s \in Device : R.cursors[s] \in 1..Len(files_[s]) + 1

DeviceFits(R, t, d, files_) ==
  /\ Fit(R, d)
  /\ CountersFit(R, d, files_)
  /\ AppliedCarried(R, files_)
  /\ RoundFits(R, t, d, files_)

\* Every stream holds the records of its own device.
StreamsOwned == \A s \in Device : \A n \in 1..Len(stream[s]) : stream[s][n].device = s

Counted ==
  /\ edits \in 0..MaxEdits /\ failures \in 0..MaxFailures
  /\ unapplied \subseteq Device \X Device \X (Nat \ {0})

\* TypeOK, with the streams as sequences.
StateTyped ==
  /\ stream \in [Device -> Seq(RecordFile)]
  /\ head \in [Device -> Nat \ {0}]
  /\ \A d \in Device : head[d] <= Len(stream[d]) + 1
  /\ replica \in [Device -> Replica]
  /\ round \in [Device -> Round]
  /\ Counted

Inv ==
  /\ StateTyped
  /\ StreamsOwned
  /\ \A d \in Device : DeviceFits(replica[d], round[d], d, stream)

-----------------------------------------------------------------------------
\* The operators the replica is built from.

LEMMA EntitiesFinite ==
  /\ IsFiniteSet(Entities)
  /\ Snippet \in Entities
  /\ \A d \in Device, n \in 1..MaxCopies : Copy(d, n) \in Entities
<1> DEFINE places == Device \X (1..MaxCopies)
           named == {Copy(d, n) : d \in Device, n \in 1..MaxCopies}
           f == [p \in places |-> Copy(p[1], p[2])]
<1>1. IsFiniteSet(Device) /\ MaxCopies \in Nat
  BY StreamsAssumption
<1>2. IsFiniteSet(1..MaxCopies)
  BY <1>1, UpTo
<1>3. IsFiniteSet(places)
  BY <1>1, <1>2, FS_Product
<1>4. f \in Surjection(places, named)
  <2>1. f \in [places -> named]
    OBVIOUS
  <2>2. ASSUME NEW t \in named PROVE \E p \in places : f[p] = t
    <3>1. PICK d \in Device, n \in 1..MaxCopies : t = Copy(d, n)
      OBVIOUS
    <3>2. <<d, n>> \in places /\ f[<<d, n>>] = t
      BY <3>1
    <3> QED BY <3>2
  <2> QED BY <2>1, <2>2 DEF Surjection
<1>5. IsFiniteSet(named)
  BY <1>3, <1>4, FS_Surjection
<1> QED BY <1>5, FS_AddElement DEF Entities

\* The next version of an entity is a version.
LEMMA NextVersionIsVersion ==
  ASSUME NEW R \in Replica, IsFiniteSet(R.queue), NEW e \in Entities
  PROVE  NextVersion(R, e) \in Nat \ {0}
<1> DEFINE mine == QueueOf(R, e)
           versions == {q.version : q \in mine}
           f == [q \in mine |-> q.version]
           all == {R.shadow[e].version} \cup versions
<1>1. IsFiniteSet(mine) /\ \A q \in mine : q.version \in Nat
  BY FS_Subset DEF QueueOf, Replica, QueueRow
<1>2. f \in Surjection(mine, versions)
  BY DEF Surjection
<1>3. IsFiniteSet(versions) /\ versions \in SUBSET Nat
  BY <1>1, <1>2, FS_Surjection
<1>4. R.shadow[e].version \in Nat
  BY DEF Replica
<1>5. IsFiniteSet(all) /\ all \in SUBSET Nat /\ all # {}
  <2>1. all = versions \cup {R.shadow[e].version} /\ all # {}
    OBVIOUS
  <2>2. IsFiniteSet(versions \cup {R.shadow[e].version})
    BY <1>3, FS_AddElement
  <2> QED BY <1>3, <1>4, <2>1, <2>2
<1>6. Max(all) \in Nat
  BY <1>5, MaxIsLargest
<1>7. NextVersion(R, e) = Max(all) + 1
  BY DEF NextVersion
<1> HIDE DEF all
<1> QED BY <1>6, <1>7

-----------------------------------------------------------------------------
\* What the operations on a replica do to its queue.

\* Row p of a later queue was queued since, or it is a row of R's queue that
\* did not become sent, unless its id is among ids.
Stems(R, p, ids) ==
  \/ p.id[2] > R.minted /\ p.state # "applied"
  \/ \E q \in R.queue :
       /\ p.id = q.id /\ p.entity = q.entity /\ p.doc = q.doc
       /\ p.state = "applied" => q.state = "applied" \/ q.id \in ids

Evolves(R, S, d, ids) ==
  /\ Fit(S, d)
  /\ S.minted >= R.minted
  /\ S.cursors = R.cursors /\ S.pushSeq = R.pushSeq
  /\ \A p \in S.queue : Stems(R, p, ids)

LEMMA EvolvesTransitive ==
  ASSUME NEW d, NEW ids, NEW R, NEW S, NEW T,
         Fit(R, d), Evolves(R, S, d, ids), Evolves(S, T, d, {})
  PROVE  Evolves(R, T, d, ids)
<1>1. R.minted \in Nat /\ S.minted \in Nat /\ T.minted \in Nat
  BY DEF Evolves, Fit, Replica
<1>2. T.minted >= R.minted
  BY <1>1 DEF Evolves
<1>3. ASSUME NEW p \in T.queue PROVE Stems(R, p, ids)
  <2>1. p.id[2] \in Nat
    BY DEF Evolves, Fit, Replica, QueueRow
  <2>2. CASE p.id[2] > S.minted /\ p.state # "applied"
    <3>1. p.id[2] > R.minted
      BY <1>1, <2>1, <2>2 DEF Evolves
    <3> QED BY <2>2, <3>1 DEF Stems
  <2>3. CASE \E q \in S.queue : /\ p.id = q.id /\ p.entity = q.entity /\ p.doc = q.doc
                                /\ p.state = "applied" => q.state = "applied"
    <3>1. PICK q \in S.queue : /\ p.id = q.id /\ p.entity = q.entity /\ p.doc = q.doc
                               /\ p.state = "applied" => q.state = "applied"
      BY <2>3
    <3>2. Stems(R, q, ids)
      BY DEF Evolves
    <3> QED BY <3>1, <3>2 DEF Stems
  <2> QED BY <2>2, <2>3 DEF Evolves, Stems
<1> QED BY <1>2, <1>3 DEF Evolves

\* The queue and the counters are as they were.
SameQueue(R, S) ==
  /\ S \in Replica
  /\ S.queue = R.queue /\ S.minted = R.minted
  /\ S.cursors = R.cursors /\ S.pushSeq = R.pushSeq

LEMMA SameQueueEvolves ==
  ASSUME NEW d, NEW ids, NEW R, NEW S, Fit(R, d), SameQueue(R, S)
  PROVE  Evolves(R, S, d, ids)
<1>1. R.minted \in Nat /\ R.minted >= R.minted
  BY DEF Fit, Replica
<1> QED BY <1>1 DEF Fit, SameQueue, Evolves, IdsCounted, Stems

LEMMA ApplyDocumentSame ==
  ASSUME NEW R \in Replica, NEW e \in Entities, NEW doc \in Doc
  PROVE  LET S == ApplyDocument(R, e, doc)
         IN  SameQueue(R, S) /\ S.shadow = R.shadow /\ S.copies = R.copies
BY DEF SameQueue, ApplyDocument, Replica

LEMMA ApplyTombstoneSame ==
  ASSUME NEW R \in Replica, NEW e \in Entities
  PROVE  LET S == ApplyTombstone(R, e)
         IN  SameQueue(R, S) /\ S.shadow = R.shadow /\ S.copies = R.copies
<1>1. CASE Live(R, e)
  <2>1. R.row[e] \in Doc
    BY <1>1 DEF Live, Replica
  <2> DEFINE doc == [R.row[e] EXCEPT !.deleted = TRUE]
  <2>2. doc \in Doc
    BY <2>1 DEF Doc
  <2>3. ApplyTombstone(R, e) = [R EXCEPT !.row[e] = doc]
    BY <1>1 DEF ApplyTombstone
  <2> HIDE DEF doc
  <2>4. [R.row EXCEPT ![e] = doc] \in [Entities -> Doc \cup {NoRow}]
    BY <2>2 DEF Replica
  <2>5. ApplyTombstone(R, e) = [R EXCEPT !.row = [R.row EXCEPT ![e] = doc]]
    BY <2>3
  <2> QED BY <2>4, <2>5 DEF SameQueue, Replica
<1>2. CASE ~Live(R, e)
  BY <1>2 DEF SameQueue, ApplyTombstone
<1> QED BY <1>1, <1>2

LEMMA PreserveHistorySame ==
  ASSUME NEW R \in Replica, NEW e \in Entities
  PROVE  LET S == PreserveHistory(R, e)
         IN  SameQueue(R, S) /\ S.shadow = R.shadow /\ S.copies = R.copies
<1>1. CASE R.row[e] = NoRow
  BY <1>1 DEF SameQueue, PreserveHistory
<1>2. CASE R.row[e] # NoRow
  <2>1. R.row[e].body \in 0..MaxEdits
    BY <1>2 DEF Replica, Doc
  <2> QED BY <1>2, <2>1 DEF SameQueue, PreserveHistory, Replica
<1> QED BY <1>1, <1>2

LEMMA PutShadowSame ==
  ASSUME NEW R \in Replica, NEW e \in Entities, NEW v \in Nat, NEW doc \in Doc \cup {Tomb}
  PROVE  LET S == PutShadow(R, e, v, doc)
         IN  /\ SameQueue(R, S) /\ S.row = R.row /\ S.copies = R.copies
             /\ S.shadow[e].version = v
<1> DEFINE s == [version |-> v, doc |-> IF doc = Tomb THEN NoDoc ELSE doc]
           S == [R EXCEPT !.shadow[e] = s]
<1>1. s \in [version : Nat, doc : Doc \cup {NoDoc}] /\ s.version = v
  OBVIOUS
<1>2. PutShadow(R, e, v, doc) = S
  BY DEF PutShadow
<1>3. R.shadow \in [Entities -> [version : Nat, doc : Doc \cup {NoDoc}]]
  BY DEF Replica
<1> HIDE DEF s
<1>4. SameQueue(R, S) /\ S.row = R.row /\ S.copies = R.copies
  BY <1>1, <1>3 DEF SameQueue, Replica
<1>5. S.shadow[e] = s
  BY <1>3 DEF Replica
<1> HIDE DEF S
<1> QED BY <1>1, <1>2, <1>4, <1>5

LEMMA ClearConflictsEvolves ==
  ASSUME NEW d, NEW R, Fit(R, d), NEW e
  PROVE  LET S == ClearConflicts(R, e)
         IN  /\ Evolves(R, S, d, {}) /\ S.row = R.row
             /\ S.shadow = R.shadow /\ S.copies = R.copies
<1> DEFINE S == ClearConflicts(R, e)
<1>1. /\ S \in Replica /\ S.row = R.row /\ S.shadow = R.shadow
      /\ S.minted = R.minted /\ S.cursors = R.cursors /\ S.pushSeq = R.pushSeq
      /\ S.copies = R.copies
      /\ S.queue = {q \in R.queue : ~(q.entity = e /\ q.state = "conflict")}
  BY DEF ClearConflicts, Replica, Fit
<1> HIDE DEF S
<1>2. S.queue \in SUBSET R.queue /\ IsFiniteSet(S.queue)
  <2>1. S.queue \in SUBSET R.queue /\ IsFiniteSet(R.queue)
    BY <1>1 DEF Fit, IdsCounted
  <2> QED BY <2>1, FS_Subset
<1>3. S.minted \in Nat /\ S.minted >= R.minted
  BY <1>1 DEF Replica
<1>4. Evolves(R, S, d, {})
  BY <1>1, <1>2, <1>3 DEF Evolves, Fit, IdsCounted, Stems
<1> QED BY <1>1, <1>4 DEF S

\* Rows of the queue change their state; the rows that become sent are those
\* of the ids.
LEMMA SetStateEvolves ==
  ASSUME NEW d, NEW ids, NEW R, Fit(R, d), NEW rows \in SUBSET R.queue,
         NEW state \in {"pending", "conflict", "applied"},
         state = "applied" => \A q \in rows : q.id \in ids
  PROVE  LET S == SetState(R, rows, state)
         IN  /\ Evolves(R, S, d, ids) /\ S.row = R.row
             /\ S.shadow = R.shadow /\ S.copies = R.copies
<1> DEFINE S == SetState(R, rows, state)
           moved == {[q EXCEPT !.state = state] : q \in rows}
<1>1. R \in Replica /\ R.queue \in SUBSET QueueRow /\ IsFiniteSet(R.queue)
  BY DEF Fit, Replica, IdsCounted
<1>2. ASSUME NEW q \in rows
      PROVE  LET p == [q EXCEPT !.state = state]
             IN  /\ p \in QueueRow /\ p.id = q.id /\ p.entity = q.entity
                 /\ p.doc = q.doc /\ p.state = state
  BY <1>1 DEF QueueRow
<1>3. moved \in SUBSET QueueRow
  BY <1>2
<1>4. \A p \in moved : \E q \in rows :
        p = [q EXCEPT !.state = state] /\ p.id = q.id /\ p.entity = q.entity
        /\ p.doc = q.doc /\ p.state = state
  BY <1>2
<1>5. IsFiniteSet(moved)
  <2> DEFINE f == [q \in rows |-> [q EXCEPT !.state = state]]
  <2>1. IsFiniteSet(rows)
    BY <1>1, FS_Subset
  <2>2. f \in Surjection(rows, moved)
    BY DEF Surjection
  <2> HIDE DEF f, moved
  <2> QED BY <2>1, <2>2, FS_Surjection
<1>6. S = [R EXCEPT !.queue = (R.queue \ rows) \cup moved]
  BY <1>1 DEF SetState
<1> HIDE DEF S, moved
<1>7. /\ S \in Replica /\ S.row = R.row /\ S.shadow = R.shadow
      /\ S.minted = R.minted /\ S.cursors = R.cursors /\ S.pushSeq = R.pushSeq
      /\ S.copies = R.copies /\ S.queue = (R.queue \ rows) \cup moved
  <2>1. (R.queue \ rows) \cup moved \in SUBSET QueueRow
    BY <1>1, <1>3
  <2> QED BY <1>1, <1>6, <2>1 DEF Replica
<1>8. IsFiniteSet(S.queue)
  <2>1. IsFiniteSet(R.queue \ rows)
    BY <1>1, FS_Subset
  <2> QED BY <1>5, <1>7, <2>1, FS_Union
<1>9. \A p \in S.queue : Stems(R, p, ids)
  <2>1. ASSUME NEW p \in R.queue PROVE Stems(R, p, ids)
    BY DEF Stems
  <2>2. ASSUME NEW p \in moved PROVE Stems(R, p, ids)
    BY <1>4 DEF Stems
  <2> QED BY <1>7, <2>1, <2>2
<1>10. ASSUME NEW p \in S.queue, NEW q \in S.queue, p.id = q.id PROVE p = q
  <2>1. CASE p \in moved /\ q \in moved
    <3>1. PICK p0 \in rows : p = [p0 EXCEPT !.state = state] /\ p.id = p0.id
      BY <1>4, <2>1
    <3>2. PICK q0 \in rows : q = [q0 EXCEPT !.state = state] /\ q.id = q0.id
      BY <1>4, <2>1
    <3>3. p0 = q0
      BY <1>10, <3>1, <3>2 DEF Fit, IdsCounted
    <3> QED BY <3>1, <3>2, <3>3
  <2>2. CASE p \in moved /\ q \notin moved
    <3>1. PICK p0 \in rows : p.id = p0.id
      BY <1>4, <2>2
    <3>2. q \in R.queue /\ q \notin rows
      BY <1>7, <2>2
    <3> QED BY <1>10, <3>1, <3>2 DEF Fit, IdsCounted
  <2>3. CASE p \notin moved /\ q \in moved
    <3>1. PICK q0 \in rows : q.id = q0.id
      BY <1>4, <2>3
    <3>2. p \in R.queue /\ p \notin rows
      BY <1>7, <2>3
    <3> QED BY <1>10, <3>1, <3>2 DEF Fit, IdsCounted
  <2>4. CASE p \notin moved /\ q \notin moved
    BY <1>7, <1>10, <2>4 DEF Fit, IdsCounted
  <2> QED BY <2>1, <2>2, <2>3, <2>4
<1>11. \A q \in S.queue : q.id[1] = d /\ q.id[2] <= S.minted
  <2>1. ASSUME NEW q \in moved PROVE q.id[1] = d /\ q.id[2] <= R.minted
    <3>1. PICK q0 \in rows : q.id = q0.id
      BY <1>4
    <3> QED BY <3>1 DEF Fit, IdsCounted
  <2> QED BY <1>7, <2>1 DEF Fit, IdsCounted
<1>12. S.minted \in Nat /\ S.minted >= R.minted
  BY <1>7 DEF Replica
<1>13. Evolves(R, S, d, ids)
  BY <1>7, <1>8, <1>9, <1>10, <1>11, <1>12 DEF Evolves, Fit, IdsCounted
<1> QED BY <1>7, <1>13 DEF S
\* The queue gets new records, pending and with ids of their own.
QueueGrows(R, S, d, new) ==
  /\ S \in Replica
  /\ S.row = R.row /\ S.shadow = R.shadow /\ S.copies = R.copies
  /\ S.cursors = R.cursors /\ S.pushSeq = R.pushSeq
  /\ S.queue = R.queue \cup new /\ S.minted >= R.minted
  /\ IsFiniteSet(new)
  /\ \A q \in new : /\ q.state = "pending" /\ q.id[1] = d
                    /\ q.id[2] > R.minted /\ q.id[2] <= S.minted
  /\ \A p, q \in new : p.id = q.id => p = q

LEMMA GrownEvolves ==
  ASSUME NEW d, NEW R, Fit(R, d), NEW S, NEW new, QueueGrows(R, S, d, new)
  PROVE  Evolves(R, S, d, {})
<1>1. /\ R.minted \in Nat /\ S.minted \in Nat
      /\ \A q \in S.queue : q.id[2] \in Nat
  BY DEF Fit, QueueGrows, Replica, QueueRow
<1>2. IsFiniteSet(S.queue)
  <2>1. IsFiniteSet(R.queue) /\ IsFiniteSet(new) /\ S.queue = R.queue \cup new
    BY DEF Fit, IdsCounted, QueueGrows
  <2> QED BY <2>1, FS_Union
<1>3. ASSUME NEW p \in S.queue PROVE p.id[1] = d /\ p.id[2] <= S.minted
  <2>1. CASE p \in new
    BY <2>1 DEF QueueGrows
  <2>2. CASE p \in R.queue
    BY <1>1, <2>2 DEF Fit, IdsCounted, QueueGrows
  <2> QED BY <2>1, <2>2 DEF QueueGrows
<1>4. ASSUME NEW p \in S.queue, NEW q \in S.queue, p.id = q.id PROVE p = q
  <2>1. CASE p \in R.queue /\ q \in R.queue
    BY <1>4, <2>1 DEF Fit, IdsCounted
  <2>2. CASE p \in new /\ q \in new
    BY <1>4, <2>2 DEF QueueGrows
  <2>3. ASSUME NEW a \in R.queue, NEW b \in new, a.id = b.id PROVE FALSE
    <3>1. a.id[2] <= R.minted /\ b.id[2] > R.minted
      BY DEF Fit, IdsCounted, QueueGrows
    <3>2. a.id[2] \in Nat
      BY <1>1 DEF QueueGrows
    <3> QED BY <1>1, <2>3, <3>1, <3>2
  <2> QED BY <1>4, <2>1, <2>2, <2>3 DEF QueueGrows
<1>5. ASSUME NEW p \in S.queue PROVE Stems(R, p, {})
  <2>1. CASE p \in new
    BY <2>1 DEF QueueGrows, Stems
  <2>2. CASE p \in R.queue
    BY <2>2 DEF Stems
  <2> QED BY <2>1, <2>2 DEF QueueGrows
<1> QED BY <1>2, <1>3, <1>4, <1>5 DEF Evolves, Fit, IdsCounted, QueueGrows

LEMMA EnqueueEvolves ==
  ASSUME NEW d \in Device, NEW R, Fit(R, d), NEW e \in Entities,
         NEW doc \in Doc \cup {Tomb}, NEW now \in Now
  PROVE  LET S == Enqueue(R, d, e, doc, now)
         IN  /\ Evolves(R, S, d, {}) /\ S.row = R.row
             /\ S.shadow = R.shadow /\ S.copies = R.copies
<1> DEFINE S == Enqueue(R, d, e, doc, now)
           q == NewRecord(R, d, R.minted + 1, e, doc, now)
<1>1. R \in Replica /\ R.minted \in Nat /\ NextVersion(R, e) \in Nat \ {0}
  BY NextVersionIsVersion DEF Fit, IdsCounted, Replica
<1>2. q \in QueueRow /\ q.state = "pending" /\ q.id = <<d, R.minted + 1>>
  BY <1>1 DEF NewRecord, QueueRow
<1>3. S = [R EXCEPT !.queue = @ \cup {q}, !.minted = @ + 1]
  BY DEF Enqueue
<1> HIDE DEF q, S
<1>4. /\ S \in Replica /\ S.row = R.row /\ S.queue = R.queue \cup {q}
      /\ S.shadow = R.shadow /\ S.minted = R.minted + 1 /\ S.copies = R.copies
      /\ S.cursors = R.cursors /\ S.pushSeq = R.pushSeq
  <2>1. R.queue \cup {q} \in SUBSET QueueRow /\ R.minted + 1 \in Nat
    BY <1>1, <1>2 DEF Replica
  <2> QED BY <1>1, <1>3, <2>1 DEF Replica
<1>5. IsFiniteSet({q})
  BY FS_Singleton
<1>6. q.id[1] = d /\ q.id[2] = R.minted + 1
  BY <1>2
<1>7. R.minted + 1 > R.minted /\ R.minted + 1 >= R.minted /\ R.minted + 1 <= R.minted + 1
  BY <1>1
<1>8. QueueGrows(R, S, d, {q})
  BY <1>2, <1>4, <1>5, <1>6, <1>7 DEF QueueGrows
<1> QED BY <1>4, <1>8, GrownEvolves DEF S

LEMMA EnqueueRowEvolves ==
  ASSUME NEW d \in Device, NEW R, Fit(R, d), NEW e \in Entities, NEW now \in Now
  PROVE  LET S == EnqueueRow(R, d, e, now)
         IN  /\ Evolves(R, S, d, {}) /\ S.row = R.row
             /\ S.shadow = R.shadow /\ S.copies = R.copies
<1>1. CASE R.row[e] = NoRow
  <2>1. EnqueueRow(R, d, e, now) = R
    BY <1>1 DEF EnqueueRow
  <2>2. SameQueue(R, R)
    BY DEF SameQueue, Fit
  <2> QED BY <2>1, <2>2, SameQueueEvolves
<1>2. CASE R.row[e] # NoRow
  <2>1. PICK doc \in Doc \cup {Tomb} : doc = R.row[e]
    BY <1>2 DEF Fit, Replica
  <2>2. EnqueueRow(R, d, e, now) = Enqueue(R, d, e, doc, now)
    BY <1>2, <2>1 DEF EnqueueRow
  <2> QED BY <2>2, EnqueueEvolves
<1> QED BY <1>1, <1>2

\* What follows a write of something else than the queue.
LEMMA SameThenEvolves ==
  ASSUME NEW d, NEW R, NEW S, NEW T, Fit(R, d), Evolves(R, S, d, {}), SameQueue(S, T)
  PROVE  Evolves(R, T, d, {}) /\ Fit(T, d)
<1>1. Fit(S, d)
  BY DEF Evolves
<1>2. Evolves(S, T, d, {})
  BY <1>1, SameQueueEvolves
<1> QED BY <1>2, EvolvesTransitive DEF Evolves

LEMMA ConflictHeadIsParked ==
  ASSUME NEW R \in Replica, IsFiniteSet(R.queue), NEW e, Parked(R, e)
  PROVE  LET q == ConflictHead(R, e)
         IN  q \in R.queue /\ q.entity = e /\ q.state = "conflict"
<1> DEFINE rows == {q \in QueueOf(R, e) : q.state = "conflict"}
<1>1. rows # {} /\ rows \in SUBSET R.queue
  BY DEF Parked, QueueOf
<1>2. IsFiniteSet(rows) /\ \A q \in rows : q.version \in Nat
  BY <1>1, FS_Subset DEF Replica, QueueRow
<1>3. \E q \in rows : \A p \in rows : p.version <= q.version
  BY <1>1, <1>2, NewestExists
<1>4. Newest(rows) \in rows
  BY <1>3 DEF Newest
<1> QED BY <1>4 DEF ConflictHead, QueueOf

\* A record is applied: the shadow is at its version.
Settles(R, S, d, r) ==
  Evolves(R, S, d, {}) /\ S.shadow[r.entity].version = r.version

LEMMA RecordTyped ==
  ASSUME NEW r \in RecordFile
  PROVE  /\ r.entity \in Entities /\ r.version \in Nat \ {0} /\ r.doc \in Doc \cup {Tomb}
         /\ r.at \in Now \cup {0} /\ r.device \in Device
BY DEF RecordFile

LEMMA ApplyOpenedSettles ==
  ASSUME NEW d, NEW R, Fit(R, d), NEW r \in RecordFile
  PROVE  Settles(R, ApplyOpened(R, r), d, r)
<1> DEFINE T == IF r.doc = Tomb THEN ApplyTombstone(R, r.entity)
                                ELSE ApplyDocument(R, r.entity, r.doc)
           S == PutShadow(T, r.entity, r.version, r.doc)
<1>1. r.entity \in Entities /\ r.doc \in Doc \cup {Tomb} /\ R \in Replica
  BY RecordTyped DEF Fit
<1>2. SameQueue(R, T)
  <2>1. CASE r.doc = Tomb
    BY <1>1, <2>1, ApplyTombstoneSame
  <2>2. CASE r.doc # Tomb
    <3>1. r.doc \in Doc
      BY <1>1, <2>2
    <3> QED BY <1>1, <2>2, <3>1, ApplyDocumentSame
  <2> QED BY <2>1, <2>2
<1>3. ApplyOpened(R, r) = S
  BY DEF ApplyOpened
<1> HIDE DEF T
<1>4. Evolves(R, T, d, {}) /\ T \in Replica
  BY <1>2, SameQueueEvolves DEF SameQueue
<1>5. SameQueue(T, S) /\ S.shadow[r.entity].version = r.version
  BY <1>4, RecordTyped, PutShadowSame
<1> HIDE DEF S
<1> QED BY <1>3, <1>4, <1>5, SameThenEvolves DEF Settles

LEMMA AdoptTombstoneSettles ==
  ASSUME NEW d, NEW R, Fit(R, d), NEW r \in RecordFile
  PROVE  Settles(R, AdoptTombstone(R, r), d, r)
<1> DEFINE e == r.entity
           T == IF ConflictHead(R, e).doc = Tomb THEN R ELSE PreserveHistory(R, e)
           U == ApplyTombstone(T, e)
           V == PutShadow(U, e, r.version, Tomb)
           S == ClearConflicts(V, e)
<1>1. AdoptTombstone(R, r) = S
  BY DEF AdoptTombstone
<1>2. e \in Entities /\ R \in Replica /\ r.version \in Nat
  BY RecordTyped DEF Fit
<1>3. SameQueue(R, T)
  <2>1. SameQueue(R, R)
    BY <1>2 DEF SameQueue
  <2>2. SameQueue(R, PreserveHistory(R, e))
    BY <1>2, PreserveHistorySame
  <2> QED BY <2>1, <2>2
<1> HIDE DEF T
<1>4. Evolves(R, T, d, {}) /\ T \in Replica
  BY <1>3, SameQueueEvolves DEF SameQueue
<1>5. SameQueue(T, U)
  BY <1>2, <1>4, ApplyTombstoneSame
<1> HIDE DEF U
<1>6. Evolves(R, U, d, {}) /\ U \in Replica
  BY <1>4, <1>5, SameThenEvolves DEF SameQueue
<1>7. SameQueue(U, V) /\ V.shadow[e].version = r.version
  BY <1>2, <1>6, PutShadowSame
<1> HIDE DEF V
<1>8. Evolves(R, V, d, {}) /\ Fit(V, d)
  BY <1>6, <1>7, SameThenEvolves
<1>9. Evolves(V, S, d, {}) /\ S.shadow = V.shadow
  BY <1>8, ClearConflictsEvolves
<1> HIDE DEF S
<1>10. Evolves(R, S, d, {})
  BY <1>8, <1>9, EvolvesTransitive
<1> QED BY <1>1, <1>7, <1>9, <1>10 DEF Settles

LEMMA KeepTombstoneSettles ==
  ASSUME NEW d \in Device, NEW R, Fit(R, d), NEW r \in RecordFile, r.doc # Tomb,
         NEW now \in Now
  PROVE  Settles(R, KeepTombstone(R, d, r, now), d, r)
<1> DEFINE e == r.entity
           T == ApplyDocument(R, e, r.doc)
           H == PreserveHistory(T, e)
           U == ApplyTombstone(H, e)
           V == PutShadow(U, e, r.version, r.doc)
           W == ClearConflicts(V, e)
           S == Enqueue(W, d, e, Tomb, now)
<1>1. KeepTombstone(R, d, r, now) = S
  BY DEF KeepTombstone
<1>2. e \in Entities /\ R \in Replica /\ r.version \in Nat /\ r.doc \in Doc
  BY RecordTyped DEF Fit
<1>3. SameQueue(R, T)
  BY <1>2, ApplyDocumentSame
<1> HIDE DEF T
<1>4. Evolves(R, T, d, {}) /\ T \in Replica
  BY <1>3, SameQueueEvolves DEF SameQueue
<1>5. SameQueue(T, H)
  BY <1>2, <1>4, PreserveHistorySame
<1> HIDE DEF H
<1>6. Evolves(R, H, d, {}) /\ H \in Replica
  BY <1>4, <1>5, SameThenEvolves DEF SameQueue
<1>7. SameQueue(H, U)
  BY <1>2, <1>6, ApplyTombstoneSame
<1> HIDE DEF U
<1>8. Evolves(R, U, d, {}) /\ U \in Replica
  BY <1>6, <1>7, SameThenEvolves DEF SameQueue
<1>9. SameQueue(U, V) /\ V.shadow[e].version = r.version
  BY <1>2, <1>8, PutShadowSame
<1> HIDE DEF V
<1>10. Evolves(R, V, d, {}) /\ Fit(V, d)
  BY <1>8, <1>9, SameThenEvolves
<1>11. Evolves(V, W, d, {}) /\ W.shadow = V.shadow /\ Fit(W, d)
  BY <1>10, ClearConflictsEvolves DEF Evolves
<1> HIDE DEF W
<1>12. Evolves(W, S, d, {}) /\ S.shadow = W.shadow
  <2>1. Tomb \in Doc \cup {Tomb}
    OBVIOUS
  <2> QED BY <1>2, <1>11, <2>1, EnqueueEvolves
<1> HIDE DEF S
<1>13. Evolves(R, W, d, {})
  BY <1>10, <1>11, EvolvesTransitive
<1>14. Evolves(R, S, d, {})
  BY <1>12, <1>13, EvolvesTransitive
<1> QED BY <1>1, <1>9, <1>11, <1>12, <1>14 DEF Settles

\* A conflict copy is a new row and a new queued record.
LEMMA MakeCopyEvolves ==
  ASSUME NEW d \in Device, NEW R, Fit(R, d), R.copies < MaxCopies,
         NEW e, NEW local \in Doc, NEW now \in Now
  PROVE  LET S == MakeCopy(R, d, e, local, now)
         IN  Evolves(R, S, d, {}) /\ S.shadow = R.shadow
<1> DEFINE copy == Copy(d, R.copies + 1)
           doc == [local EXCEPT !.deleted = FALSE]
           T == ApplyDocument(R, copy, doc)
           U == [T EXCEPT !.copies = @ + 1]
           S == EnqueueRow(U, d, copy, now)
<1>1. MakeCopy(R, d, e, local, now) = S
  BY DEF MakeCopy
<1>2. R \in Replica /\ R.copies + 1 \in 1..MaxCopies /\ doc \in Doc
  <2>1. R \in Replica /\ MaxCopies \in Nat
    BY StreamsAssumption DEF Fit
  <2>2. R.copies \in 0..MaxCopies
    BY <2>1 DEF Replica
  <2>3. doc \in Doc
    BY DEF Doc
  <2> QED BY <2>1, <2>2, <2>3
<1>3. copy \in Entities
  BY <1>2, EntitiesFinite
<1> HIDE DEF copy, doc
<1>4. SameQueue(R, T) /\ T.shadow = R.shadow /\ T.copies = R.copies
  BY <1>2, <1>3, ApplyDocumentSame
<1> HIDE DEF T
<1>5. Evolves(R, T, d, {}) /\ T \in Replica
  BY <1>4, SameQueueEvolves DEF SameQueue
<1>6. SameQueue(T, U) /\ U.shadow = T.shadow
  <2>1. T.copies + 1 \in 0..MaxCopies
    BY <1>2, <1>4
  <2> QED BY <1>5, <2>1 DEF SameQueue, Replica
<1> HIDE DEF U
<1>7. Evolves(R, U, d, {}) /\ Fit(U, d)
  BY <1>5, <1>6, SameThenEvolves
<1>8. Evolves(U, S, d, {}) /\ S.shadow = U.shadow
  BY <1>3, <1>7, EnqueueRowEvolves
<1> HIDE DEF S
<1>9. Evolves(R, S, d, {})
  BY <1>7, <1>8, EvolvesTransitive
<1> QED BY <1>1, <1>4, <1>6, <1>8, <1>9

\* The parts of MergeContent: the merged document, the replica with it and a
\* conflict copy where one is due, and what every merge ends with.
MergedDoc(R, d, r) ==
  LET e == r.entity
      synced == IF R.shadow[e].doc = NoDoc
                THEN [title |-> NoDoc, body |-> NoDoc, deleted |-> FALSE] ELSE R.shadow[e].doc
      local == R.row[e]
      localWins == Merge!LocalWins([at |-> ConflictHead(R, e).at, device |-> d],
                                   [at |-> r.at, device |-> r.device])
  IN  [title |-> Merge!Pick(synced.title, local.title, r.doc.title, localWins),
       body |-> Merge!MergedBody(synced.body, local.body, r.doc.body),
       deleted |-> Merge!Pick(synced.deleted, local.deleted, r.doc.deleted, localWins)]

BodiesDiffer(R, r) ==
  LET e == r.entity
      synced == IF R.shadow[e].doc = NoDoc
                THEN [title |-> NoDoc, body |-> NoDoc, deleted |-> FALSE] ELSE R.shadow[e].doc
  IN  Merge!BodyConflict(synced.body, R.row[e].body, r.doc.body)

MergedReplica(R, d, r, now) ==
  LET T == ApplyDocument(R, r.entity, MergedDoc(R, d, r))
  IN  IF BodiesDiffer(R, r) THEN MakeCopy(T, d, r.entity, R.row[r.entity], now) ELSE T

Finished(U, d, r, now) ==
  EnqueueRow(ClearConflicts(PutShadow(U, r.entity, r.version, r.doc), r.entity),
             d, r.entity, now)

LEMMA MergeContentIs ==
  ASSUME NEW R, NEW d, NEW r, NEW now
  PROVE  MergeContent(R, d, r, now) =
           IF R.row[r.entity] = NoRow THEN ClearConflicts(ApplyOpened(R, r), r.entity)
           ELSE Finished(MergedReplica(R, d, r, now), d, r, now)
BY DEF MergeContent, Finished, MergedReplica, BodiesDiffer, MergedDoc

LEMMA MergedDocTyped ==
  ASSUME NEW R \in Replica, NEW d, NEW r, r.entity \in Entities, r.doc \in Doc,
         R.row[r.entity] # NoRow
  PROVE  MergedDoc(R, d, r) \in Doc
<1> DEFINE local == R.row[r.entity]
           doc == MergedDoc(R, d, r)
<1>1. local \in Doc
  BY DEF Replica
<1>2. /\ doc = [title |-> doc.title, body |-> doc.body, deleted |-> doc.deleted]
      /\ doc.title \in {local.title, r.doc.title}
      /\ doc.body \in {local.body, r.doc.body}
      /\ doc.deleted \in {local.deleted, r.doc.deleted}
  BY DEF MergedDoc, Merge!Pick, Merge!MergedBody
<1> HIDE DEF doc, local
<1>3. doc \in Doc
  BY <1>1, <1>2 DEF Doc
<1> QED BY <1>3 DEF doc

LEMMA FinishedSettles ==
  ASSUME NEW d \in Device, NEW R, Fit(R, d), NEW r \in RecordFile, NEW now \in Now
  PROVE  Settles(R, Finished(R, d, r, now), d, r)
<1> DEFINE e == r.entity
           V == PutShadow(R, e, r.version, r.doc)
           W == ClearConflicts(V, e)
           S == EnqueueRow(W, d, e, now)
<1>1. /\ Finished(R, d, r, now) = S /\ R \in Replica
      /\ e \in Entities /\ r.version \in Nat /\ r.doc \in Doc \cup {Tomb}
  BY RecordTyped DEF Finished, Fit
<1>2. SameQueue(R, V) /\ V.shadow[e].version = r.version
  BY <1>1, PutShadowSame
<1> HIDE DEF V
<1>3. Evolves(R, V, d, {}) /\ Fit(V, d)
  BY <1>2, SameQueueEvolves DEF Evolves
<1>4. Evolves(V, W, d, {}) /\ W.shadow = V.shadow /\ Fit(W, d)
  BY <1>3, ClearConflictsEvolves DEF Evolves
<1> HIDE DEF W
<1>5. Evolves(W, S, d, {}) /\ S.shadow = W.shadow
  BY <1>1, <1>4, EnqueueRowEvolves
<1> HIDE DEF S
<1>6. Evolves(R, W, d, {})
  BY <1>3, <1>4, EvolvesTransitive
<1>7. Evolves(R, S, d, {})
  BY <1>5, <1>6, EvolvesTransitive
<1> QED BY <1>1, <1>2, <1>4, <1>5, <1>7 DEF Settles

LEMMA MergeContentSettles ==
  ASSUME NEW d \in Device, NEW R, Fit(R, d), R.copies < MaxCopies,
         NEW r \in RecordFile, r.doc # Tomb, NEW now \in Now
  PROVE  Settles(R, MergeContent(R, d, r, now), d, r)
<1> DEFINE e == r.entity
<1>1. e \in Entities /\ R \in Replica /\ r.doc \in Doc
  BY RecordTyped DEF Fit
<1>2. CASE R.row[e] = NoRow
  <2> DEFINE A == ApplyOpened(R, r)
             C == ClearConflicts(A, e)
  <2>1. MergeContent(R, d, r, now) = C
    BY <1>2, MergeContentIs
  <2>2. Evolves(R, A, d, {}) /\ Fit(A, d) /\ A.shadow[e].version = r.version
    BY ApplyOpenedSettles DEF Settles, Evolves
  <2> HIDE DEF A
  <2>3. Evolves(A, C, d, {}) /\ C.shadow = A.shadow
    BY <2>2, ClearConflictsEvolves
  <2> HIDE DEF C
  <2>4. Evolves(R, C, d, {})
    BY <2>2, <2>3, EvolvesTransitive
  <2> QED BY <2>1, <2>2, <2>3, <2>4 DEF Settles
<1>3. CASE R.row[e] # NoRow
  <2> DEFINE doc == MergedDoc(R, d, r)
             T == ApplyDocument(R, e, doc)
             U == MergedReplica(R, d, r, now)
             S == Finished(U, d, r, now)
  <2>1. MergeContent(R, d, r, now) = S
    BY <1>3, MergeContentIs
  <2>2. R.row[e] \in Doc /\ doc \in Doc
    BY <1>1, <1>3, MergedDocTyped DEF Replica
  <2>3. U = IF BodiesDiffer(R, r) THEN MakeCopy(T, d, e, R.row[e], now) ELSE T
    BY DEF MergedReplica
  <2> HIDE DEF doc
  <2>4. SameQueue(R, T) /\ T.copies = R.copies
    BY <1>1, <2>2, ApplyDocumentSame
  <2> HIDE DEF T, U, S
  <2>5. Evolves(R, T, d, {}) /\ Fit(T, d)
    BY <2>4, SameQueueEvolves DEF Evolves
  <2>6. Evolves(R, U, d, {}) /\ Fit(U, d)
    <3>1. CASE BodiesDiffer(R, r)
      <4>1. T.copies < MaxCopies
        BY <2>4
      <4>2. PICK local \in Doc : local = R.row[e]
        BY <2>2
      <4>3. U = MakeCopy(T, d, e, local, now)
        BY <2>3, <3>1, <4>2
      <4>4. Evolves(T, U, d, {})
        BY <2>5, <4>1, <4>3, MakeCopyEvolves
      <4> QED BY <2>5, <4>4, EvolvesTransitive DEF Evolves
    <3>2. CASE ~BodiesDiffer(R, r)
      BY <2>3, <2>5, <3>2
    <3> QED BY <3>1, <3>2
  <2>7. Settles(U, S, d, r)
    BY <2>6, FinishedSettles DEF S
  <2> QED BY <2>1, <2>6, <2>7, EvolvesTransitive DEF Settles
<1> QED BY <1>2, <1>3

\* Whatever is done with a record, unless its application fails it is accounted
\* for afterwards.
Known(S, r) ==
  S.shadow[r.entity].version >= r.version \/ HeldBack(S, r.entity)

LEMMA ApplyOneKnows ==
  ASSUME NEW d \in Device, NEW R, Fit(R, d), R.copies < MaxCopies,
         NEW r \in RecordFile, r.device # d, NEW now \in Now, NEW fails
  PROVE  /\ Evolves(R, ApplyOne(R, d, r, now, fails), d, {})
         /\ ~fails => Known(ApplyOne(R, d, r, now, fails), r)
<1>1. /\ R \in Replica /\ IsFiniteSet(R.queue)
      /\ r.entity \in Entities /\ r.version \in Nat /\ r.version >= r.version
      /\ R.shadow[r.entity].version \in Nat
  <2>1. r.entity \in Entities /\ r.version \in Nat
    BY RecordTyped
  <2>2. r.version >= r.version
    BY <2>1
  <2> QED BY <2>1, <2>2 DEF Fit, IdsCounted, Replica
<1>2. Evolves(R, R, d, {})
  <2>1. SameQueue(R, R)
    BY <1>1 DEF SameQueue
  <2> QED BY <2>1, SameQueueEvolves
<1>3. CASE Skips(R, d, r) \/ fails
  <2>1. ApplyOne(R, d, r, now, fails) = R
    BY <1>3 DEF ApplyOne
  <2>2. ~fails => R.shadow[r.entity].version >= r.version
    BY <1>1, <1>3 DEF Skips
  <2> QED BY <1>2, <2>1, <2>2 DEF Known
<1>4. CASE ~Skips(R, d, r) /\ ~fails /\ ~Parked(R, r.entity)
  <2>1. ApplyOne(R, d, r, now, fails) = ApplyOpened(R, r)
    BY <1>4 DEF ApplyOne
  <2> QED BY <1>1, <2>1, ApplyOpenedSettles DEF Settles, Known
<1>5. CASE ~Skips(R, d, r) /\ ~fails /\ Parked(R, r.entity)
  <2>1. ApplyOne(R, d, r, now, fails) = MergeConflicted(R, d, r, now)
    BY <1>5 DEF ApplyOne
  <2>2. CASE MergeFails(R, r)
    <3>1. LET q == ConflictHead(R, r.entity)
          IN  q \in R.queue /\ q.entity = r.entity /\ q.state = "conflict"
      BY <1>1, <1>5, ConflictHeadIsParked
    <3>2. HeldBack(R, r.entity)
      BY <2>2, <3>1 DEF MergeFails, HeldBack, QueueOf
    <3>3. ApplyOne(R, d, r, now, fails) = R
      BY <2>1, <2>2 DEF MergeConflicted
    <3> QED BY <1>2, <3>2, <3>3 DEF Known
  <2>3. CASE ~MergeFails(R, r)
    <3>1. Settles(R, ApplyOne(R, d, r, now, fails), d, r)
      <4>1. CASE r.doc = Tomb
        BY <2>1, <2>3, <4>1, AdoptTombstoneSettles DEF MergeConflicted
      <4>2. CASE r.doc # Tomb /\ ConflictHead(R, r.entity).doc = Tomb
        BY <2>1, <2>3, <4>2, KeepTombstoneSettles DEF MergeConflicted
      <4>3. CASE r.doc # Tomb /\ ConflictHead(R, r.entity).doc # Tomb
        <5>1. ApplyOne(R, d, r, now, fails) = MergeContent(R, d, r, now)
          BY <2>1, <2>3, <4>3 DEF MergeConflicted
        <5> QED BY <4>3, <5>1, MergeContentSettles
      <4> QED BY <4>1, <4>2, <4>3
    <3> QED BY <1>1, <3>1 DEF Settles, Known
  <2> QED BY <2>2, <2>3
<1> QED BY <1>3, <1>4, <1>5

\* The loser of a race takes the other document and makes a copy of its own.
LEMMA AdoptKnows ==
  ASSUME NEW d \in Device, NEW R, Fit(R, d), R.copies < MaxCopies,
         NEW r \in RecordFile, r.doc # Tomb, R.shadow[r.entity].doc # NoDoc, NEW now \in Now
  PROVE  Evolves(R, Adopt(R, d, r, now), d, {}) /\ Known(Adopt(R, d, r, now), r)
<1> DEFINE e == r.entity
           T == ApplyDocument(R, e, r.doc)
           V == PutShadow(T, e, r.version, r.doc)
<1>1. /\ R \in Replica /\ e \in Entities /\ r.version \in Nat /\ r.doc \in Doc
      /\ R.shadow[e].doc \in Doc
  BY RecordTyped DEF Fit, Replica
<1>2. SameQueue(R, T) /\ T.copies = R.copies
  BY <1>1, ApplyDocumentSame
<1>3. Evolves(R, T, d, {}) /\ T \in Replica
  BY <1>2, SameQueueEvolves DEF SameQueue
<1> HIDE DEF T
<1>4. SameQueue(T, V) /\ V.copies = T.copies /\ V.shadow[e].version = r.version
  BY <1>1, <1>3, PutShadowSame
<1>5. PICK local \in Doc : local = R.shadow[e].doc
  BY <1>1
<1> DEFINE S == MakeCopy(V, d, e, local, now)
<1>6. Adopt(R, d, r, now) = S
  BY <1>5 DEF Adopt, T
<1> HIDE DEF V
<1>7. Evolves(R, V, d, {}) /\ Fit(V, d) /\ V.copies < MaxCopies
  BY <1>2, <1>3, <1>4, SameThenEvolves
<1>8. Evolves(V, S, d, {}) /\ S.shadow = V.shadow
  BY <1>7, MakeCopyEvolves
<1> HIDE DEF S
<1>9. Evolves(R, S, d, {})
  BY <1>7, <1>8, EvolvesTransitive
<1>10. r.version >= r.version
  BY <1>1
<1> QED BY <1>4, <1>6, <1>8, <1>9, <1>10 DEF Known

LEMMA AcceptedEvolves ==
  ASSUME NEW d, NEW R, Fit(R, d), NEW q
  PROVE  Evolves(R, Accepted(R, q), d, {q.id})
<1> DEFINE rows == {p \in R.queue : p.id = q.id}
<1>1. rows \in SUBSET R.queue /\ \A p \in rows : p.id \in {q.id}
  OBVIOUS
<1>2. Accepted(R, q) = SetState(R, rows, "applied")
  BY DEF Accepted
<1> HIDE DEF rows
<1> QED BY <1>1, <1>2, SetStateEvolves

LEMMA ShadowedEvolves ==
  ASSUME NEW d, NEW R, Fit(R, d), NEW q \in QueueRow, NEW e \in Entities, NEW v \in Nat,
         NEW S, S = PutShadow(Accepted(R, q), e, v, q.doc)
  PROVE  Evolves(R, S, d, {q.id})
<1> DEFINE T == Accepted(R, q)
<1>1. Evolves(R, T, d, {q.id}) /\ Fit(T, d) /\ T \in Replica
  BY AcceptedEvolves DEF Evolves, Fit
<1>2. q.doc \in Doc \cup {Tomb}
  BY DEF QueueRow
<1> HIDE DEF T
<1>3. S = PutShadow(T, e, v, q.doc)
  BY DEF T
<1>4. SameQueue(T, S)
  BY <1>1, <1>2, <1>3, PutShadowSame
<1>5. Evolves(T, S, d, {})
  BY <1>1, <1>4, SameQueueEvolves
<1> QED BY <1>1, <1>5, EvolvesTransitive

LEMMA MarkAppliedEvolves ==
  ASSUME NEW d, NEW R, Fit(R, d), NEW q \in QueueRow
  PROVE  Evolves(R, MarkApplied(R, q), d, {q.id})
<1>1. q.entity \in Entities /\ q.version \in Nat
  BY DEF QueueRow
<1> QED BY <1>1, ShadowedEvolves DEF MarkApplied

LEMMA LargerOfTwo ==
  ASSUME NEW a \in Nat, NEW b \in Nat
  PROVE  Max({a, b}) \in {a, b} /\ Max({a, b}) >= a /\ Max({a, b}) >= b
<1> DEFINE both == {a, b}
<1>1. IsFiniteSet(both)
  <2>1. both = {a} \cup {b} /\ IsFiniteSet({a})
    BY FS_Singleton
  <2> HIDE DEF both
  <2> QED BY <2>1, FS_AddElement
<1>2. both \in SUBSET Nat /\ both # {} /\ a \in both /\ b \in both
  OBVIOUS
<1>3. Max(both) \in both /\ \A n \in both : n <= Max(both)
  <2> HIDE DEF both
  <2> QED BY <1>1, <1>2, MaxIsLargest
<1> DEFINE m == Max(both)
<1>4. m \in Nat /\ a <= m /\ b <= m
  BY <1>2, <1>3
<1> HIDE DEF m
<1>5. m >= a /\ m >= b
  BY <1>4
<1> QED BY <1>3, <1>5 DEF m

LEMMA AgreeShadowKnows ==
  ASSUME NEW d, NEW R, Fit(R, d), NEW q \in QueueRow, NEW r \in RecordFile
  PROVE  Evolves(R, AgreeShadow(R, q, r), d, {q.id}) /\ Known(AgreeShadow(R, q, r), r)
<1>1. r.entity \in Entities /\ r.version \in Nat /\ q.version \in Nat
  BY RecordTyped DEF QueueRow
<1>2. PICK e \in Entities : e = r.entity
  BY <1>1
<1>3. PICK v \in Nat : v = Max({r.version, q.version}) /\ v >= r.version
  BY <1>1, LargerOfTwo
<1>4. PICK S : S = PutShadow(Accepted(R, q), e, v, q.doc)
  OBVIOUS
<1>5. S = AgreeShadow(R, q, r)
  BY <1>2, <1>3, <1>4 DEF AgreeShadow
<1>6. Evolves(R, S, d, {q.id})
  BY <1>4, ShadowedEvolves
<1>7. S.shadow[e].version = v
  <2> DEFINE T == Accepted(R, q)
  <2>1. T \in Replica /\ q.doc \in Doc \cup {Tomb}
    BY AcceptedEvolves DEF Evolves, Fit, QueueRow
  <2>2. S = PutShadow(T, e, v, q.doc)
    BY <1>4
  <2> HIDE DEF T
  <2> QED BY <2>1, <2>2, PutShadowSame
<1>8. Known(S, r)
  BY <1>2, <1>3, <1>7 DEF Known
<1> QED BY <1>5, <1>6, <1>8

LEMMA MarkConflictedEvolves ==
  ASSUME NEW d, NEW R, Fit(R, d), NEW E
  PROVE  Evolves(R, MarkConflicted(R, E), d, {})
<1> DEFINE rows == {q \in Pending(R) : q.entity \in E}
<1>1. rows \in SUBSET R.queue
  BY DEF Pending
<1>2. MarkConflicted(R, E) = SetState(R, rows, "conflict")
  BY DEF MarkConflicted
<1> HIDE DEF rows
<1> QED BY <1>1, <1>2, SetStateEvolves

-----------------------------------------------------------------------------
\* The catch-up pass.

Neglected(R) == {e \in Entities : Unaccounted(R, e)}

Missing(R, d, n, e, now) ==
  NewRecord(R, d, R.minted + n, e, IF Live(R, e) THEN R.row[e] ELSE Tomb, now)

\* todo lists the neglected entities, and the pass queues a record for each.
Reconciles(R, S, d, todo, now) ==
  LET N == Cardinality(Neglected(R))
  IN  /\ todo \in Bijection(1..N, Neglected(R))
      /\ S = [R EXCEPT !.queue = R.queue \cup {Missing(R, d, n, todo[n], now) : n \in 1..N},
                       !.minted = R.minted + N]

LEMMA NeglectedFinite ==
  ASSUME NEW R
  PROVE  IsFiniteSet(Neglected(R)) /\ Cardinality(Neglected(R)) \in Nat
<1>1. Neglected(R) \in SUBSET Entities
  BY DEF Neglected
<1> QED BY <1>1, EntitiesFinite, FS_Subset, FS_CardinalityType

LEMMA ReconcileReconciles ==
  ASSUME NEW R \in Replica, NEW d, NEW now
  PROVE  \E todo : Reconciles(R, Reconcile(R, d, now), d, todo, now)
<1> DEFINE U == Neglected(R)
           N == Cardinality(U)
           todo == SetToSeq(U)
<1>1. IsFiniteSet(U) /\ N \in Nat
  BY NeglectedFinite
<1>2. todo \in Bijection(1..N, U)
  <2>1. todo = Listed(U)
    BY DEF SetToSeq, Listed
  <2> QED BY <1>1, <2>1, ListedOnce
<1>3. DOMAIN R.row = Entities
  BY DEF Replica
<1>4. U = {e \in DOMAIN R.row : Unaccounted(R, e)}
  BY <1>3 DEF Neglected
<1>5. Reconcile(R, d, now) =
        [R EXCEPT !.queue = R.queue \cup {Missing(R, d, n, todo[n], now) : n \in DOMAIN todo},
                  !.minted = R.minted + Len(todo)]
  <2> HIDE DEF U
  <2> QED BY <1>4 DEF Reconcile, Missing
<1>6. Len(todo) = N /\ DOMAIN todo = 1..N
  <2> HIDE DEF U, N, todo
  <2>1. todo \in [1..N -> U]
    BY <1>2 DEF Bijection, Injection
  <2> QED BY <1>1, <2>1
<1>7. Reconciles(R, Reconcile(R, d, now), d, todo, now)
  <2> HIDE DEF todo
  <2> QED BY <1>2, <1>5, <1>6 DEF Reconciles
<1> QED BY <1>7

LEMMA MissingRecord ==
  ASSUME NEW d \in Device, NEW R, Fit(R, d), NEW n \in Nat, NEW e \in Entities, NEW now \in Now
  PROVE  LET q == Missing(R, d, n, e, now)
         IN  q \in QueueRow /\ q.state = "pending" /\ q.id = <<d, R.minted + n>>
<1> DEFINE doc == IF Live(R, e) THEN R.row[e] ELSE Tomb
           q == Missing(R, d, n, e, now)
<1>1. R \in Replica /\ R.minted \in Nat /\ NextVersion(R, e) \in Nat \ {0}
  BY NextVersionIsVersion DEF Fit, IdsCounted, Replica
<1>2. doc \in Doc \cup {Tomb}
  BY <1>1 DEF Replica, Live
<1>3. q = NewRecord(R, d, R.minted + n, e, doc, now)
  BY DEF Missing
<1> HIDE DEF doc, q
<1>4. q \in QueueRow /\ q.state = "pending" /\ q.id = <<d, R.minted + n>>
  BY <1>1, <1>2, <1>3 DEF NewRecord, QueueRow
<1> QED BY <1>4 DEF q

LEMMA ReconcileEvolves ==
  ASSUME NEW d \in Device, NEW R, Fit(R, d), NEW now \in Now
  PROVE  Evolves(R, Reconcile(R, d, now), d, {})
<1> DEFINE S == Reconcile(R, d, now)
           N == Cardinality(Neglected(R))
<1>1. R \in Replica /\ R.minted \in Nat /\ N \in Nat
  BY NeglectedFinite DEF Fit, Replica
<1>2. PICK todo : Reconciles(R, S, d, todo, now)
  BY <1>1, ReconcileReconciles
<1> DEFINE record_(n) == Missing(R, d, n, todo[n], now)
           new == {record_(n) : n \in 1..N}
<1>3. todo \in [1..N -> Neglected(R)]
  BY <1>2 DEF Reconciles, Bijection, Injection
<1>4. ASSUME NEW n \in 1..N
      PROVE  /\ record_(n) \in QueueRow /\ record_(n).state = "pending"
             /\ record_(n).id = <<d, R.minted + n>>
  <2>1. n \in Nat /\ todo[n] \in Entities
    BY <1>1, <1>3 DEF Neglected
  <2> QED BY <2>1, MissingRecord
<1>5. S = [R EXCEPT !.queue = R.queue \cup new, !.minted = R.minted + N]
  BY <1>2 DEF Reconciles
<1> HIDE DEF S, N
<1>6. /\ S \in Replica /\ S.row = R.row /\ S.queue = R.queue \cup new /\ S.shadow = R.shadow
      /\ S.minted = R.minted + N /\ S.copies = R.copies
      /\ S.cursors = R.cursors /\ S.pushSeq = R.pushSeq
  <2>1. R.queue \cup new \in SUBSET QueueRow /\ R.minted + N \in Nat
    BY <1>1, <1>4 DEF Replica
  <2> HIDE DEF new
  <2> QED BY <1>1, <1>5, <2>1 DEF Replica
<1>7. IsFiniteSet(new)
  <2> DEFINE f == [n \in 1..N |-> record_(n)]
  <2>1. f \in Surjection(1..N, new)
    BY DEF Surjection
  <2>2. IsFiniteSet(1..N)
    BY <1>1, UpTo
  <2> HIDE DEF new
  <2> QED BY <2>1, <2>2, FS_Surjection
<1> HIDE DEF record_
<1>8. ASSUME NEW q \in new
      PROVE  /\ q.state = "pending"
             /\ q.id[1] = d /\ q.id[2] > R.minted /\ q.id[2] <= S.minted
  <2>1. PICK n \in 1..N : q = record_(n)
    OBVIOUS
  <2>2. q.id[1] = d /\ q.id[2] = R.minted + n
    BY <1>4, <2>1
  <2>3. R.minted + n > R.minted /\ R.minted + n <= R.minted + N
    BY <1>1
  <2> QED BY <1>4, <1>6, <2>1, <2>2, <2>3
<1>9. ASSUME NEW p \in new, NEW q \in new, p.id = q.id PROVE p = q
  <2>1. PICK m \in 1..N : p = record_(m)
    OBVIOUS
  <2>2. PICK n \in 1..N : q = record_(n)
    OBVIOUS
  <2>3. p.id = <<d, R.minted + m>> /\ q.id = <<d, R.minted + n>>
    BY <1>4, <2>1, <2>2
  <2>4. m \in Nat /\ n \in Nat
    BY <1>1
  <2>5. p.id = q.id
    BY <1>9
  <2>6. R.minted + m = R.minted + n
    BY <2>3, <2>5
  <2>7. m = n
    BY <1>1, <2>4, <2>6
  <2> QED BY <2>1, <2>2, <2>7
<1>10. R.minted + N >= R.minted
  BY <1>1
<1> HIDE DEF new
<1>11. QueueGrows(R, S, d, new)
  BY <1>6, <1>7, <1>8, <1>9, <1>10 DEF QueueGrows
<1> QED BY <1>11, GrownEvolves DEF S

-----------------------------------------------------------------------------
\* What keeps a device fit.

\* Streams only get longer.
Lengthened(f, g) ==
  /\ f \in [Device -> Seq(RecordFile)] /\ g \in [Device -> Seq(RecordFile)]
  /\ \A s \in Device : /\ Len(f[s]) <= Len(g[s])
                       /\ \A n \in 1..Len(f[s]) : g[s][n] = f[s][n]

LEMMA LengthIsNatural ==
  ASSUME NEW f \in [Device -> Seq(RecordFile)], NEW s \in Device
  PROVE  /\ Len(f[s]) \in Nat /\ DOMAIN f[s] = 1..Len(f[s])
         /\ \A n \in 1..Len(f[s]) : f[s][n] \in RecordFile
<1>1. f[s] \in Seq(RecordFile)
  OBVIOUS
<1> QED BY <1>1

LEMMA CarriesStays ==
  ASSUME NEW f, NEW g, Lengthened(f, g), NEW e, NEW doc, Carries(f, e, doc)
  PROVE  Carries(g, e, doc)
<1>1. PICK s \in Device : \E n \in 1..Len(f[s]) : f[s][n].entity = e /\ f[s][n].doc = doc
  BY DEF Carries
<1>2. PICK n \in 1..Len(f[s]) : f[s][n].entity = e /\ f[s][n].doc = doc
  BY <1>1
<1>3. Len(f[s]) \in Nat /\ Len(g[s]) \in Nat
  BY LengthIsNatural DEF Lengthened
<1>4. n \in 1..Len(g[s]) /\ g[s][n] = f[s][n]
  BY <1>3 DEF Lengthened
<1> QED BY <1>2, <1>4 DEF Carries

\* The parts of a round.
LEMMA PullingTyped ==
  ASSUME NEW t \in Round, t.at \in {"pull", "apply"}
  PROVE  /\ t.source \in Device /\ t.sources \in SUBSET Device /\ t.head \in Nat
         /\ t.queued \in SUBSET QueueRow
         /\ \A at \in {"pull", "apply"} :
              LET u == [t EXCEPT !.at = at]
              IN  /\ u \in Round /\ u.at = at /\ u.source = t.source /\ u.sources = t.sources
<1>1. t \in [at : {"pull", "apply"}, source : Device, head : Nat, sources : SUBSET Device,
             queued : SUBSET QueueRow]
  BY DEF Round, Idle
<1> QED BY <1>1 DEF Round

LEMMA PublishingTyped ==
  ASSUME NEW t \in Round, t.at \in {"publish", "mark"}
  PROVE  t.next \in Nat \ {0} /\ t.batch \in Seq(QueueRow) /\ t.published \in BOOLEAN
<1>1. t \in [at : {"publish", "mark"}, published : BOOLEAN, next : Nat \ {0}, batch : Seq(QueueRow)]
  BY DEF Round, Idle
<1> QED BY <1>1

LEMMA NextTyped ==
  ASSUME NEW t \in Round, t.at \in {"list", "publish", "mark", "bump"}
  PROVE  t.next \in Nat \ {0}
BY DEF Round, Idle

LEMMA IdleFits ==
  ASSUME NEW R, NEW d, NEW f
  PROVE  Idle \in Round /\ RoundFits(R, Idle, d, f)
BY DEF Idle, Round, RoundFits

\* Whatever is published, a device stays fit.
LEMMA LengthenedFits ==
  ASSUME NEW d \in Device, NEW R, NEW t \in Round, NEW f, NEW g,
         DeviceFits(R, t, d, f), Lengthened(f, g)
  PROVE  DeviceFits(R, t, d, g)
<1>1. \A s \in Device : Len(f[s]) \in Nat /\ Len(g[s]) \in Nat /\ Len(f[s]) <= Len(g[s])
  BY LengthIsNatural DEF Lengthened
<1>2. R.cursors \in [Device -> Nat \ {0}] /\ R.pushSeq \in Nat
  BY DEF DeviceFits, Fit, Replica
<1>3. CountersFit(R, d, g)
  <2>1. R.pushSeq \in 0..Len(g[d])
    BY <1>1, <1>2 DEF DeviceFits, CountersFit
  <2>2. ASSUME NEW s \in Device PROVE R.cursors[s] \in 1..Len(g[s]) + 1
    <3>1. R.cursors[s] \in 1..Len(f[s]) + 1
      BY DEF DeviceFits, CountersFit
    <3> QED BY <1>1, <3>1
  <2> QED BY <2>1, <2>2 DEF CountersFit
<1>4. AppliedCarried(R, g)
  BY CarriesStays DEF DeviceFits, AppliedCarried
<1>5. RoundFits(R, t, d, g)
  <2>1. RoundFits(R, t, d, f)
    BY DEF DeviceFits
  <2>2. t.at = "apply" => R.cursors[t.source] <= Len(g[t.source])
    <3>1. SUFFICES ASSUME t.at = "apply" PROVE R.cursors[t.source] <= Len(g[t.source])
      OBVIOUS
    <3>2. t.source \in Device /\ R.cursors[t.source] <= Len(f[t.source])
      BY <2>1, <3>1, PullingTyped DEF RoundFits
    <3>3. R.cursors[t.source] \in Nat
      BY <1>2, <3>2
    <3> QED BY <1>1, <3>2, <3>3
  <2>3. t.at \in {"list", "publish", "bump"} => t.next <= Len(g[d]) + 1
    <3>1. SUFFICES ASSUME t.at \in {"list", "publish", "bump"} PROVE t.next <= Len(g[d]) + 1
      OBVIOUS
    <3>2. t.next <= Len(f[d]) + 1 /\ t.next \in Nat
      BY <2>1, <3>1, NextTyped DEF RoundFits
    <3> QED BY <1>1, <3>2
  <2>4. t.at = "mark" => /\ t.next <= Len(g[d])
                         /\ Carries(g, t.batch[1].entity, t.batch[1].doc)
    <3>1. SUFFICES ASSUME t.at = "mark"
                   PROVE  t.next <= Len(g[d]) /\ Carries(g, t.batch[1].entity, t.batch[1].doc)
      OBVIOUS
    <3>2. /\ t.next <= Len(f[d]) /\ t.next \in Nat
          /\ Carries(f, t.batch[1].entity, t.batch[1].doc)
      BY <2>1, <3>1, NextTyped DEF RoundFits
    <3>3. t.next <= Len(g[d])
      BY <1>1, <3>2
    <3> QED BY <3>2, <3>3, CarriesStays
  <2> QED BY <2>1, <2>2, <2>3, <2>4 DEF RoundFits
<1> QED BY <1>3, <1>4, <1>5 DEF DeviceFits

\* Rows with the ids of a batch stay as they were queued.
LEMMA EvolvedBatch ==
  ASSUME NEW d, NEW ids, NEW R, NEW S, Fit(R, d), Evolves(R, S, d, ids),
         NEW batch \in Seq(QueueRow), BatchQueued(R, batch)
  PROVE  BatchQueued(S, batch)
<1>1. R.minted \in Nat /\ S.minted \in Nat /\ S.minted >= R.minted
  BY DEF Fit, Evolves, Replica
<1>2. ASSUME NEW i \in DOMAIN batch
      PROVE  /\ batch[i].id[2] <= S.minted
             /\ \A p \in S.queue : p.id = batch[i].id =>
                  p.entity = batch[i].entity /\ p.doc = batch[i].doc
  <2>1. batch[i] \in QueueRow
    OBVIOUS
  <2>2. batch[i].id[2] \in Nat
    BY <2>1 DEF QueueRow
  <2>3. batch[i].id[2] <= R.minted
    BY DEF BatchQueued
  <2>4. ASSUME NEW p \in S.queue, p.id = batch[i].id
        PROVE  p.entity = batch[i].entity /\ p.doc = batch[i].doc
    <3>1. ~(p.id[2] > R.minted)
      BY <1>1, <2>2, <2>3, <2>4
    <3>2. PICK q \in R.queue : p.id = q.id /\ p.entity = q.entity /\ p.doc = q.doc
      BY <3>1 DEF Evolves, Stems
    <3> QED BY <2>4, <3>2 DEF BatchQueued
  <2> QED BY <1>1, <2>2, <2>3, <2>4
<1> QED BY <1>2 DEF BatchQueued

\* The library and the queue change; what becomes sent is in some stream.
LEMMA EvolvedFits ==
  ASSUME NEW d \in Device, NEW ids, NEW R, NEW S, NEW t \in Round, NEW f,
         DeviceFits(R, t, d, f), Evolves(R, S, d, ids),
         \A q \in R.queue : q.id \in ids => Carries(f, q.entity, q.doc)
  PROVE  DeviceFits(S, t, d, f)
<1>1. Fit(R, d) /\ Fit(S, d) /\ S.cursors = R.cursors /\ S.pushSeq = R.pushSeq
  BY DEF DeviceFits, Evolves
<1>2. CountersFit(S, d, f)
  BY <1>1 DEF DeviceFits, CountersFit
<1>3. AppliedCarried(S, f)
  <2>1. SUFFICES ASSUME NEW p \in S.queue, p.state = "applied"
                 PROVE  Carries(f, p.entity, p.doc)
    BY DEF AppliedCarried
  <2>2. PICK q \in R.queue : /\ p.entity = q.entity /\ p.doc = q.doc
                             /\ q.state = "applied" \/ q.id \in ids
    BY <2>1 DEF Evolves, Stems
  <2> QED BY <2>2 DEF DeviceFits, AppliedCarried
<1>4. RoundFits(S, t, d, f)
  <2>1. RoundFits(R, t, d, f)
    BY DEF DeviceFits
  <2>2. t.at \in {"publish", "mark"} => BatchQueued(S, t.batch)
    BY <1>1, <2>1, PublishingTyped, EvolvedBatch DEF RoundFits
  <2> QED BY <1>1, <2>1, <2>2 DEF RoundFits
<1> QED BY <1>1, <1>2, <1>3, <1>4 DEF DeviceFits

\* A round that goes on in another way.
LEMMA OtherRoundFits ==
  ASSUME NEW d, NEW R, NEW t, NEW u, NEW f, DeviceFits(R, t, d, f), RoundFits(R, u, d, f)
  PROVE  DeviceFits(R, u, d, f)
BY DEF DeviceFits

\* A cursor passes a record that is there.
LEMMA AdvanceFits ==
  ASSUME NEW d \in Device, NEW R, NEW t \in Round, NEW f \in [Device -> Seq(RecordFile)],
         DeviceFits(R, t, d, f), t.at = "pull",
         NEW s \in Device, R.cursors[s] <= Len(f[s])
  PROVE  DeviceFits(Advance(R, s), t, d, f)
<1> DEFINE S == Advance(R, s)
<1>1. R \in Replica /\ R.cursors \in [Device -> Nat \ {0}]
  BY DEF DeviceFits, Fit, Replica
<1>2. Len(f[s]) \in Nat
  BY LengthIsNatural
<1>3. R.cursors[s] + 1 \in Nat \ {0} /\ R.cursors[s] + 1 \in 1..Len(f[s]) + 1
  BY <1>1, <1>2
<1>4. /\ S \in Replica /\ S.queue = R.queue /\ S.minted = R.minted /\ S.pushSeq = R.pushSeq
      /\ S.cursors = [R.cursors EXCEPT ![s] = @ + 1]
  BY <1>1, <1>3 DEF Advance, Replica
<1> HIDE DEF S
<1>5. Fit(S, d) /\ AppliedCarried(S, f)
  BY <1>4 DEF DeviceFits, Fit, IdsCounted, AppliedCarried
<1>6. CountersFit(S, d, f)
  <2>1. ASSUME NEW c \in Device PROVE S.cursors[c] \in 1..Len(f[c]) + 1
    BY <1>1, <1>3, <1>4 DEF DeviceFits, CountersFit
  <2> QED BY <1>4, <2>1 DEF DeviceFits, CountersFit
<1>7. RoundFits(S, t, d, f)
  BY DEF DeviceFits, RoundFits
<1> QED BY <1>5, <1>6, <1>7 DEF DeviceFits, S

-----------------------------------------------------------------------------
\* Steps of one device that leave the streams alone.

\* Where a cursor of device d rises, the record it passes is accounted for or
\* among U, the files passed unapplied.
Passes(d, R, S, f, U) ==
  \A s \in Device : S.cursors[s] > R.cursors[s] =>
    Known(S, f[s][R.cursors[s]]) \/ <<d, s, R.cursors[s]>> \in U

KnownStep ==
  \A d \in Device : \A s \in Device :
    replica'[d].cursors[s] > replica[d].cursors[s] =>
      \/ Known(replica'[d], stream[s][replica[d].cursors[s]])
      \/ <<d, s, replica[d].cursors[s]>> \in unapplied'

LEMMA EvolvesPasses ==
  ASSUME NEW d, NEW ids, NEW f, NEW U,
         NEW R \in Replica, NEW S, Evolves(R, S, d, ids)
  PROVE  Passes(d, R, S, f, U)
<1>1. ASSUME NEW s \in Device PROVE ~(S.cursors[s] > R.cursors[s])
  <2>1. S.cursors[s] = R.cursors[s] /\ R.cursors[s] \in Nat
    BY DEF Evolves, Replica
  <2> QED BY <2>1
<1> QED BY <1>1 DEF Passes

LEMMA AdvancePasses ==
  ASSUME NEW d, NEW ids, NEW f, NEW U, NEW R \in Replica, NEW T, Evolves(R, T, d, ids),
         NEW s \in Device, Known(T, f[s][R.cursors[s]]) \/ <<d, s, R.cursors[s]>> \in U
  PROVE  Passes(d, R, Advance(T, s), f, U)
<1> DEFINE S == Advance(T, s)
<1>1. /\ T \in Replica /\ T.cursors = R.cursors
      /\ R.cursors \in [Device -> Nat \ {0}]
  BY DEF Evolves, Fit, Replica
<1>2. S.shadow = T.shadow /\ S.queue = T.queue /\ S.cursors = [R.cursors EXCEPT ![s] = @ + 1]
  BY <1>1 DEF Advance, Replica
<1> HIDE DEF S
<1>3. ASSUME NEW c \in Device, S.cursors[c] > R.cursors[c]
      PROVE  Known(S, f[c][R.cursors[c]]) \/ <<d, c, R.cursors[c]>> \in U
  <2>1. c = s
    <3>1. SUFFICES ASSUME c # s PROVE FALSE
      OBVIOUS
    <3>2. S.cursors[c] = R.cursors[c] /\ R.cursors[c] \in Nat
      BY <1>1, <1>2, <3>1
    <3> QED BY <1>3, <3>2
  <2>2. Known(S, f[s][R.cursors[s]]) \/ <<d, s, R.cursors[s]>> \in U
    BY <1>2 DEF Known, HeldBack, QueueOf
  <2> QED BY <2>1, <2>2
<1> QED BY <1>3 DEF Passes, S

\* What a step of device d makes of its replica and its round.
DeviceMoves(d, S, t) ==
  /\ replica' = [replica EXCEPT ![d] = S]
  /\ round' = [round EXCEPT ![d] = t]
  /\ t \in Round
  /\ DeviceFits(S, t, d, stream)
  /\ Passes(d, replica[d], S, stream, unapplied')

LEMMA InvParts ==
  ASSUME Inv, NEW d \in Device
  PROVE  /\ DeviceFits(replica[d], round[d], d, stream)
         /\ Fit(replica[d], d) /\ replica[d] \in Replica /\ round[d] \in Round
         /\ stream \in [Device -> Seq(RecordFile)]
         /\ replica \in [Device -> Replica] /\ round \in [Device -> Round]
         /\ Len(stream[d]) \in Nat
BY LengthIsNatural DEF Inv, StateTyped, DeviceFits

LEMMA MovesInv ==
  ASSUME Inv, NEW d \in Device, NEW S, NEW t, DeviceMoves(d, S, t),
         UNCHANGED files, Counted'
  PROVE  Inv' /\ KnownStep
<1>1. /\ replica \in [Device -> Replica] /\ round \in [Device -> Round]
      /\ stream' = stream /\ head' = head
  BY InvParts DEF files
<1>2. S \in Replica /\ t \in Round
  BY DEF DeviceMoves, DeviceFits, Fit
<1>3. /\ replica' \in [Device -> Replica] /\ round' \in [Device -> Round]
      /\ replica'[d] = S /\ round'[d] = t
      /\ \A c \in Device \ {d} : replica'[c] = replica[c] /\ round'[c] = round[c]
  BY <1>1, <1>2 DEF DeviceMoves
<1>4. StateTyped'
  BY <1>1, <1>3 DEF Inv, StateTyped
<1>5. StreamsOwned'
  BY <1>1 DEF Inv, StreamsOwned
<1>6. ASSUME NEW c \in Device PROVE DeviceFits(replica'[c], round'[c], c, stream')
  <2>1. CASE c = d
    BY <1>1, <1>3, <2>1 DEF DeviceMoves
  <2>2. CASE c # d
    BY <1>1, <1>3, <2>2 DEF Inv
  <2> QED BY <2>1, <2>2
<1>7. KnownStep
  <2>1. SUFFICES ASSUME NEW c \in Device, NEW s \in Device,
                        replica'[c].cursors[s] > replica[c].cursors[s]
                 PROVE  \/ Known(replica'[c], stream[s][replica[c].cursors[s]])
                        \/ <<c, s, replica[c].cursors[s]>> \in unapplied'
    BY DEF KnownStep
  <2>2. CASE c = d
    BY <1>3, <2>1, <2>2 DEF DeviceMoves, Passes
  <2>3. CASE c # d
    <3>1. replica'[c] = replica[c] /\ replica[c].cursors[s] \in Nat
      BY <1>1, <1>3, <2>3 DEF Replica
    <3> QED BY <2>1, <3>1
  <2> QED BY <2>2, <2>3
<1> QED BY <1>4, <1>5, <1>6, <1>7 DEF Inv

\* Only the round goes on.
LEMMA RoundMoves ==
  ASSUME Inv, NEW d \in Device, NEW t \in Round, UNCHANGED replica, SetRound(d, t),
         RoundFits(replica[d], t, d, stream)
  PROVE  DeviceMoves(d, replica[d], t)
<1>1. DeviceFits(replica[d], t, d, stream) /\ replica \in [Device -> Replica]
  BY InvParts, OtherRoundFits
<1>2. replica' = [replica EXCEPT ![d] = replica[d]]
  BY <1>1
<1>3. Passes(d, replica[d], replica[d], stream, unapplied')
  <2>1. \A s \in Device : replica[d].cursors[s] \in Nat
    BY <1>1 DEF Replica
  <2> QED BY <2>1 DEF Passes
<1> QED BY <1>1, <1>2, <1>3 DEF DeviceMoves, SetRound

\* The round stays, the replica evolves, nothing becomes sent.
LEMMA EvolvedMoves ==
  ASSUME Inv, NEW d \in Device, NEW S, Evolves(replica[d], S, d, {}),
         replica' = [replica EXCEPT ![d] = S], UNCHANGED round
  PROVE  DeviceMoves(d, S, round[d])
<1>1. /\ DeviceFits(replica[d], round[d], d, stream) /\ round[d] \in Round
      /\ replica[d] \in Replica /\ round \in [Device -> Round]
  BY InvParts
<1>2. DeviceFits(S, round[d], d, stream)
  BY <1>1, EvolvedFits
<1>3. Passes(d, replica[d], S, stream, unapplied')
  BY <1>1, EvolvesPasses
<1>4. round' = [round EXCEPT ![d] = round[d]]
  BY <1>1
<1> QED BY <1>1, <1>2, <1>3, <1>4 DEF DeviceMoves

-----------------------------------------------------------------------------
\* Local operations.

LEMMA WriteMoves ==
  ASSUME Inv, NEW d \in Device, NEW R, SameQueue(replica[d], R),
         NEW doc \in Doc \cup {Tomb}, NEW op, Edits(d, op, R, doc)
  PROVE  /\ \E S, t : DeviceMoves(d, S, t)
         /\ UNCHANGED files /\ Counted'
<1>1. PICK now \in Now : replica' = [replica EXCEPT ![d] = Enqueue(R, d, Snippet, doc, now)]
  BY DEF Edits
<1>2. Fit(replica[d], d)
  BY InvParts
<1>3. Evolves(replica[d], R, d, {}) /\ Fit(R, d)
  BY <1>2, SameQueueEvolves DEF Evolves
<1> DEFINE S == Enqueue(R, d, Snippet, doc, now)
<1>4. Evolves(R, S, d, {})
  <2>1. PICK e \in Entities : e = Snippet
    BY EntitiesFinite
  <2>2. S = Enqueue(R, d, e, doc, now)
    BY <2>1
  <2> HIDE DEF S
  <2> QED BY <1>3, <2>2, EnqueueEvolves
<1> HIDE DEF S
<1>5. Evolves(replica[d], S, d, {})
  BY <1>2, <1>3, <1>4, EvolvesTransitive
<1>6. replica' = [replica EXCEPT ![d] = S] /\ UNCHANGED round /\ UNCHANGED files
  BY <1>1 DEF Edits, S
<1>7. DeviceMoves(d, S, round[d])
  BY <1>5, <1>6, EvolvedMoves
<1>8. Counted'
  <2>1. Counted
    BY DEF Inv, StateTyped
  <2>2. MaxEdits \in Nat
    BY StreamsAssumption
  <2> QED BY <2>1, <2>2 DEF Edits, Counted, failed
<1> QED BY <1>6, <1>7, <1>8

LEMMA LocalMoves ==
  ASSUME Inv, NEW d \in Device, Local(d)
  PROVE  /\ \E S, t : DeviceMoves(d, S, t)
         /\ UNCHANGED files /\ Counted'
<1>1. replica[d] \in Replica /\ Snippet \in Entities /\ MaxEdits \in Nat
  BY InvParts, EntitiesFinite, StreamsAssumption
<1>2. CASE EditBody(d)
  <2> DEFINE doc == [Row(d) EXCEPT !.body = edits + 1]
             R == [replica[d] EXCEPT !.row[Snippet] = doc, !.history[Snippet] = @ \cup {doc.body}]
  <2>1. Edits(d, "body", R, doc)
    BY <1>2 DEF EditBody
  <2>2. Row(d) \in Doc
    BY <1>1, <2>1 DEF Edits, Live, Row, Replica
  <2>3. edits + 1 \in 0..MaxEdits
    <3>1. edits \in 0..MaxEdits /\ edits < MaxEdits
      BY <2>1 DEF Inv, StateTyped, Counted, Edits
    <3> QED BY <1>1, <3>1
  <2>4. doc \in Doc /\ doc.body = edits + 1
    BY <2>2, <2>3 DEF Doc
  <2> HIDE DEF doc
  <2>5. SameQueue(replica[d], R)
    BY <1>1, <2>3, <2>4 DEF SameQueue, Replica
  <2> HIDE DEF R
  <2> QED BY <2>1, <2>4, <2>5, WriteMoves
<1>3. CASE Trash(d)
  <2> DEFINE R == ApplyTombstone(replica[d], Snippet)
  <2>1. Edits(d, "trash", R, Tomb)
    BY <1>3 DEF Trash
  <2>2. SameQueue(replica[d], R)
    BY <1>1, ApplyTombstoneSame
  <2>3. Tomb \in Doc \cup {Tomb}
    OBVIOUS
  <2> HIDE DEF R
  <2> QED BY <2>1, <2>2, <2>3, WriteMoves
<1> QED BY <1>2, <1>3 DEF Local

-----------------------------------------------------------------------------
\* Pulling.

LEMMA OpenedFits ==
  ASSUME Inv, NEW d \in Device, NEW sources \in SUBSET (Device \ {d}),
         NEW queued \in SUBSET QueueRow
  PROVE  LET t == Opened(d, sources, queued)
         IN  t \in Round /\ RoundFits(replica[d], t, d, stream)
<1>1. CASE sources = {}
  <2> DEFINE t == Opened(d, sources, queued)
  <2>1. replica[d].pushSeq \in 0..Len(stream[d]) /\ Len(stream[d]) \in Nat
    BY InvParts DEF DeviceFits, CountersFit
  <2>2. PICK n \in Nat \ {0} : n = replica[d].pushSeq + 1 /\ n <= Len(stream[d]) + 1
    BY <2>1
  <2>3. t = [at |-> "list", published |-> FALSE, next |-> n]
    BY <1>1, <2>2 DEF Opened
  <2> HIDE DEF t
  <2>4. t \in Round
    BY <2>3 DEF Round
  <2>5. t.at = "list" /\ t.next = n
    BY <2>3
  <2>6. RoundFits(replica[d], t, d, stream)
    BY <2>2, <2>5 DEF RoundFits
  <2> QED BY <2>4, <2>6 DEF t
<1>2. CASE sources # {}
  <2> DEFINE s == CHOOSE x \in sources : \A y \in sources : x <= y
             t == Opened(d, sources, queued)
  <2>1. sources \in SUBSET Nat
    BY StreamsAssumption
  <2>2. \E x \in sources : \A y \in sources : x <= y
    BY <1>2, <2>1, SmallestExists
  <2>3. s \in sources
    BY <2>2
  <2>4. t = [at |-> "pull", source |-> s, head |-> head[s], sources |-> sources \ {s},
             queued |-> queued]
    BY <1>2 DEF Opened
  <2> HIDE DEF s, t
  <2>5. s \in Device /\ s # d /\ head[s] \in Nat
    BY <2>3 DEF Inv, StateTyped
  <2>6. t \in Round
    BY <2>4, <2>5 DEF Round
  <2>7. t.at = "pull" /\ t.source = s /\ t.sources = sources \ {s}
    BY <2>4
  <2>8. RoundFits(replica[d], t, d, stream)
    BY <2>5, <2>7 DEF RoundFits
  <2> QED BY <2>6, <2>8 DEF t
<1> QED BY <1>1, <1>2

\* The record a round has before it is the source's own, and carried.
LEMMA IncomingIsRecord ==
  ASSUME Inv, NEW d \in Device, round[d].at \in {"pull", "apply"},
         Cursor(d) <= Len(stream[round[d].source])
  PROVE  /\ round[d].source \in Device
         /\ Incoming(d) \in RecordFile /\ Incoming(d).device # d
         /\ Carries(stream, Incoming(d).entity, Incoming(d).doc)
<1> DEFINE s == round[d].source
           n == Cursor(d)
<1>1. s \in Device /\ s # d
  BY InvParts, PullingTyped DEF DeviceFits, RoundFits
<1>2. replica[d].cursors[s] \in Nat \ {0}
  BY <1>1, InvParts DEF Replica
<1>3. Len(stream[s]) \in Nat
  BY <1>1, InvParts, LengthIsNatural
<1>4. n \in 1..Len(stream[s])
  BY <1>2, <1>3 DEF Cursor
<1>5. Incoming(d) = stream[s][n] /\ stream[s][n] \in RecordFile
  BY <1>1, <1>4, InvParts, LengthIsNatural DEF Incoming
<1> HIDE DEF n
<1>6. stream[s][n].device = s
  BY <1>1, <1>4 DEF Inv, StreamsOwned
<1> QED BY <1>1, <1>4, <1>5, <1>6 DEF Carries

LEMMA PullingIncoming ==
  ASSUME Inv, NEW d \in Device, Pulling(d)
  PROVE  /\ round[d].at = "pull" /\ Cursor(d) <= Len(stream[round[d].source])
         /\ round[d].source \in Device
         /\ Incoming(d) \in RecordFile /\ Incoming(d).device # d
         /\ Carries(stream, Incoming(d).entity, Incoming(d).doc)
BY IncomingIsRecord DEF Pulling, MoreToPull

\* What an agreement marks as sent is what the other device has published.
LEMMA AgreeableCarried ==
  ASSUME Inv, NEW d \in Device, NEW q \in Agreeable(d)
  PROVE  /\ Pulling(d) /\ q \in QueueRow /\ q \in replica[d].queue
         /\ \A p \in replica[d].queue : p.id \in {q.id} => Carries(stream, p.entity, p.doc)
<1>1. Pulling(d)
  BY DEF Agreeable, Agreeing
<1>2. q \in LocalHeads(d) /\ SameContent(d, q) /\ q \in Pending(replica[d])
  BY <1>1 DEF Agreeable, Agreeing
<1>3. q.entity = Incoming(d).entity /\ q.doc = Incoming(d).doc
  BY <1>2 DEF LocalHeads, SameContent
<1>4. q \in replica[d].queue
  BY <1>2 DEF Pending
<1>5. q \in QueueRow
  BY <1>4, InvParts DEF Replica
<1>6. \A p \in replica[d].queue : p.id \in {q.id} => p = q
  BY <1>4, InvParts DEF Fit, IdsCounted
<1>7. Carries(stream, q.entity, q.doc)
  BY <1>1, <1>3, PullingIncoming
<1> QED BY <1>1, <1>4, <1>5, <1>6, <1>7

\* The transaction that passes the record before the round.
LEMMA AdvanceMoves ==
  ASSUME Inv, NEW d \in Device, round[d].at \in {"pull", "apply"},
         Cursor(d) <= Len(stream[round[d].source]),
         NEW ids, NEW T, Evolves(replica[d], T, d, ids),
         \A q \in replica[d].queue : q.id \in ids => Carries(stream, q.entity, q.doc),
         Known(T, Incoming(d)) \/ <<d, round[d].source, Cursor(d)>> \in unapplied',
         replica' = [replica EXCEPT ![d] = Advance(T, round[d].source)],
         SetRound(d, [round[d] EXCEPT !.at = "pull"])
  PROVE  \E S, t : DeviceMoves(d, S, t)
<1> DEFINE s == round[d].source
           S == Advance(T, s)
           t == [round[d] EXCEPT !.at = "pull"]
<1>1. /\ DeviceFits(replica[d], round[d], d, stream) /\ round[d] \in Round
      /\ stream \in [Device -> Seq(RecordFile)] /\ replica[d] \in Replica
  BY InvParts
<1>2. /\ t \in Round /\ t.at = "pull" /\ t.source = s /\ t.sources = round[d].sources
      /\ s \in Device
  BY <1>1, PullingTyped
<1> HIDE DEF t
<1>3. RoundFits(replica[d], t, d, stream)
  BY <1>1, <1>2 DEF DeviceFits, RoundFits
<1>4. DeviceFits(T, t, d, stream)
  BY <1>1, <1>2, <1>3, OtherRoundFits, EvolvedFits
<1>5. T.cursors[s] <= Len(stream[s])
  BY DEF Evolves, Cursor
<1>6. DeviceFits(S, t, d, stream)
  BY <1>1, <1>2, <1>4, <1>5, AdvanceFits
<1>7. Passes(d, replica[d], S, stream, unapplied')
  <2>1. \/ Known(T, stream[s][replica[d].cursors[s]])
        \/ <<d, s, replica[d].cursors[s]>> \in unapplied'
    BY DEF Incoming, Cursor
  <2> QED BY <1>1, <1>2, <2>1, AdvancePasses
<1>8. DeviceMoves(d, S, t)
  BY <1>2, <1>6, <1>7 DEF DeviceMoves, SetRound, t
<1> QED BY <1>8

\* The round of a pull that goes on is the round itself.
LEMMA StillPulling ==
  ASSUME Inv, NEW d \in Device, Pulling(d), UNCHANGED round
  PROVE  SetRound(d, [round[d] EXCEPT !.at = "pull"])
<1>1. round[d].at = "pull" /\ round[d] \in Round /\ round \in [Device -> Round]
  BY InvParts DEF Pulling
<1>2. round[d] \in [at : {"pull", "apply"}, source : Device, head : Nat, sources : SUBSET Device,
                    queued : SUBSET QueueRow]
  BY <1>1 DEF Round, Idle
<1>3. [round[d] EXCEPT !.at = "pull"] = round[d]
  BY <1>1, <1>2
<1>4. round' = [round EXCEPT ![d] = round[d]]
  BY <1>1
<1> QED BY <1>3, <1>4 DEF SetRound

LEMMA AgreeMoves ==
  ASSUME Inv, NEW d \in Device, Agree(d)
  PROVE  \E S, t : DeviceMoves(d, S, t)
<1>1. PICK q \in Agreeable(d) :
        replica' = [replica EXCEPT
          ![d] = Advance(AgreeShadow(replica[d], q, Incoming(d)), round[d].source)]
  BY DEF Agree
<1>2. /\ Pulling(d) /\ q \in QueueRow
      /\ \A p \in replica[d].queue : p.id \in {q.id} => Carries(stream, p.entity, p.doc)
  BY AgreeableCarried
<1>3. /\ round[d].at = "pull" /\ Cursor(d) <= Len(stream[round[d].source])
      /\ Incoming(d) \in RecordFile
  BY <1>2, PullingIncoming
<1>4. PICK T : T = AgreeShadow(replica[d], q, Incoming(d))
  OBVIOUS
<1>5. Evolves(replica[d], T, d, {q.id}) /\ Known(T, Incoming(d))
  BY <1>2, <1>3, <1>4, InvParts, AgreeShadowKnows
<1>6. SetRound(d, [round[d] EXCEPT !.at = "pull"])
  BY <1>2, StillPulling DEF Agree
<1>7. replica' = [replica EXCEPT ![d] = Advance(T, round[d].source)]
  BY <1>1, <1>4
<1> QED BY <1>2, <1>3, <1>5, <1>6, <1>7, AdvanceMoves

LEMMA ParkMoves ==
  ASSUME Inv, NEW d \in Device, Park(d) \/ TakeUp(d)
  PROVE  \E S, t : DeviceMoves(d, S, t)
<1> DEFINE t == [round[d] EXCEPT !.at = "apply"]
<1>1. Pulling(d) /\ SetRound(d, t)
  BY DEF Park, TakeUp
<1>2. /\ round[d].at = "pull" /\ Cursor(d) <= Len(stream[round[d].source])
  BY <1>1, PullingIncoming
<1>3. /\ DeviceFits(replica[d], round[d], d, stream) /\ round[d] \in Round
      /\ replica[d] \in Replica /\ Fit(replica[d], d)
  BY InvParts
<1>4. /\ t \in Round /\ t.at = "apply" /\ t.source = round[d].source
      /\ t.sources = round[d].sources
  BY <1>2, <1>3, PullingTyped
<1> HIDE DEF t
<1>5. RoundFits(replica[d], t, d, stream)
  BY <1>2, <1>3, <1>4 DEF DeviceFits, RoundFits, Cursor
<1>6. CASE Park(d)
  <2>1. PICK S : S = MarkConflicted(replica[d], {Incoming(d).entity})
    OBVIOUS
  <2>2. Evolves(replica[d], S, d, {})
    BY <1>3, <2>1, MarkConflictedEvolves
  <2>3. DeviceFits(replica[d], t, d, stream)
    BY <1>3, <1>5, OtherRoundFits
  <2>4. DeviceFits(S, t, d, stream)
    BY <1>4, <2>2, <2>3, EvolvedFits
  <2>5. Passes(d, replica[d], S, stream, unapplied')
    BY <1>3, <2>2, EvolvesPasses
  <2>6. replica' = [replica EXCEPT ![d] = S]
    BY <1>6, <2>1 DEF Park
  <2> QED BY <1>1, <1>4, <2>4, <2>5, <2>6 DEF DeviceMoves, SetRound
<1>7. CASE TakeUp(d)
  <2>1. UNCHANGED replica
    BY <1>7 DEF TakeUp
  <2> QED BY <1>1, <1>4, <1>5, <2>1, RoundMoves
<1> QED BY <1>6, <1>7

LEMMA ResolveRivalMoves ==
  ASSUME Inv, NEW d \in Device, ResolveRival(d)
  PROVE  \E S, t : DeviceMoves(d, S, t)
<1> DEFINE r == Incoming(d)
           R == replica[d]
<1>1. Pulling(d) /\ R.copies < MaxCopies
  BY DEF ResolveRival, MayCopy
<1>2. PICK q \in Rivals(d), now \in Now :
        replica' = [replica EXCEPT
          ![d] = Advance(IF OwnWins(d, q) THEN R ELSE Adopt(R, d, r, now), round[d].source)]
  BY DEF ResolveRival
<1>3. /\ round[d].at = "pull" /\ Cursor(d) <= Len(stream[round[d].source])
      /\ r \in RecordFile
  BY <1>1, PullingIncoming
<1>4. Fit(R, d) /\ R \in Replica
  BY InvParts
<1>5. r.doc # Tomb /\ R.shadow[r.entity].doc # NoDoc /\ R.shadow[r.entity].version = r.version
  BY <1>2 DEF Rivals
<1> HIDE DEF r, R
<1>6. PICK T : T = IF OwnWins(d, q) THEN R ELSE Adopt(R, d, r, now)
  OBVIOUS
<1>7. Evolves(R, T, d, {}) /\ Known(T, r)
  <2>1. CASE OwnWins(d, q)
    <3>1. SameQueue(R, R) /\ T = R
      BY <1>4, <1>6, <2>1 DEF SameQueue
    <3>2. r.version \in Nat
      BY <1>3, RecordTyped
    <3>3. r.version >= r.version
      BY <3>2
    <3>4. Known(R, r)
      BY <1>5, <3>3 DEF Known
    <3> QED BY <1>4, <3>1, <3>4, SameQueueEvolves
  <2>2. CASE ~OwnWins(d, q)
    <3>1. T = Adopt(R, d, r, now)
      BY <1>6, <2>2
    <3> QED BY <1>1, <1>3, <1>4, <1>5, <3>1, AdoptKnows
  <2> QED BY <2>1, <2>2
<1>8. SetRound(d, [round[d] EXCEPT !.at = "pull"])
  BY <1>1, StillPulling DEF ResolveRival
<1>9. replica' = [replica EXCEPT ![d] = Advance(T, round[d].source)]
  BY <1>2, <1>6
<1> QED BY <1>3, <1>7, <1>8, <1>9, AdvanceMoves DEF R, r

LEMMA ApplyMoves ==
  ASSUME Inv, NEW d \in Device, Apply(d)
  PROVE  \E S, t : DeviceMoves(d, S, t)
<1>1. round[d].at = "apply" /\ replica[d].copies < MaxCopies
  BY DEF Apply, MayCopy
<1>2. Cursor(d) <= Len(stream[round[d].source])
  BY <1>1, InvParts DEF DeviceFits, RoundFits, Cursor
<1>3. Incoming(d) \in RecordFile /\ Incoming(d).device # d
  BY <1>1, <1>2, IncomingIsRecord
<1>4. PICK now \in Now, fails \in BOOLEAN :
        /\ fails => Leaves(d)
        /\ replica' = [replica EXCEPT
             ![d] = Advance(ApplyOne(replica[d], d, Incoming(d), now, fails), round[d].source)]
  BY DEF Apply
<1>5. PICK T : T = ApplyOne(replica[d], d, Incoming(d), now, fails)
  OBVIOUS
<1>6. Evolves(replica[d], T, d, {}) /\ (~fails => Known(T, Incoming(d)))
  BY <1>1, <1>3, <1>5, InvParts, ApplyOneKnows
<1>7. replica' = [replica EXCEPT ![d] = Advance(T, round[d].source)]
  BY <1>4, <1>5
<1>8. SetRound(d, [round[d] EXCEPT !.at = "pull"])
  BY DEF Apply
<1>9. fails => <<d, round[d].source, Cursor(d)>> \in unapplied'
  BY <1>4 DEF Leaves
<1> QED BY <1>1, <1>2, <1>6, <1>7, <1>8, <1>9, AdvanceMoves

\* A broken file is passed without a change to the library.
LEMMA PassMalformedMoves ==
  ASSUME Inv, NEW d \in Device, PassMalformed(d)
  PROVE  \E S, t : DeviceMoves(d, S, t)
<1>1. Pulling(d) /\ <<d, round[d].source, Cursor(d)>> \in unapplied'
  BY DEF PassMalformed, Leaves
<1>2. round[d].at = "pull" /\ Cursor(d) <= Len(stream[round[d].source])
  BY <1>1, PullingIncoming
<1>3. Fit(replica[d], d) /\ replica[d] \in Replica
  BY InvParts
<1>4. Evolves(replica[d], replica[d], d, {})
  <2>1. SameQueue(replica[d], replica[d])
    BY <1>3 DEF SameQueue
  <2> QED BY <1>3, <2>1, SameQueueEvolves
<1>5. SetRound(d, [round[d] EXCEPT !.at = "pull"])
  BY <1>1, StillPulling DEF PassMalformed
<1>6. replica' = [replica EXCEPT ![d] = Advance(replica[d], round[d].source)]
  BY DEF PassMalformed
<1> QED BY <1>1, <1>2, <1>4, <1>5, <1>6, AdvanceMoves

\* Passing a file unapplied counts as a failure.
LEMMA LeavesCounts ==
  ASSUME Inv, NEW d \in Device, round[d].source \in Device, Leaves(d), UNCHANGED edited
  PROVE  Counted'
<1>1. Counted /\ MaxFailures \in Nat /\ replica[d].cursors \in [Device -> Nat \ {0}]
  BY InvParts, StreamsAssumption DEF Inv, StateTyped, Replica
<1>2. edits' = edits /\ failures' = failures + 1 /\ failures < MaxFailures
  BY DEF Leaves, edited
<1>3. unapplied' = unapplied \cup {<<d, round[d].source, Cursor(d)>>}
  BY DEF Leaves
<1>4. <<d, round[d].source, Cursor(d)>> \in Device \X Device \X (Nat \ {0})
  BY <1>1 DEF Cursor
<1> QED BY <1>1, <1>2, <1>3, <1>4 DEF Counted

LEMMA OpeningMoves ==
  ASSUME Inv, NEW d \in Device, BeginRound(d) \/ NextSource(d)
  PROVE  \E S, t : DeviceMoves(d, S, t)
<1>1. CASE BeginRound(d)
  <2> DEFINE t == Opened(d, Device \ {d}, QueuedHeads(replica[d]))
  <2>1. QueuedHeads(replica[d]) \in SUBSET QueueRow
    BY InvParts DEF QueuedHeads, Unsent, Replica
  <2>2. t \in Round /\ RoundFits(replica[d], t, d, stream)
    BY <2>1, OpenedFits
  <2>3. SetRound(d, t) /\ UNCHANGED replica
    BY <1>1 DEF BeginRound
  <2> HIDE DEF t
  <2> QED BY <2>2, <2>3, RoundMoves
<1>2. CASE NextSource(d)
  <2> DEFINE t == Opened(d, round[d].sources, round[d].queued)
  <2>1. round[d].sources \in SUBSET (Device \ {d}) /\ round[d].queued \in SUBSET QueueRow
    <3>1. round[d].at = "pull" /\ round[d] \in Round /\ d \notin round[d].sources
      BY <1>2, InvParts DEF NextSource, DeviceFits, RoundFits
    <3> QED BY <3>1, PullingTyped
  <2>2. t \in Round /\ RoundFits(replica[d], t, d, stream)
    BY <2>1, OpenedFits
  <2>3. SetRound(d, t) /\ UNCHANGED replica
    BY <1>2 DEF NextSource
  <2> HIDE DEF t
  <2> QED BY <2>2, <2>3, RoundMoves
<1> QED BY <1>1, <1>2

LEMMA EndingMoves ==
  ASSUME Inv, NEW d \in Device, SetRound(d, Idle), UNCHANGED replica
  PROVE  \E S, t : DeviceMoves(d, S, t)
<1>1. Idle \in Round /\ RoundFits(replica[d], Idle, d, stream)
  BY IdleFits
<1> QED BY <1>1, RoundMoves

LEMMA PullMoves ==
  ASSUME Inv, NEW d \in Device, Pull(d)
  PROVE  \E S, t : DeviceMoves(d, S, t)
<1>1. CASE BeginRound(d) \/ NextSource(d)
  BY <1>1, OpeningMoves
<1>2. CASE Agree(d)
  BY <1>2, AgreeMoves
<1>3. CASE AgreeFails(d)
  BY <1>3, EndingMoves DEF AgreeFails
<1>4. CASE Park(d) \/ TakeUp(d)
  BY <1>4, ParkMoves
<1>5. CASE ResolveRival(d)
  BY <1>5, ResolveRivalMoves
<1>6. CASE Apply(d)
  BY <1>6, ApplyMoves
<1>7. CASE PassMalformed(d)
  BY <1>7, PassMalformedMoves
<1> QED BY <1>1, <1>2, <1>3, <1>4, <1>5, <1>6, <1>7 DEF Pull

\* A pull writes no file and counts what it passes unapplied.
LEMMA PullCounts ==
  ASSUME Inv, NEW d \in Device, Pull(d)
  PROVE  UNCHANGED files /\ Counted'
<1>1. Counted
  BY DEF Inv, StateTyped
<1>2. CASE UNCHANGED failed
  <2>1. UNCHANGED <<files, edited>>
    BY DEF Pull, BeginRound, NextSource, PassMalformed, Agree, AgreeFails, Park, ResolveRival,
           TakeUp, Apply
  <2> QED BY <1>1, <1>2, <2>1 DEF Counted, edited, failed
<1>3. CASE PassMalformed(d)
  <2>1. Leaves(d) /\ UNCHANGED <<files, edited>> /\ Pulling(d)
    BY <1>3 DEF PassMalformed
  <2> QED BY <2>1, PullingIncoming, LeavesCounts
<1>4. CASE Apply(d) /\ ~UNCHANGED failed
  <2>1. Leaves(d) /\ UNCHANGED <<files, edited>> /\ round[d].at = "apply"
    BY <1>4 DEF Apply
  <2>2. round[d].source \in Device
    BY <2>1, InvParts, PullingTyped
  <2> QED BY <2>1, <2>2, LeavesCounts
<1>5. Apply(d) \/ PassMalformed(d) \/ UNCHANGED failed
  BY DEF Pull, BeginRound, NextSource, Agree, AgreeFails, Park, ResolveRival, TakeUp
<1> QED BY <1>2, <1>3, <1>4, <1>5

-----------------------------------------------------------------------------
\* Publishing.

LEMMA PendingInOrder ==
  ASSUME Inv, NEW d \in Device, Pending(replica[d]) # {}
  PROVE  LET batch == InOrder(Pending(replica[d]))
         IN  batch \in Seq(QueueRow) /\ batch # <<>> /\ BatchQueued(replica[d], batch)
<1> DEFINE R == replica[d]
           rows == Pending(R)
           batch == InOrder(rows)
<1>1. R \in Replica /\ IdsCounted(R, d)
  BY InvParts DEF Fit
<1>2. rows \in SUBSET R.queue /\ rows # {}
  BY DEF Pending
<1>3. R.queue \in SUBSET QueueRow
  BY <1>1 DEF Replica
<1> HIDE DEF rows, R
<1>4. IsFiniteSet(rows)
  BY <1>1, <1>2, FS_Subset DEF IdsCounted
<1>5. \A q \in rows : q.id \in Device \X Nat
  BY <1>2, <1>3 DEF QueueRow
<1>6. \A q \in rows : q.id = <<d, q.id[2]>> /\ q.id[2] \in Nat
  BY <1>1, <1>2, <1>5 DEF IdsCounted
<1>7. \A p, q \in rows : p.id[2] = q.id[2] => p = q
  <2>1. ASSUME NEW p \in rows, NEW q \in rows, p.id[2] = q.id[2] PROVE p = q
    <3>1. p.id = q.id
      BY <1>6, <2>1
    <3> QED BY <1>1, <1>2, <3>1 DEF IdsCounted
  <2> QED BY <2>1
<1>8. batch = Ranked(rows)
  BY DEF InOrder, Ranked
<1> HIDE DEF batch
<1>9. /\ Cardinality(rows) \in Nat /\ DOMAIN Ranked(rows) = 1..Cardinality(rows)
      /\ \A n \in DOMAIN Ranked(rows) : Ranked(rows)[n] \in rows
      /\ \A q \in rows : \E n \in DOMAIN Ranked(rows) : Ranked(rows)[n] = q
  BY <1>4, <1>6, <1>7, RankedLists
<1>10. /\ DOMAIN batch = 1..Cardinality(rows) /\ \A n \in DOMAIN batch : batch[n] \in rows
       /\ DOMAIN batch # {}
  BY <1>2, <1>8, <1>9
<1>11. batch \in Seq(QueueRow)
  <2>1. batch = [n \in 1..Cardinality(rows) |-> batch[n]]
    BY <1>8, <1>9 DEF Ranked
  <2>2. \A n \in 1..Cardinality(rows) : batch[n] \in QueueRow
    BY <1>2, <1>3, <1>10
  <2>3. batch \in [1..Cardinality(rows) -> QueueRow]
    BY <2>1, <2>2
  <2> QED BY <1>9, <2>3
<1>12. batch # <<>>
  <2>1. DOMAIN <<>> = {}
    OBVIOUS
  <2> QED BY <1>10, <2>1
<1>13. BatchQueued(R, batch)
  <2>1. ASSUME NEW i \in DOMAIN batch
        PROVE  /\ batch[i].id[2] <= R.minted
               /\ \A p \in R.queue : p.id = batch[i].id =>
                    p.entity = batch[i].entity /\ p.doc = batch[i].doc
    <3>1. batch[i] \in R.queue
      BY <1>2, <1>10
    <3> QED BY <1>1, <3>1 DEF IdsCounted
  <2> QED BY <2>1 DEF BatchQueued
<1> QED BY <1>11, <1>12, <1>13 DEF batch, rows, R

LEMMA ListPendingMoves ==
  ASSUME Inv, NEW d \in Device, ListPending(d)
  PROVE  \E S, t : DeviceMoves(d, S, t)
<1> DEFINE n == round[d].next
<1>1. /\ round[d].at = "list" /\ UNCHANGED replica
      /\ round[d] \in Round /\ RoundFits(replica[d], round[d], d, stream)
  BY InvParts DEF ListPending, DeviceFits
<1>2. n \in Nat \ {0} /\ n <= Len(stream[d]) + 1
  BY <1>1, NextTyped DEF RoundFits
<1> HIDE DEF n
<1>3. CASE Pending(replica[d]) # {}
  <2> DEFINE batch == InOrder(Pending(replica[d]))
             t == [at |-> "publish", published |-> TRUE, next |-> n, batch |-> batch]
  <2>1. batch \in Seq(QueueRow) /\ batch # <<>> /\ BatchQueued(replica[d], batch)
    BY <1>3, PendingInOrder
  <2>2. SetRound(d, t)
    BY <1>3 DEF ListPending, n
  <2> HIDE DEF batch
  <2>3. t \in Round /\ t.at = "publish" /\ t.next = n /\ t.batch = batch
    BY <1>2, <2>1 DEF Round
  <2> HIDE DEF t
  <2>4. RoundFits(replica[d], t, d, stream)
    BY <1>2, <2>1, <2>3 DEF RoundFits
  <2> QED BY <1>1, <2>2, <2>3, <2>4, RoundMoves
<1>4. CASE Pending(replica[d]) = {} /\ round[d].published
  <2> DEFINE t == [at |-> "bump", next |-> n]
  <2>1. SetRound(d, t)
    BY <1>4 DEF ListPending, n
  <2>2. t \in Round /\ t.at = "bump" /\ t.next = n
    BY <1>2 DEF Round
  <2> HIDE DEF t
  <2>3. RoundFits(replica[d], t, d, stream)
    BY <1>2, <2>2 DEF RoundFits
  <2> QED BY <1>1, <2>1, <2>2, <2>3, RoundMoves
<1>5. CASE Pending(replica[d]) = {} /\ ~round[d].published
  <2>1. SetRound(d, Idle)
    BY <1>5 DEF ListPending
  <2> QED BY <1>1, <2>1, EndingMoves
<1> QED BY <1>3, <1>4, <1>5

\* The first record of a batch, and the rest.
LEMMA BatchParts ==
  ASSUME NEW batch \in Seq(QueueRow), batch # <<>>
  PROVE  /\ Head(batch) = batch[1] /\ Head(batch) \in QueueRow /\ 1 \in DOMAIN batch
         /\ Tail(batch) \in Seq(QueueRow)
         /\ \A i \in DOMAIN Tail(batch) :
              i + 1 \in DOMAIN batch /\ Tail(batch)[i] = batch[i + 1]
<1>1. Len(batch) \in Nat /\ Len(batch) # 0 /\ DOMAIN batch = 1..Len(batch)
  BY EmptySeq
<1>2. Head(batch) = batch[1] /\ 1 \in DOMAIN batch /\ batch[1] \in QueueRow
  BY <1>1
<1>3. /\ Tail(batch) \in Seq(QueueRow) /\ Len(Tail(batch)) = Len(batch) - 1
      /\ \A i \in 1..Len(Tail(batch)) : Tail(batch)[i] = batch[i + 1]
  BY HeadTailProperties
<1>4. DOMAIN Tail(batch) = 1..Len(Tail(batch))
  BY <1>3
<1> QED BY <1>1, <1>2, <1>3, <1>4

LEMMA MarkMoves ==
  ASSUME Inv, NEW d \in Device, Mark(d)
  PROVE  \E S, t : DeviceMoves(d, S, t)
<1> DEFINE R == replica[d]
           n == round[d].next
           batch == round[d].batch
           q == Head(batch)
           rest == Tail(batch)
<1>1. /\ round[d].at = "mark" /\ round[d] \in Round /\ R \in Replica /\ Fit(R, d)
      /\ DeviceFits(R, round[d], d, stream) /\ Len(stream[d]) \in Nat
  BY InvParts DEF Mark
<1>2. /\ n \in Nat \ {0} /\ n <= Len(stream[d])
      /\ batch \in Seq(QueueRow) /\ batch # <<>> /\ BatchQueued(R, batch)
      /\ Carries(stream, batch[1].entity, batch[1].doc)
  BY <1>1, PublishingTyped DEF DeviceFits, RoundFits
<1>3. /\ q = batch[1] /\ q \in QueueRow /\ 1 \in DOMAIN batch
      /\ rest \in Seq(QueueRow)
      /\ \A i \in DOMAIN rest : i + 1 \in DOMAIN batch /\ rest[i] = batch[i + 1]
  BY <1>2, BatchParts
<1>4. PICK T : T = MarkApplied(R, q)
  OBVIOUS
<1> DEFINE S == [T EXCEPT !.pushSeq = n]
<1>5. replica' = [replica EXCEPT ![d] = S]
  BY <1>4 DEF Mark
<1>6. SetRound(d, IF rest = <<>> THEN [at |-> "list", published |-> TRUE, next |-> n + 1]
                  ELSE [round[d] EXCEPT !.at = "publish", !.next = n + 1, !.batch = rest])
  BY DEF Mark
<1>7. round[d] \in [at : {"publish", "mark"}, published : BOOLEAN, next : Nat \ {0},
                    batch : Seq(QueueRow)]
  BY <1>1 DEF Round, Idle
<1> HIDE DEF q, rest
<1>8. Evolves(R, T, d, {q.id})
  BY <1>1, <1>3, <1>4, MarkAppliedEvolves
<1>9. \A p \in R.queue : p.id \in {q.id} => Carries(stream, p.entity, p.doc)
  <2>1. ASSUME NEW p \in R.queue, p.id = q.id PROVE Carries(stream, p.entity, p.doc)
    <3>1. p.entity = batch[1].entity /\ p.doc = batch[1].doc
      BY <1>2, <1>3, <2>1 DEF BatchQueued
    <3> QED BY <1>2, <3>1
  <2> QED BY <2>1
<1>10. DeviceFits(T, round[d], d, stream)
  BY <1>1, <1>8, <1>9, EvolvedFits
<1>11. T \in Replica /\ T.cursors = R.cursors /\ BatchQueued(T, batch)
  BY <1>1, <1>8, <1>10 DEF Evolves, Fit, DeviceFits, RoundFits
<1> HIDE DEF batch, R
<1>12. /\ S \in Replica /\ S.queue = T.queue /\ S.minted = T.minted /\ S.cursors = T.cursors
       /\ S.pushSeq = n
  BY <1>2, <1>11 DEF Replica
<1> HIDE DEF S
<1>13. Fit(S, d) /\ CountersFit(S, d, stream) /\ AppliedCarried(S, stream)
  <2>1. n \in 0..Len(stream[d])
    BY <1>1, <1>2
  <2> QED BY <1>10, <1>12, <2>1 DEF DeviceFits, Fit, IdsCounted, CountersFit, AppliedCarried
<1>14. Passes(d, R, S, stream, unapplied')
  <2>1. \A s \in Device : S.cursors[s] = R.cursors[s] /\ R.cursors[s] \in Nat
    BY <1>1, <1>11, <1>12 DEF Replica
  <2> QED BY <2>1 DEF Passes
<1>15. PICK m \in Nat \ {0} : m = n + 1 /\ m <= Len(stream[d]) + 1
  BY <1>1, <1>2
<1>16. CASE rest = <<>>
  <2> DEFINE t == [at |-> "list", published |-> TRUE, next |-> m]
  <2>1. SetRound(d, t)
    BY <1>6, <1>15, <1>16
  <2>2. t \in Round /\ t.at = "list" /\ t.next = m
    BY DEF Round
  <2> HIDE DEF t
  <2>3. RoundFits(S, t, d, stream)
    BY <1>15, <2>2 DEF RoundFits
  <2>4. DeviceMoves(d, S, t)
    BY <1>5, <1>13, <1>14, <2>1, <2>2, <2>3 DEF DeviceMoves, DeviceFits, SetRound, R
  <2> QED BY <2>4
<1>17. CASE rest # <<>>
  <2> DEFINE t == [round[d] EXCEPT !.at = "publish", !.next = m, !.batch = rest]
  <2>1. SetRound(d, t)
    BY <1>6, <1>15, <1>17
  <2>2. t \in Round /\ t.at = "publish" /\ t.next = m /\ t.batch = rest
    BY <1>3, <1>7 DEF Round
  <2> HIDE DEF t
  <2>3. BatchQueued(S, rest)
    BY <1>3, <1>11, <1>12 DEF BatchQueued
  <2>4. RoundFits(S, t, d, stream)
    BY <1>15, <1>17, <2>2, <2>3 DEF RoundFits
  <2>5. DeviceMoves(d, S, t)
    BY <1>5, <1>13, <1>14, <2>1, <2>2, <2>4 DEF DeviceMoves, DeviceFits, SetRound, R
  <2> QED BY <2>5
<1> QED BY <1>16, <1>17

\* The first free number is the one after the last.
LEMMA FreeSlotIsNext ==
  ASSUME Inv, NEW d \in Device, round[d].at = "publish"
  PROVE  FreeSlot(d) = Len(stream[d]) + 1
<1>1. Len(stream[d]) \in Nat /\ round[d].next \in Nat /\ round[d].next <= Len(stream[d]) + 1
  BY InvParts, NextTyped DEF DeviceFits, RoundFits
<1>2. PICK a \in Nat, b \in Nat : a = round[d].next /\ b = Len(stream[d]) + 1 /\ a <= b
  BY <1>1
<1>3. FreeSlot(d) = Max({a, b})
  BY <1>2 DEF FreeSlot
<1>4. Max({a, b}) \in {a, b} /\ Max({a, b}) >= b
  BY LargerOfTwo
<1> QED BY <1>2, <1>3, <1>4

LEMMA PublishInv ==
  ASSUME Inv, NEW d \in Device, Publish(d)
  PROVE  Inv' /\ KnownStep
<1> DEFINE l == Len(stream[d])
           batch == round[d].batch
           q == Head(batch)
           r == Wire(d, q)
           t == [round[d] EXCEPT !.at = "mark", !.next = l + 1]
           g == [stream EXCEPT ![d] = Append(@, r)]
<1>1. /\ round[d].at = "publish" /\ round[d] \in Round /\ l \in Nat
      /\ DeviceFits(replica[d], round[d], d, stream)
      /\ stream \in [Device -> Seq(RecordFile)] /\ round \in [Device -> Round]
      /\ replica \in [Device -> Replica]
      /\ head' = head /\ replica' = replica
      /\ edits' = edits /\ failures' = failures /\ unapplied' = unapplied
  BY InvParts DEF Publish, edited, failed
<1>2. batch \in Seq(QueueRow) /\ batch # <<>> /\ BatchQueued(replica[d], batch)
  BY <1>1, PublishingTyped DEF DeviceFits, RoundFits
<1>3. q \in QueueRow /\ q = batch[1]
  BY <1>2, BatchParts
<1>4. /\ r \in RecordFile /\ r.device = d
      /\ r.entity = batch[1].entity /\ r.doc = batch[1].doc
  <2> HIDE DEF q
  <2>1. r \in RecordFile /\ r.device = d /\ r.entity = q.entity /\ r.doc = q.doc
    BY <1>3 DEF Wire, QueueRow, RecordFile
  <2> QED BY <1>3, <2>1
<1>5. Put(stream[d], l + 1, r) = Append(stream[d], r)
  <2> HIDE DEF r
  <2>1. stream[d] \in Seq(RecordFile) /\ DOMAIN stream[d] = 1..l
    BY <1>1, LengthIsNatural
  <2>2. 1..l \cup {l + 1} = 1..l + 1 /\ l + 1 \notin 1..l
    BY <1>1
  <2>3. Put(stream[d], l + 1, r) =
          [n \in 1..l + 1 |-> IF n \in 1..l THEN stream[d][n] ELSE r]
    BY <2>1, <2>2 DEF Put
  <2>4. Append(stream[d], r) = [n \in 1..l + 1 |-> IF n \in 1..l THEN stream[d][n] ELSE r]
    BY <1>1, <1>4, <2>1
  <2> QED BY <2>3, <2>4
<1>6. stream' = g /\ round' = [round EXCEPT ![d] = t]
  BY <1>1, <1>5, FreeSlotIsNext DEF Publish, SetRound
<1> HIDE DEF r, q
<1>7. /\ g \in [Device -> Seq(RecordFile)]
      /\ Len(g[d]) = l + 1 /\ g[d][l + 1] = r
      /\ \A n \in 1..l : g[d][n] = stream[d][n]
      /\ \A s \in Device \ {d} : g[s] = stream[s]
  <2>1. stream[d] \in Seq(RecordFile) /\ g[d] = Append(stream[d], r)
    BY <1>1
  <2>2. /\ Append(stream[d], r) \in Seq(RecordFile)
        /\ Len(Append(stream[d], r)) = l + 1 /\ Append(stream[d], r)[l + 1] = r
        /\ \A n \in 1..l : Append(stream[d], r)[n] = stream[d][n]
    BY <1>4, <2>1, AppendProperties
  <2> QED BY <1>1, <2>1, <2>2
<1> HIDE DEF g
<1>8. Lengthened(stream, g)
  <2>1. ASSUME NEW s \in Device
        PROVE  Len(stream[s]) <= Len(g[s]) /\ \A n \in 1..Len(stream[s]) : g[s][n] = stream[s][n]
    <3>1. CASE s = d
      BY <1>1, <1>7, <3>1
    <3>2. CASE s # d
      <4>1. Len(stream[s]) \in Nat /\ g[s] = stream[s]
        BY <1>1, <1>7, <3>2, LengthIsNatural
      <4> QED BY <4>1
    <3> QED BY <3>1, <3>2
  <2> QED BY <1>1, <1>7, <2>1 DEF Lengthened
<1>9. /\ t \in Round /\ t.at = "mark" /\ t.next = l + 1 /\ t.batch = batch
  <2>1. round[d] \in [at : {"publish", "mark"}, published : BOOLEAN, next : Nat \ {0},
                      batch : Seq(QueueRow)]
    BY <1>1 DEF Round, Idle
  <2>2. l + 1 \in Nat \ {0}
    BY <1>1
  <2> QED BY <2>1, <2>2 DEF Round
<1> HIDE DEF t
<1>10. Carries(g, batch[1].entity, batch[1].doc)
  <2>1. l + 1 \in 1..Len(g[d])
    BY <1>1, <1>7
  <2> QED BY <1>4, <1>7, <2>1 DEF Carries
<1>11. RoundFits(replica[d], t, d, g)
  <2>1. l + 1 <= Len(g[d])
    BY <1>1, <1>7
  <2> HIDE DEF l, batch
  <2> QED BY <1>2, <1>7, <1>9, <1>10, <2>1 DEF RoundFits
<1>12. ASSUME NEW c \in Device PROVE DeviceFits(replica'[c], round'[c], c, stream')
  <2>1. DeviceFits(replica[c], round[c], c, g)
    <3>1. DeviceFits(replica[c], round[c], c, stream) /\ round[c] \in Round
      BY InvParts
    <3> QED BY <1>8, <3>1, LengthenedFits
  <2>2. CASE c = d
    <3>1. round'[c] = t
      BY <1>1, <1>6, <2>2
    <3> QED BY <1>1, <1>6, <1>11, <2>1, <2>2, <3>1, OtherRoundFits
  <2>3. CASE c # d
    <3>1. round'[c] = round[c]
      BY <1>1, <1>6, <2>3
    <3> QED BY <1>1, <1>6, <2>1, <3>1
  <2> QED BY <2>2, <2>3
<1>13. StreamsOwned'
  <2>1. ASSUME NEW s \in Device, NEW n \in 1..Len(g[s]) PROVE g[s][n].device = s
    <3>1. CASE s = d /\ n = l + 1
      BY <1>4, <1>7, <3>1
    <3>2. CASE s = d /\ n # l + 1
      <4>1. n \in 1..l
        BY <1>1, <1>7, <3>2
      <4>2. g[s][n] = stream[d][n]
        BY <1>7, <3>2, <4>1
      <4> QED BY <3>2, <4>1, <4>2 DEF Inv, StreamsOwned
    <3>3. CASE s # d
      BY <1>7, <3>3 DEF Inv, StreamsOwned
    <3> QED BY <3>1, <3>2, <3>3
  <2> QED BY <1>6, <2>1 DEF StreamsOwned
<1>14. StateTyped'
  <2>1. ASSUME NEW c \in Device PROVE head[c] <= Len(g[c]) + 1
    <3>1. head[c] \in Nat /\ head[c] <= Len(stream[c]) + 1
      BY DEF Inv, StateTyped
    <3>2. Len(stream[c]) \in Nat /\ Len(g[c]) \in Nat /\ Len(stream[c]) <= Len(g[c])
      BY <1>8, LengthIsNatural DEF Lengthened
    <3> QED BY <3>1, <3>2
  <2>2. round' \in [Device -> Round]
    BY <1>1, <1>6, <1>9
  <2> QED BY <1>1, <1>6, <1>7, <2>1, <2>2 DEF Inv, StateTyped, Counted
<1>15. KnownStep
  <2>1. \A c \in Device : \A s \in Device : replica[c].cursors[s] \in Nat
    BY <1>1 DEF Replica
  <2> QED BY <1>1, <2>1 DEF KnownStep
<1> QED BY <1>12, <1>13, <1>14, <1>15 DEF Inv

LEMMA WriteHeadInv ==
  ASSUME Inv, NEW d \in Device, WriteHead(d)
  PROVE  Inv' /\ KnownStep
<1>1. /\ stream' = stream /\ replica' = replica
      /\ edits' = edits /\ failures' = failures /\ unapplied' = unapplied
      /\ round' = [round EXCEPT ![d] = Idle]
      /\ head' = [head EXCEPT ![d] = round[d].next]
  BY DEF WriteHead, SetRound, edited, failed
<1>2. round[d].next \in Nat \ {0} /\ round[d].next <= Len(stream[d]) + 1
  BY InvParts, NextTyped DEF WriteHead, DeviceFits, RoundFits
<1>3. replica \in [Device -> Replica] /\ round \in [Device -> Round]
  BY InvParts
<1>4. ASSUME NEW c \in Device PROVE DeviceFits(replica'[c], round'[c], c, stream')
  <2>1. DeviceFits(replica[c], round[c], c, stream)
    BY InvParts
  <2>2. CASE c = d
    <3>1. round'[c] = Idle
      BY <1>1, <1>3, <2>2
    <3> QED BY <1>1, <2>1, <3>1, IdleFits, OtherRoundFits
  <2>3. CASE c # d
    <3>1. round'[c] = round[c]
      BY <1>1, <1>3, <2>3
    <3> QED BY <1>1, <2>1, <3>1
  <2> QED BY <2>2, <2>3
<1>5. StateTyped'
  <2>1. round' \in [Device -> Round]
    BY <1>1, <1>3, IdleFits
  <2>2. head' \in [Device -> Nat \ {0}] /\ \A c \in Device : head'[c] <= Len(stream[c]) + 1
    BY <1>1, <1>2 DEF Inv, StateTyped
  <2> QED BY <1>1, <2>1, <2>2 DEF Inv, StateTyped, Counted
<1>6. StreamsOwned'
  BY <1>1 DEF Inv, StreamsOwned
<1>7. KnownStep
  <2>1. \A c \in Device : \A s \in Device : replica[c].cursors[s] \in Nat
    BY <1>3 DEF Replica
  <2> QED BY <1>1, <2>1 DEF KnownStep
<1> QED BY <1>4, <1>5, <1>6, <1>7 DEF Inv

-----------------------------------------------------------------------------
\* Failures.

\* The restart finds what was committed and reconciles it.
LEMMA RestartMoves ==
  ASSUME Inv, NEW d \in Device, Restart(d)
  PROVE  \E S, t : DeviceMoves(d, S, t)
<1>1. PICK now \in Now, R \in Committed(d) :
        replica' = [replica EXCEPT ![d] = Reconcile(R, d, now)]
  BY DEF Restart
<1>2. Fit(replica[d], d) /\ replica[d] \in Replica
  BY InvParts
<1>3. PICK ids : /\ Evolves(replica[d], R, d, ids)
                 /\ \A p \in replica[d].queue : p.id \in ids => Carries(stream, p.entity, p.doc)
  <2>1. CASE R = replica[d]
    <3>1. SameQueue(replica[d], R)
      BY <1>2, <2>1 DEF SameQueue
    <3>2. Evolves(replica[d], R, d, {})
      BY <1>2, <3>1, SameQueueEvolves
    <3> QED BY <3>2
  <2>2. ASSUME NEW q \in Agreeable(d), R = Accepted(replica[d], q)
        PROVE  \E x : /\ Evolves(replica[d], R, d, x)
                      /\ \A p \in replica[d].queue : p.id \in x => Carries(stream, p.entity, p.doc)
    <3>1. Evolves(replica[d], R, d, {q.id})
      BY <1>2, <2>2, AcceptedEvolves
    <3> QED BY <3>1, AgreeableCarried
  <2>3. ASSUME NEW q \in Agreeable(d), R = AgreeShadow(replica[d], q, Incoming(d))
        PROVE  \E x : /\ Evolves(replica[d], R, d, x)
                      /\ \A p \in replica[d].queue : p.id \in x => Carries(stream, p.entity, p.doc)
    <3>1. q \in QueueRow /\ Incoming(d) \in RecordFile
      BY AgreeableCarried, PullingIncoming
    <3>2. Evolves(replica[d], R, d, {q.id})
      BY <1>2, <2>3, <3>1, AgreeShadowKnows
    <3> QED BY <3>2, AgreeableCarried
  <2> QED BY <2>1, <2>2, <2>3 DEF Committed
<1>4. PICK S : S = Reconcile(R, d, now)
  OBVIOUS
<1>5. Evolves(R, S, d, {})
  BY <1>3, <1>4, ReconcileEvolves DEF Evolves
<1>6. Evolves(replica[d], S, d, ids)
  BY <1>2, <1>3, <1>5, EvolvesTransitive
<1>7. Idle \in Round /\ DeviceFits(replica[d], Idle, d, stream)
  BY InvParts, IdleFits, OtherRoundFits
<1>8. DeviceFits(S, Idle, d, stream)
  BY <1>3, <1>6, <1>7, EvolvedFits
<1>9. Passes(d, replica[d], S, stream, unapplied')
  BY <1>2, <1>6, EvolvesPasses
<1>10. replica' = [replica EXCEPT ![d] = S] /\ SetRound(d, Idle)
  BY <1>1, <1>4 DEF Restart, Failing
<1> QED BY <1>7, <1>8, <1>9, <1>10 DEF DeviceMoves, SetRound

LEMMA FailingCounts ==
  ASSUME Inv, NEW d \in Device, Failing(d)
  PROVE  UNCHANGED files /\ Counted'
<1>1. /\ edits \in 0..MaxEdits /\ failures \in 0..MaxFailures /\ MaxFailures \in Nat
      /\ failures < MaxFailures /\ failures' = failures + 1 /\ edits' = edits
      /\ UNCHANGED files /\ unapplied' = unapplied
      /\ unapplied \subseteq Device \X Device \X (Nat \ {0})
  BY StreamsAssumption DEF Inv, StateTyped, Counted, Failing, edited
<1> QED BY <1>1 DEF Counted

-----------------------------------------------------------------------------
\* The invariant.

LEMMA InitInv == Init => Inv
<1> SUFFICES ASSUME Init PROVE Inv
  OBVIOUS
<1> DEFINE author == CHOOSE d \in Device : TRUE
           q == [id |-> <<author, 0>>, entity |-> Snippet, version |-> 1,
                 doc |-> FirstDoc, at |-> 0, state |-> "applied"]
           r == Wire(author, q)
           Length(d) == IF d = author THEN 1 ELSE 0
<1>1. author \in Device /\ MaxEdits \in Nat /\ MaxCopies \in Nat /\ MaxFailures \in Nat
  BY StreamsAssumption
<1>2. FirstDoc \in Doc /\ Snippet \in Entities
  BY <1>1, EntitiesFinite DEF FirstDoc, Doc
<1> HIDE DEF author
<1>3. /\ r \in RecordFile /\ r.entity = Snippet /\ r.doc = FirstDoc /\ r.device = author
  BY <1>1, <1>2 DEF Wire, RecordFile
<1>4. /\ q \in QueueRow /\ q.id = <<author, 0>> /\ q.entity = Snippet /\ q.doc = FirstDoc
  BY <1>1, <1>2 DEF QueueRow
<1> HIDE DEF q, r
<1> DEFINE rows == [e \in Entities |-> IF e = Snippet THEN FirstDoc ELSE NoRow]
           shadow == [e \in Entities |-> IF e = Snippet THEN [version |-> 1, doc |-> FirstDoc]
                                                        ELSE [version |-> 0, doc |-> NoDoc]]
           kept(d) == [e \in Entities |-> IF e = Snippet /\ d = author THEN {0} ELSE {}]
           queue(d) == IF d = author THEN {q} ELSE {}
           cursors == [s \in Device |-> Length(s) + 1]
           R(d) == [row |-> rows, queue |-> queue(d), shadow |-> shadow, history |-> kept(d),
                    minted |-> 0, copies |-> 0, cursors |-> cursors, pushSeq |-> Length(d)]
<1>5. /\ replica = [d \in Device |-> R(d)]
      /\ stream = [d \in Device |-> IF d = author THEN <<r>> ELSE <<>>]
      /\ head = [d \in Device |-> Length(d) + 1]
      /\ round = [d \in Device |-> Idle] /\ edits = 0 /\ failures = 0
      /\ unapplied = {}
  BY DEF Init, author, r, q
<1>6. rows \in [Entities -> Doc \cup {NoRow}]
  BY <1>2
<1>7. shadow \in [Entities -> [version : Nat, doc : Doc \cup {NoDoc}]]
  BY <1>2
<1>8. \A d \in Device : kept(d) \in [Entities -> SUBSET (0..MaxEdits)]
  BY <1>1
<1>9. cursors \in [Device -> Nat \ {0}] /\ \A d \in Device : Length(d) \in Nat
  OBVIOUS
<1>10. \A d \in Device : /\ queue(d) \in SUBSET {q} /\ (d # author => queue(d) = {})
                         /\ IsFiniteSet(queue(d))
  BY FS_EmptySet, FS_Singleton
<1>11. /\ stream \in [Device -> Seq(RecordFile)]
       /\ \A d \in Device : Len(stream[d]) = Length(d)
       /\ stream[author][1] = r
  <2>1. <<r>> \in Seq(RecordFile) /\ <<>> \in Seq(RecordFile) /\ <<r>>[1] = r
        /\ Len(<<r>>) = 1 /\ Len(<<>>) = 0
    BY <1>3
  <2> QED BY <1>1, <1>5, <2>1
<1> HIDE DEF rows, shadow, kept, queue
<1>12. \A d \in Device : R(d) \in Replica
  BY <1>1, <1>4, <1>6, <1>7, <1>8, <1>9, <1>10 DEF Replica
<1>13. \A s \in Device : cursors[s] \in 1..Len(stream[s]) + 1
  BY <1>11
<1>14. StateTyped
  <2>1. replica \in [Device -> Replica] /\ round \in [Device -> Round]
    BY <1>5, <1>12, IdleFits
  <2>2. head \in [Device -> Nat \ {0}] /\ \A d \in Device : head[d] <= Len(stream[d]) + 1
    BY <1>5, <1>9, <1>11
  <2> QED BY <1>1, <1>5, <1>11, <2>1, <2>2 DEF StateTyped, Counted
<1>15. StreamsOwned
  <2>1. ASSUME NEW s \in Device, NEW n \in 1..Len(stream[s]) PROVE stream[s][n].device = s
    <3>1. Len(stream[s]) = Length(s)
      BY <1>11
    <3>2. s = author /\ n = 1
      BY <3>1
    <3> QED BY <1>3, <1>11, <3>2
  <2> QED BY <2>1 DEF StreamsOwned
<1>16. ASSUME NEW d \in Device PROVE DeviceFits(R(d), Idle, d, stream)
  <2>1. PICK S : S = R(d)
    OBVIOUS
  <2>2. /\ S \in Replica /\ S.queue = queue(d) /\ S.cursors = cursors /\ S.minted = 0
        /\ S.pushSeq = Length(d)
    BY <1>12, <2>1
  <2>3. \A p \in S.queue : p = q /\ d = author
    BY <1>10, <2>2
  <2>4. IdsCounted(S, d)
    BY <1>4, <1>10, <2>2, <2>3 DEF IdsCounted
  <2>5. CountersFit(S, d, stream)
    BY <1>9, <1>11, <1>13, <2>2 DEF CountersFit
  <2>6. AppliedCarried(S, stream)
    <3>1. Carries(stream, Snippet, FirstDoc)
      <4>1. 1 \in 1..Len(stream[author])
        BY <1>1, <1>11
      <4> QED BY <1>1, <1>3, <1>11, <4>1 DEF Carries
    <3> QED BY <1>4, <2>3, <3>1 DEF AppliedCarried
  <2> QED BY <2>1, <2>2, <2>4, <2>5, <2>6, IdleFits DEF DeviceFits, Fit
<1> HIDE DEF R
<1>17. \A d \in Device : replica[d] = R(d) /\ round[d] = Idle
  BY <1>5
<1> QED BY <1>14, <1>15, <1>16, <1>17 DEF Inv

LEMMA StepKeeps == Inv /\ [Next]_vars => Inv' /\ [KnownStep]_vars
<1> SUFFICES ASSUME Inv, [Next]_vars PROVE Inv' /\ [KnownStep]_vars
  OBVIOUS
<1>1. CASE UNCHANGED vars
  <2>1. /\ stream' = stream /\ head' = head /\ replica' = replica /\ round' = round
        /\ edits' = edits /\ failures' = failures /\ unapplied' = unapplied
    BY <1>1 DEF vars, files, edited, failed
  <2>2. StateTyped' /\ StreamsOwned'
    BY <2>1 DEF Inv, StateTyped, Counted, StreamsOwned
  <2>3. \A d \in Device : DeviceFits(replica'[d], round'[d], d, stream')
    BY <2>1 DEF Inv
  <2> QED BY <1>1, <2>2, <2>3 DEF Inv
<1>2. CASE Next
  <2>1. PICK d \in Device : Local(d) \/ Pull(d) \/ Push(d) \/ RoundFails(d) \/ Restart(d)
    BY <1>2 DEF Next
  <2>2. Counted
    BY DEF Inv, StateTyped
  <2>3. CASE Local(d)
    BY <2>3, LocalMoves, MovesInv
  <2>4. CASE Pull(d)
    BY <2>4, PullCounts, PullMoves, MovesInv
  <2>5. CASE ListPending(d) \/ Mark(d)
    <3>1. UNCHANGED <<files, edited, failed>>
      BY <2>5 DEF ListPending, Mark
    <3>2. UNCHANGED files /\ Counted'
      BY <2>2, <3>1 DEF Counted, edited, failed
    <3> QED BY <2>2, <2>5, <3>2, ListPendingMoves, MarkMoves, MovesInv
  <2>6. CASE Publish(d)
    BY <2>6, PublishInv
  <2>7. CASE WriteHead(d)
    BY <2>7, WriteHeadInv
  <2>8. CASE RoundFails(d)
    <3>1. Failing(d) /\ SetRound(d, Idle) /\ UNCHANGED replica
      BY <2>8 DEF RoundFails, Failing
    <3>2. \E S, t : DeviceMoves(d, S, t)
      BY <3>1, EndingMoves
    <3> QED BY <3>1, <3>2, FailingCounts, MovesInv
  <2>9. CASE Restart(d)
    <3>1. Failing(d)
      BY <2>9 DEF Restart
    <3> QED BY <2>9, <3>1, RestartMoves, FailingCounts, MovesInv
  <2> QED BY <2>1, <2>3, <2>4, <2>5, <2>6, <2>7, <2>8, <2>9 DEF Push
<1> QED BY <1>1, <1>2

LEMMA InvTyped == Inv => TypeOK
<1> SUFFICES ASSUME Inv PROVE TypeOK
  OBVIOUS
<1>1. ASSUME NEW d \in Device
      PROVE  /\ \E n \in 0..Cardinality(DOMAIN stream[d]) : stream[d] \in [1..n -> RecordFile]
             /\ head[d] \in 1..Len(stream[d]) + 1
  <2>1. /\ stream[d] \in Seq(RecordFile) /\ Len(stream[d]) \in Nat
        /\ DOMAIN stream[d] = 1..Len(stream[d])
    BY InvParts, LengthIsNatural
  <2> DEFINE n == Len(stream[d])
  <2>2. Cardinality(DOMAIN stream[d]) = n
    BY <2>1, UpTo
  <2>3. stream[d] \in [1..n -> RecordFile]
    BY <2>1
  <2>4. n \in 0..Cardinality(DOMAIN stream[d])
    BY <2>1, <2>2
  <2>5. head[d] \in Nat \ {0} /\ head[d] <= n + 1
    BY DEF Inv, StateTyped
  <2>6. head[d] \in 1..n + 1
    BY <2>1, <2>5
  <2> QED BY <2>3, <2>4, <2>6
<1>2. \A d \in Device : CountersFit(replica[d], d, stream)
  BY DEF Inv, DeviceFits
<1>3. DOMAIN stream = Device
  BY DEF Inv, StateTyped
<1> QED BY <1>1, <1>2, <1>3 DEF TypeOK, Inv, StateTyped, Counted, CountersFit

LEMMA InvPublished == Inv => AppliedIsPublished
<1> SUFFICES ASSUME Inv, NEW d \in Device, NEW q \in replica[d].queue, q.state = "applied"
             PROVE  \E s \in Device : \E r \in ToSet(stream[s]) :
                      r.entity = q.entity /\ r.doc = q.doc
  BY DEF AppliedIsPublished
<1>1. Carries(stream, q.entity, q.doc)
  BY DEF Inv, DeviceFits, AppliedCarried
<1>2. PICK s \in Device :
        \E n \in 1..Len(stream[s]) : stream[s][n].entity = q.entity /\ stream[s][n].doc = q.doc
  BY <1>1 DEF Carries
<1>3. DOMAIN stream[s] = 1..Len(stream[s])
  BY InvParts, LengthIsNatural
<1> QED BY <1>2, <1>3 DEF ToSet

-----------------------------------------------------------------------------
\* The streams.

\* The files of a stream are numbered without a gap whatever fails between
\* publishing, marking and bumping the head, neither the head nor the push
\* counter nor any follower's cursor gets ahead of them, and replicas and rounds
\* have their types.
THEOREM StreamsTyped == Spec => []TypeOK
<1> QED BY InitInv, StepKeeps, InvTyped, PTL DEF Spec

\* mark_applied only follows a PUT that took effect, or an agreement with what
\* another device published: what counts as sent can be fetched by everybody,
\* for any number of devices, failed rounds and restarts.
THEOREM StreamsCarryApplied == Spec => []AppliedIsPublished
<1> QED BY InitInv, StepKeeps, InvPublished, PTL DEF Spec

\* webdav_cursor_put only passes a record with what was done about it: the
\* shadow is at its version, in whichever way it was applied, merged, agreed
\* with or outranked, or a parked tombstone holds the merge back; the only other
\* records it passes are broken files and records whose application failed.
THEOREM StreamsAccountForRecords == Spec => ReadIsKnown
<1>1. [KnownStep]_vars =>
        [\A d, s \in Device : replica'[d].cursors[s] > replica[d].cursors[s] =>
           LET r == stream[s][replica[d].cursors[s]]
           IN  \/ replica'[d].shadow[r.entity].version >= r.version
               \/ <<d, s, replica[d].cursors[s]>> \in unapplied'
               \/ HeldBack(replica'[d], r.entity)]_vars
  BY DEF KnownStep, Known
<1> QED BY <1>1, InitInv, StepKeeps, PTL DEF Spec, ReadIsKnown
=============================================================================

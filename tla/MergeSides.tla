----------------------------- MODULE MergeSides -----------------------------
(***************************************************************************)
(* Two devices edit their own copies of one snippet, starting from the     *)
(* document both agreed on with the server, with clocks that need not      *)
(* agree; at any moment one of them may have to merge.  The properties ask *)
(* what merge_documents would make of the two sides, whichever of them     *)
(* runs it.                                                                *)
(***************************************************************************)
EXTENDS RecordMerge

CONSTANTS
  Value,     \* values of the body, trigger and field units
  MaxUsage,  \* bound on the usage count
  MaxClock   \* bound on the record clocks

ASSUME SidesAssumption ==
  /\ MaxUsage \in Nat
  /\ MaxClock \in Nat \ {0}
  /\ Null \notin Nat

VARIABLES
  base,      \* the shadow document, or NoBase when there never was one
  side       \* side[d] = [doc, at, device] of device d

sides == <<base, side>>

Devices == {1, 2}

FreshDoc(v) ==
  [body |-> v, trigger |-> Null, usage |-> 0, version |-> 1, field |-> v]

\* Both sides start from the base; without one (import on both devices, say)
\* they start from their own first documents.
SidesInit ==
  \E v, w \in Value :
    /\ side = [d \in Devices |->
                 [doc |-> FreshDoc(IF d = 1 THEN v ELSE w), at |-> 1, device |-> d]]
    /\ base \in {NoBase} \cup (IF v = w THEN {FreshDoc(v)} ELSE {})

\* A content edit or a metadata edit: the host stamps the record with its own
\* clock, which may stand still or run behind the other device's.
Edit(d, doc) ==
  \E now \in side[d].at..MaxClock :
    side' = [side EXCEPT ![d].doc = doc, ![d].at = now]

\* Mutant of ChangeBody: one edit counts twice.
ChangeBodyTwice(d) ==
  \E v \in Value :
    Edit(d, [side[d].doc EXCEPT !.body = v, !.version = @ + 2])

ChangeBody(d) ==
  \E v \in Value :
    Edit(d, [side[d].doc EXCEPT !.body = v, !.version = @ + 1])

ChangeTrigger(d) ==
  \E v \in Value \cup {Null} : Edit(d, [side[d].doc EXCEPT !.trigger = v])

ChangeField(d) ==
  \E v \in Value \cup {Null} : Edit(d, [side[d].doc EXCEPT !.field = v])

Use(d) ==
  /\ side[d].doc.usage < MaxUsage
  /\ Edit(d, [side[d].doc EXCEPT !.usage = @ + 1])

SidesNext ==
  /\ \E d \in Devices :
       \/ side[d].doc.version < 2 /\ ChangeBody(d)
       \/ ChangeTrigger(d)
       \/ ChangeField(d)
       \/ Use(d)
  /\ UNCHANGED base

SidesSpec == SidesInit /\ [][SidesNext]_sides

-----------------------------------------------------------------------------

SideDoc ==
  [body : Value, trigger : Value \cup {Null}, usage : 0..MaxUsage,
   version : 1..2, field : Value \cup {Null}]

SidesTypeOK ==
  /\ base \in SideDoc \cup {NoBase}
  /\ side \in [Devices -> [doc : SideDoc, at : 1..MaxClock, device : Devices]]
  /\ \A d \in Devices : side[d].device = d

Merged(d) == MergeDocuments(base, side[d], side[3 - d])

\* merge.rs promises a symmetric merge: whichever device runs it, the merged
\* document is the same apart from the body of a body conflict, and both
\* agree on whether there is one.
SymmetricMerge(b, l, r) ==
  LET here == MergeDocuments(b, l, r)
      there == MergeDocuments(b, r, l)
  IN  /\ here.bodyConflict = there.bodyConflict
      /\ IF here.bodyConflict
         THEN [here.doc EXCEPT !.body = there.doc.body] = there.doc
         ELSE here.doc = there.doc

MergeIsSymmetric == SymmetricMerge(base, side[1], side[2])

\* No body is lost to a merge: what either side wrote since the base is in the
\* merged document or in the conflict copy of the side that merges.
BodiesSurvive ==
  \A d, w \in Devices :
    side[w].doc.body # base.body =>
      \/ Merged(d).doc.body = side[w].doc.body
      \/ Merged(d).bodyConflict /\ ConflictCopy(side[d].doc).body = side[w].doc.body

\* A change made on one side only always survives, whatever the clocks say.
OneSidedChangesSurvive ==
  \A d, w \in Devices : \A u \in {"body", "trigger", "field"} :
    /\ side[w].doc[u] # base[u]
    /\ side[3 - w].doc[u] = base[u]
    => Merged(d).doc[u] = side[w].doc[u]

\* Nothing a user wrote on one side is lost to a merge on the other.
EditsSurvive == BodiesSurvive /\ OneSidedChangesSurvive

\* Merging settles: once the remote head is the new base (as the engine makes
\* it), merging the outcome with that same head again changes no content and
\* raises no further conflict.
MergeSettles ==
  \A d \in Devices :
    LET remote == side[3 - d]
        again == MergeDocuments(remote.doc, [side[d] EXCEPT !.doc = Merged(d).doc], remote)
    IN  /\ ~again.bodyConflict
        /\ [again.doc EXCEPT !.version = Merged(d).doc.version] = Merged(d).doc
=============================================================================

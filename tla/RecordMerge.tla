---------------------------- MODULE RecordMerge ----------------------------
(***************************************************************************)
(* crates/sync/src/merge.rs: the field-level three-way merge of a snippet  *)
(* document.  A document is abstracted to one value per merge rule:        *)
(*   body     the BODY_FIELDS as a unit (content, type, vault fields),     *)
(*   trigger  the TRIGGER_FIELDS as a unit,                                *)
(*   usage    one USAGE_MAX field, a number, Null meaning JSON null,       *)
(*   version  the snippet's own edit counter,                              *)
(*   field    one field merged on its own (the title stands for them all). *)
(* The first operators work on single values and are shared with the model *)
(* of the sync engine.                                                     *)
(***************************************************************************)
EXTENDS Naturals

CONSTANT Null

\* Mutant of LocalWins: each side wins its own ties.
LocalWinsTies(local, remote) == local.at >= remote.at

\* Rule 2 winner: the later record clock, ties to the larger device id.
LocalWins(local, remote) ==
  \/ local.at > remote.at
  \/ local.at = remote.at /\ local.device > remote.device

\* Rule 1 and 2 over one unit or field: does the local value win?
TakesLocal(base, local, remote, localWins) ==
  /\ local # remote
  /\ local # base
  /\ remote = base \/ localWins

\* Mutant of Pick: last writer wins, the base is not looked at.
PickByClock(base, local, remote, localWins) == IF localWins THEN local ELSE remote

Pick(base, local, remote, localWins) ==
  IF TakesLocal(base, local, remote, localWins) THEN local ELSE remote

\* Mutant of BodyConflict: without a base there is no conflict.
BodyConflictWithBase(base, local, remote) ==
  local # remote /\ local # base /\ remote # base /\ base # Null

\* Rule 3: both sides changed the body, differently.
BodyConflict(base, local, remote) ==
  local # remote /\ local # base /\ remote # base

\* Bodies are never decided by the clock: the remote one enters the entity.
MergedBody(base, local, remote) == Pick(base, local, remote, FALSE)

\* Mutant of UsageMax: the counters are added up.
UsageSum(a, b) == IF a = Null THEN b ELSE IF b = Null THEN a ELSE a + b

\* Rule 4: null orders below every number.
UsageMax(a, b) ==
  IF a = Null THEN b
  ELSE IF b = Null THEN a
  ELSE IF a > b THEN a ELSE b

\* The document of a base that was never synced: every field absent.
NoBase == [body |-> Null, trigger |-> Null, usage |-> Null,
           version |-> Null, field |-> Null]

\* A side is [doc, at, device]; base is a document or NoBase.
MergeDocuments(base, local, remote) ==
  LET l == local.doc
      r == remote.doc
      wins == LocalWins(local, remote)
  IN  [doc |-> [body    |-> MergedBody(base.body, l.body, r.body),
                trigger |-> Pick(base.trigger, l.trigger, r.trigger, wins),
                usage   |-> UsageMax(l.usage, r.usage),
                version |-> UsageMax(l.version, r.version) + 1,
                field   |-> Pick(base.field, l.field, r.field, wins)],
       bodyConflict |-> BodyConflict(base.body, l.body, r.body)]

\* conflict_copy_document: the local body under a fresh identity, without the
\* trigger and with fresh counters; the field keeps the local value.
ConflictCopy(local) ==
  [local EXCEPT !.trigger = Null, !.usage = 0, !.version = 1]
=============================================================================

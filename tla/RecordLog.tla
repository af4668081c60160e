----------------------------- MODULE RecordLog -----------------------------
(***************************************************************************)
(* What the record server promises its devices: one log per account, to    *)
(* which complete batches are appended, in which the versions of an entity *)
(* count 1, 2, 3, ... and no id appears twice, and which every reader      *)
(* follows from the front.                                                 *)
(***************************************************************************)
EXTENDS Naturals, FiniteSets, Sequences

CONSTANTS Id, Entity, Reader

VARIABLES
  log,    \* sequence of [id, entity, version]
  read    \* read[d]: how much of the log reader d has seen

\* Entry n is the next version of its entity and its id is new.
Extends(l, n) ==
  /\ l[n].version = Cardinality({m \in 1..(n-1) : l[m].entity = l[n].entity}) + 1
  /\ \A m \in 1..(n-1) : l[m].id # l[n].id

\* An account may be watched from any point of its life.
Init ==
  /\ DOMAIN log = 1..Len(log)
  /\ \A n \in 1..Len(log) : log[n] \in [id : Id, entity : Entity, version : Nat] /\ Extends(log, n)
  /\ read \in [Reader -> 0..Len(log)]

IsPrefixOf(l, k) == Len(l) <= Len(k) /\ \A n \in 1..Len(l) : l[n] = k[n]

Grow(k) ==
  /\ IsPrefixOf(log, k)
  /\ Len(k) > Len(log)
  /\ \A n \in (Len(log)+1)..Len(k) : Extends(k, n)
  /\ log' = k
  /\ UNCHANGED read

Follow(d) ==
  /\ read'[d] \in (read[d]+1)..Len(log)
  /\ read' = [read EXCEPT ![d] = read'[d]]
  /\ UNCHANGED log

Next == Grow(log') \/ \E d \in Reader : Follow(d)

Spec == Init /\ [][Next]_<<log, read>>
=============================================================================

------------------------- MODULE RecordStore_proofs -------------------------
(***************************************************************************)
(* What the operators of RecordStore guarantee for every table, batch and  *)
(* page: an accepted batch keeps the table a log, a page is taken from its *)
(* front, and read in the order of its numbers the table is the log that   *)
(* RecordLog describes.                                                    *)
(***************************************************************************)
EXTENDS RecordStore, FiniteSetTheorems, SequenceTheorems, WellFoundedInduction, TLAPS

-----------------------------------------------------------------------------
\* Finite sets of numbers.

\* A non-empty finite set of numbers has a largest member: the member with
\* the fewest larger ones.
LEMMA LargestExists ==
  ASSUME NEW T \in SUBSET Nat, IsFiniteSet(T), T # {}
  PROVE  \E x \in T : \A y \in T : y <= x
<1> DEFINE Above(x) == {z \in T : z > x}
           Counts == {Cardinality(Above(x)) : x \in T}
<1>1. \A x \in T : IsFiniteSet(Above(x)) /\ Cardinality(Above(x)) \in Nat
  BY FS_Subset, FS_CardinalityType
<1>2. Counts \subseteq Nat /\ Counts # {}
  BY <1>1
<1>3. PICK c \in Counts : \A k \in Counts : ~(<<k, c>> \in OpToRel(<, Nat))
  BY <1>2, WFMin, NatLessThanWellFounded
<1>4. PICK x \in T : c = Cardinality(Above(x))
  OBVIOUS
<1>5. ASSUME NEW y \in T, y > x PROVE FALSE
  <2>1. x \in Nat /\ y \in Nat
    OBVIOUS
  <2>2. Above(y) \subseteq Above(x)
    <3>1. SUFFICES ASSUME NEW z \in T, z > y PROVE z > x
      OBVIOUS
    <3>2. z \in Nat
      OBVIOUS
    <3>3. QED
      BY <3>1, <3>2, <2>1, <1>5
  <2>3. y \in Above(x) /\ y \notin Above(y)
    <3>1. ~(y > y)
      BY <2>1
    <3>2. QED
      BY <3>1, <1>5
  <2>4. Cardinality(Above(y)) < Cardinality(Above(x))
    BY <2>2, <2>3, <1>1, FS_Subset
  <2>5. <<Cardinality(Above(y)), c>> \in OpToRel(<, Nat)
    BY <2>4, <1>1, <1>4 DEF OpToRel
  <2>6. QED
    BY <2>5, <1>3
<1>6. ASSUME NEW y \in T PROVE y <= x
  <2>1. x \in Nat /\ y \in Nat
    OBVIOUS
  <2>2. QED
    BY <2>1, <1>5
<1>7. QED
  BY <1>6

\* A non-empty set of numbers has a smallest member.
LEMMA SmallestExists ==
  ASSUME NEW T \in SUBSET Nat, T # {}
  PROVE  \E x \in T : \A y \in T : x <= y
<1>1. PICK x \in T : \A y \in T : ~(<<y, x>> \in OpToRel(<, Nat))
  BY WFMin, NatLessThanWellFounded
<1>2. ASSUME NEW y \in T, y < x PROVE FALSE
  <2>1. <<y, x>> \in OpToRel(<, Nat)
    BY <1>2 DEF OpToRel
  <2> QED BY <1>1, <2>1
<1>3. \A y \in T : ~(y < x) => x <= y
  OBVIOUS
<1> QED BY <1>2, <1>3

LEMMA MaxIsLargest ==
  ASSUME NEW T \in SUBSET Nat, IsFiniteSet(T), T # {}
  PROVE  Max(T) \in T /\ Max(T) \in Nat /\ \A y \in T : y <= Max(T)
<1>1. \E x \in T : \A y \in T : y <= x
  BY LargestExists
<1>2. \E x \in T : \A y \in T : x >= y
  BY <1>1
<1>3. Max(T) \in T /\ \A y \in T : Max(T) >= y
  BY <1>2 DEF Max
<1> QED BY <1>3

LEMMA MaxOrZeroIsLargest ==
  ASSUME NEW T \in SUBSET Nat, IsFiniteSet(T)
  PROVE  /\ MaxOrZero(T) \in Nat
         /\ \A y \in T : y <= MaxOrZero(T)
         /\ MaxOrZero(T) # 0 => MaxOrZero(T) \in T
<1> DEFINE U == {0} \cup T
<1>1. IsFiniteSet(U) /\ U \in SUBSET Nat /\ U # {}
  BY FS_AddElement
<1>2. Max(U) \in U /\ Max(U) \in Nat /\ \A y \in U : y <= Max(U)
  BY <1>1, MaxIsLargest
<1> QED BY <1>2 DEF MaxOrZero

LEMMA RankType ==
  ASSUME NEW S, IsFiniteSet(S), NEW i
  PROVE  /\ Below(S, i) \subseteq S
         /\ IsFiniteSet(Below(S, i))
         /\ Rank(S, i) \in Nat
BY FS_Subset, FS_CardinalityType DEF Below, Rank

LEMMA RankMonotone ==
  ASSUME NEW S \in SUBSET Nat, IsFiniteSet(S), NEW i \in S, NEW j \in Nat, i < j
  PROVE  Rank(S, i) < Rank(S, j)
<1>1. i \in Nat /\ ~(i < i)
  OBVIOUS
<1>2. i \in Below(S, j) /\ i \notin Below(S, i)
  BY <1>1 DEF Below
<1>3. ASSUME NEW k \in Below(S, i) PROVE k \in Below(S, j)
  <2>1. k \in S /\ k \in Nat /\ k < i
    BY DEF Below
  <2>2. k < j
    BY <2>1, <1>1
  <2>3. QED
    BY <2>1, <2>2 DEF Below
<1>4. Cardinality(Below(S, i)) <= Cardinality(Below(S, j))
      /\ Cardinality(Below(S, i)) # Cardinality(Below(S, j))
  BY <1>2, <1>3, RankType, FS_Subset
<1>5. QED
  BY <1>4, RankType DEF Rank

\* Ranks are counted one by one.
LEMMA RankPredecessor ==
  ASSUME NEW S \in SUBSET Nat, IsFiniteSet(S), NEW i \in S, Rank(S, i) # 0
  PROVE  \E j \in S : j < i /\ Rank(S, i) = Rank(S, j) + 1
<1>1. Below(S, i) # {} /\ Below(S, i) \in SUBSET Nat /\ IsFiniteSet(Below(S, i))
  BY RankType, FS_EmptySet DEF Rank
<1>2. PICK j \in Below(S, i) : \A k \in Below(S, i) : k <= j
  BY <1>1, LargestExists
<1>3. j \in S /\ j \in Nat /\ i \in Nat /\ j < i
  BY DEF Below
<1>4. ASSUME NEW k \in S PROVE k < i <=> k < j \/ k = j
  <2>1. k \in Nat
    OBVIOUS
  <2>2. k < i => k <= j
    BY <1>2 DEF Below
  <2>3. QED
    BY <2>1, <2>2, <1>3
<1>5. Below(S, i) = Below(S, j) \cup {j}
  BY <1>3, <1>4 DEF Below
<1>6. j \notin Below(S, j)
  BY <1>3 DEF Below
<1>7. IsFiniteSet(Below(S, j)) /\ Rank(S, j) \in Nat
  BY RankType
<1>8. Cardinality(Below(S, i)) = Cardinality(Below(S, j)) + 1
  BY <1>5, <1>6, <1>7, FS_AddElement
<1>9. QED
  BY <1>3, <1>8 DEF Rank

-----------------------------------------------------------------------------
\* The table's maxima, and the rows a batch becomes.

\* A finite table of numbered rows.
Rows(rows) ==
  /\ IsFiniteSet(rows)
  /\ \A r \in rows : r.version \in Nat \ {0} /\ r.seq \in Nat \ {0}

\* A sequence of records that can be pushed.
IsBatch(batch) ==
  /\ \E n \in Nat : DOMAIN batch = 1..n
  /\ \A i \in DOMAIN batch : {"id", "entity", "version"} \subseteq DOMAIN batch[i]

LEMMA MaxSeqIsLargest ==
  ASSUME NEW rows, Rows(rows)
  PROVE  /\ MaxSeq(rows) \in Nat
         /\ \A r \in rows : r.seq \in Nat /\ r.seq <= MaxSeq(rows)
         /\ MaxSeq(rows) # 0 => \E r \in rows : r.seq = MaxSeq(rows)
<1> DEFINE T == {r.seq : r \in rows}
           f == [r \in rows |-> r.seq]
<1>1. \A r \in rows : r.seq \in Nat
  BY DEF Rows
<1>2. f \in Surjection(rows, T)
  BY DEF Surjection
<1>3. T \in SUBSET Nat /\ IsFiniteSet(T)
  BY <1>1, <1>2, FS_Surjection DEF Rows
<1>4. QED
  BY <1>1, <1>3, MaxOrZeroIsLargest DEF MaxSeq

LEMMA HeadVersionIsLargest ==
  ASSUME NEW rows, Rows(rows), NEW e
  PROVE  /\ HeadVersion(rows, e) \in Nat
         /\ \A r \in rows : r.entity = e => r.version <= HeadVersion(rows, e)
         /\ HeadVersion(rows, e) # 0 =>
              \E r \in rows : r.entity = e /\ r.version = HeadVersion(rows, e)
<1> DEFINE R == RowsOf(rows, e)
           T == {r.version : r \in R}
           f == [r \in R |-> r.version]
<1>1. \A r \in R : r.version \in Nat
  BY DEF Rows, RowsOf
<1>2. f \in Surjection(R, T)
  BY DEF Surjection
<1>3. IsFiniteSet(R)
  BY FS_Subset DEF Rows, RowsOf
<1>4. T \in SUBSET Nat /\ IsFiniteSet(T)
  BY <1>1, <1>2, <1>3, FS_Surjection
<1>5. /\ HeadVersion(rows, e) \in Nat
      /\ \A v \in T : v <= HeadVersion(rows, e)
      /\ HeadVersion(rows, e) # 0 => HeadVersion(rows, e) \in T
  BY <1>4, MaxOrZeroIsLargest DEF HeadVersion
<1>6. QED
  BY <1>5 DEF RowsOf

LEMMA BatchPositions ==
  ASSUME NEW batch, IsBatch(batch), NEW rows
  PROVE  /\ DOMAIN batch \in SUBSET Nat
         /\ FreshAt(rows, batch) \in SUBSET Nat
         /\ IsFiniteSet(FreshAt(rows, batch))
         /\ \A i \in FreshAt(rows, batch) : i \in Nat /\ i \in DOMAIN batch
         /\ \A e : /\ FreshOf(rows, batch, e) \in SUBSET Nat
                   /\ IsFiniteSet(FreshOf(rows, batch, e))
<1>1. PICK n \in Nat : DOMAIN batch = 1..n
  BY DEF IsBatch
<1>2. FreshAt(rows, batch) \in SUBSET (1..n) /\ IsFiniteSet(1..n)
  BY <1>1, FS_Interval DEF FreshAt
<1>3. IsFiniteSet(FreshAt(rows, batch))
  BY <1>2, FS_Subset
<1>4. \A e : FreshOf(rows, batch, e) \in SUBSET FreshAt(rows, batch)
  BY DEF FreshOf
<1>5. \A e : IsFiniteSet(FreshOf(rows, batch, e))
  BY <1>3, <1>4, FS_Subset
<1>6. FreshAt(rows, batch) \in SUBSET Nat /\ DOMAIN batch \in SUBSET Nat
  BY <1>1, <1>2
<1> QED BY <1>1, <1>2, <1>3, <1>4, <1>5, <1>6

\* A row is the record it was pushed as, and its number.
LEMMA WithSeqIsRow ==
  ASSUME NEW p, NEW n
  PROVE  /\ WithSeq(p, n).seq = n
         /\ \A f \in DOMAIN p : f # "seq" => WithSeq(p, n)[f] = p[f]
         /\ "id" \in DOMAIN p => WithSeq(p, n).id = p.id
         /\ "entity" \in DOMAIN p => WithSeq(p, n).entity = p.entity
         /\ "version" \in DOMAIN p => WithSeq(p, n).version = p.version
  BY DEF WithSeq

\* The row of position i of a batch: its sequence number is above every stored
\* one, its version above every stored one of its entity.
IsRowOf(r, rows, batch, i) ==
  LET e == batch[i].entity
  IN  /\ r = WithSeq(batch[i], SeqAt(rows, batch, i))
      /\ r.id = batch[i].id
      /\ r.entity = e
      /\ r.version \in Nat \ {0} /\ r.seq \in Nat \ {0}
      /\ r.version = HeadVersion(rows, e) + Rank(FreshOf(rows, batch, e), i) + 1
      /\ r.seq = MaxSeq(rows) + Rank(FreshAt(rows, batch), i) + 1

LEMMA RowAtPosition ==
  ASSUME NEW rows, Rows(rows),
         NEW batch, IsBatch(batch), Accepts(rows, batch), NEW i \in FreshAt(rows, batch)
  PROVE  IsRowOf(WithSeq(batch[i], SeqAt(rows, batch, i)), rows, batch, i)
<1> DEFINE r == WithSeq(batch[i], SeqAt(rows, batch, i))
           e == batch[i].entity
<1>1. i \in DOMAIN batch /\ {"id", "entity", "version"} \subseteq DOMAIN batch[i]
  BY BatchPositions DEF IsBatch
<1>2. /\ r.id = batch[i].id /\ r.entity = batch[i].entity /\ r.version = batch[i].version
      /\ r.seq = SeqAt(rows, batch, i)
  BY <1>1, WithSeqIsRow
<1>3. Advances(rows, batch, i)
  BY DEF Accepts, ConflictingEntities
<1>4. /\ MaxSeq(rows) \in Nat /\ HeadVersion(rows, e) \in Nat
      /\ Rank(FreshAt(rows, batch), i) \in Nat /\ Rank(FreshOf(rows, batch, e), i) \in Nat
  BY BatchPositions, MaxSeqIsLargest, HeadVersionIsLargest, RankType
<1> HIDE DEF r
<1>5. /\ r.version = HeadVersion(rows, e) + Rank(FreshOf(rows, batch, e), i) + 1
      /\ r.seq = MaxSeq(rows) + Rank(FreshAt(rows, batch), i) + 1
  BY <1>2, <1>3 DEF Advances, SeqAt
<1>6. r.version \in Nat \ {0} /\ r.seq \in Nat \ {0}
  BY <1>4, <1>5
<1> QED BY <1>2, <1>5, <1>6 DEF IsRowOf, r

LEMMA InsertedRows ==
  ASSUME NEW rows, Rows(rows),
         NEW batch, IsBatch(batch), Accepts(rows, batch)
  PROVE  /\ IsFiniteSet(Inserted(rows, batch))
         /\ \A r \in Inserted(rows, batch) :
              \E i \in FreshAt(rows, batch) : IsRowOf(r, rows, batch, i)
         /\ \A i \in FreshAt(rows, batch) :
              \E r \in Inserted(rows, batch) : IsRowOf(r, rows, batch, i)
<1> DEFINE fresh == FreshAt(rows, batch)
           row(i) == WithSeq(batch[i], SeqAt(rows, batch, i))
           f == [i \in fresh |-> row(i)]
<1>1. IsFiniteSet(fresh)
  BY BatchPositions
<1>2. f \in Surjection(fresh, Inserted(rows, batch))
  BY DEF Surjection, Inserted
<1>3. IsFiniteSet(Inserted(rows, batch))
  BY <1>1, <1>2, FS_Surjection
<1>4. \A i \in fresh : IsRowOf(row(i), rows, batch, i)
  BY RowAtPosition
<1>5. QED
  BY <1>3, <1>4 DEF Inserted

\* Two positions of one batch keep their order in the sequence numbers, and in
\* the versions when they are of one entity.
LEMMA PositionsKeepOrder ==
  ASSUME NEW rows, Rows(rows), NEW batch, IsBatch(batch),
         NEW i \in FreshAt(rows, batch), NEW j \in FreshAt(rows, batch), i < j,
         NEW q, IsRowOf(q, rows, batch, i), NEW r, IsRowOf(r, rows, batch, j)
  PROVE  /\ q.seq < r.seq
         /\ q.entity = r.entity => q.version < r.version
<1> DEFINE e == batch[j].entity
<1>1. i \in Nat /\ j \in Nat /\ MaxSeq(rows) \in Nat /\ HeadVersion(rows, e) \in Nat
  BY BatchPositions, MaxSeqIsLargest, HeadVersionIsLargest
<1>2. /\ Rank(FreshAt(rows, batch), i) \in Nat
      /\ Rank(FreshAt(rows, batch), j) \in Nat
      /\ Rank(FreshAt(rows, batch), i) < Rank(FreshAt(rows, batch), j)
  BY <1>1, BatchPositions, RankType, RankMonotone
<1>3. ASSUME q.entity = r.entity PROVE q.version < r.version
  <2>1. batch[i].entity = e /\ i \in FreshOf(rows, batch, e)
    BY <1>3 DEF IsRowOf, FreshOf
  <2>2. /\ Rank(FreshOf(rows, batch, e), i) \in Nat
        /\ Rank(FreshOf(rows, batch, e), j) \in Nat
        /\ Rank(FreshOf(rows, batch, e), i) < Rank(FreshOf(rows, batch, e), j)
    BY <1>1, <2>1, BatchPositions, RankType, RankMonotone
  <2>3. QED
    BY <1>1, <2>1, <2>2 DEF IsRowOf
<1>4. q.seq < r.seq
  BY <1>1, <1>2 DEF IsRowOf
<1>5. QED
  BY <1>3, <1>4

\* A new row lies above the stored ones.
LEMMA NewRowIsAbove ==
  ASSUME NEW rows, Rows(rows), NEW batch, IsBatch(batch),
         NEW i \in FreshAt(rows, batch), NEW r, IsRowOf(r, rows, batch, i)
  PROVE  /\ r.seq > MaxSeq(rows)
         /\ \A q \in rows : /\ q.id # r.id
                            /\ q.seq < r.seq
                            /\ q.entity = r.entity => q.version < r.version
<1> DEFINE e == batch[i].entity
<1>1. /\ MaxSeq(rows) \in Nat /\ HeadVersion(rows, e) \in Nat
      /\ Rank(FreshAt(rows, batch), i) \in Nat
      /\ Rank(FreshOf(rows, batch, e), i) \in Nat
  BY BatchPositions, MaxSeqIsLargest, HeadVersionIsLargest, RankType
<1>2. r.seq > MaxSeq(rows) /\ r.version > HeadVersion(rows, e) /\ r.entity = e
  BY <1>1 DEF IsRowOf
<1>3. ASSUME NEW q \in rows
      PROVE  q.id # r.id /\ q.seq < r.seq /\ (q.entity = r.entity => q.version < r.version)
  <2>1. q.id # r.id
    BY DEF IsRowOf, FreshAt, IsStored
  <2>2. q.seq \in Nat /\ q.version \in Nat /\ r.seq \in Nat /\ r.version \in Nat
    BY DEF Rows, IsRowOf
  <2>3. q.seq < r.seq
    BY <1>1, <1>2, <2>2, MaxSeqIsLargest
  <2>4. q.entity = r.entity => q.version < r.version
    BY <1>1, <1>2, <2>2, HeadVersionIsLargest
  <2>5. QED
    BY <2>1, <2>3, <2>4
<1>4. QED
  BY <1>2, <1>3

\* A page takes the rows after the cursor from the front.
LEMMA PageIsPrefix ==
  ASSUME NEW rows, Rows(rows), NEW c \in Nat, NEW limit \in Nat,
         Page(rows, c, limit) # {}
  PROVE  LET page == Page(rows, c, limit)
         IN  /\ page \in SUBSET rows
             /\ MaxSeq(page) \in Nat
             /\ MaxSeq(page) > c
             /\ MaxSeq(page) <= MaxSeq(rows)
             /\ \A r \in rows : r \in page <=> r.seq > c /\ r.seq <= MaxSeq(page)
<1> DEFINE page == Page(rows, c, limit)
           Before(r) == {q \in Since(rows, c) : q.seq < r.seq}
<1>1. page \in SUBSET rows /\ Rows(page) /\ IsFiniteSet(page) /\ IsFiniteSet(rows)
  <2>1. page \in SUBSET rows
    BY DEF Page, Since
  <2> HIDE DEF page
  <2> QED BY <2>1, FS_Subset DEF Rows
<1>2. \A r \in rows : r.seq \in Nat
  BY DEF Rows
<1>3. MaxSeq(page) \in Nat /\ \A r \in page : r.seq <= MaxSeq(page)
  BY <1>1, MaxSeqIsLargest
<1>4. \A r \in page : r.seq > c
  BY DEF Page, Since
<1>5. MaxSeq(page) > c
  BY <1>1, <1>2, <1>3, <1>4
<1>6. PICK last \in page : last.seq = MaxSeq(page)
  BY <1>1, <1>3, <1>5, MaxSeqIsLargest
<1>7. MaxSeq(page) <= MaxSeq(rows)
  BY <1>1, <1>6, MaxSeqIsLargest
<1>8. ASSUME NEW r \in rows, r.seq > c, r.seq <= MaxSeq(page)
      PROVE  r \in page
  <2>1. r.seq <= last.seq /\ last.seq \in Nat /\ r.seq \in Nat
    BY <1>1, <1>2, <1>6, <1>8
  <2>2. ASSUME NEW q \in Before(r) PROVE q \in Before(last)
    <3>1. q.seq \in Nat /\ q.seq < r.seq
      BY <1>2 DEF Since
    <3>2. q.seq < last.seq
      BY <2>1, <3>1
    <3>3. QED
      BY <3>2
  <2>3. IsFiniteSet(Before(last)) /\ IsFiniteSet(Before(r))
    BY <1>1, FS_Subset DEF Since
  <2>4. /\ Cardinality(Before(r)) \in Nat
        /\ Cardinality(Before(last)) \in Nat
        /\ Cardinality(Before(r)) <= Cardinality(Before(last))
    BY <2>2, <2>3, FS_Subset, FS_CardinalityType
  <2>5. Cardinality(Before(last)) < limit
    BY DEF Page
  <2>6. Cardinality(Before(r)) < limit
    BY <2>4, <2>5
  <2>7. QED
    BY <1>8, <2>6 DEF Page, Since
<1>9. QED
  BY <1>1, <1>3, <1>4, <1>5, <1>7, <1>8

-----------------------------------------------------------------------------
\* A table that is a log: the keys are unique, and neither the versions of an
\* entity nor the sequence numbers have a hole.
LogRows(rows) ==
  /\ Rows(rows)
  /\ \A q, r \in rows :
       q.id = r.id \/ q.seq = r.seq \/ (q.entity = r.entity /\ q.version = r.version)
         => q = r
  /\ \A r \in rows : r.version > 1 =>
       \E q \in rows : q.entity = r.entity /\ q.version + 1 = r.version /\ q.seq < r.seq
  /\ \A r \in rows : r.seq > 1 => \E q \in rows : q.seq + 1 = r.seq

\* An accepted batch keeps the table a log.
LEMMA AcceptedKeepsLog ==
  ASSUME NEW rows, LogRows(rows), NEW batch, IsBatch(batch), Accepts(rows, batch)
  PROVE  LogRows(rows \cup Inserted(rows, batch))
<1> DEFINE new == Inserted(rows, batch)
           fresh == FreshAt(rows, batch)
           more == rows \cup new
<1>1. Rows(rows) /\ IsFiniteSet(rows)
  BY DEF LogRows, Rows
<1>2. /\ IsFiniteSet(new)
      /\ \A r \in new : \E i \in fresh : IsRowOf(r, rows, batch, i)
      /\ \A i \in fresh : \E r \in new : IsRowOf(r, rows, batch, i)
  BY <1>1, InsertedRows
<1> HIDE DEF new
<1>3. ASSUME NEW i \in fresh, NEW r, IsRowOf(r, rows, batch, i)
      PROVE  /\ r.version \in Nat \ {0} /\ r.seq \in Nat \ {0}
             /\ r.seq > MaxSeq(rows)
             /\ \A q \in rows : /\ q.id # r.id
                                /\ q.seq < r.seq
                                /\ q.entity = r.entity => q.version < r.version
  BY <1>1, <1>3, NewRowIsAbove DEF IsRowOf
<1>4. Rows(more) /\ IsFiniteSet(more)
  BY <1>1, <1>2, <1>3, FS_Union DEF Rows
<1>5. \A r \in more : r.seq \in Nat /\ r.version \in Nat
  BY <1>4 DEF Rows
<1>6. \A q, r \in more :
       q.id = r.id \/ q.seq = r.seq \/ (q.entity = r.entity /\ q.version = r.version)
         => q = r
  <2>1. SUFFICES ASSUME NEW q \in more, NEW r \in more,
                        q.id = r.id \/ q.seq = r.seq
                          \/ (q.entity = r.entity /\ q.version = r.version)
                 PROVE  q = r
    OBVIOUS
  <2>2. CASE q \in rows /\ r \in rows
    BY <2>1, <2>2 DEF LogRows
  <2>3. CASE q \in rows /\ r \in new
    BY <1>2, <1>3, <1>5, <2>1, <2>3
  <2>4. CASE q \in new /\ r \in rows
    BY <1>2, <1>3, <1>5, <2>1, <2>4
  <2>5. CASE q \in new /\ r \in new
    <3>1. PICK i \in fresh : q = WithSeq(batch[i], SeqAt(rows, batch, i))
      BY <2>5 DEF Inserted, new
    <3>2. PICK j \in fresh : r = WithSeq(batch[j], SeqAt(rows, batch, j))
      BY <2>5 DEF Inserted, new
    <3>3. IsRowOf(q, rows, batch, i) /\ IsRowOf(r, rows, batch, j)
      BY <1>1, <3>1, <3>2, RowAtPosition
    <3>4. i \in Nat /\ j \in Nat
      BY BatchPositions
    <3>5. i # j => q.id # r.id
      BY <1>1, <3>3 DEF Accepts, Collides, IsRowOf
    <3>6. CASE i = j
      BY <3>1, <3>2, <3>6
    <3>7. CASE i < j
      BY <1>1, <1>5, <2>1, <3>3, <3>5, <3>7, PositionsKeepOrder
    <3>8. CASE j < i
      BY <1>1, <1>5, <2>1, <3>3, <3>5, <3>8, PositionsKeepOrder
    <3>9. QED
      BY <3>4, <3>6, <3>7, <3>8
  <2>6. QED
    BY <1>1, <2>2, <2>3, <2>4, <2>5
<1>7. \A r \in more : r.version > 1 =>
        \E q \in more : q.entity = r.entity /\ q.version + 1 = r.version /\ q.seq < r.seq
  <2>1. SUFFICES ASSUME NEW r \in more, r.version > 1
                 PROVE  \E q \in more : /\ q.entity = r.entity
                                           /\ q.version + 1 = r.version
                                           /\ q.seq < r.seq
    OBVIOUS
  <2>2. CASE r \in rows
    BY <1>1, <2>1, <2>2 DEF LogRows
  <2>3. CASE r \in new
    <3> DEFINE e == r.entity
               mine == FreshOf(rows, batch, e)
    <3>1. PICK i \in fresh : IsRowOf(r, rows, batch, i)
      BY <1>2, <2>3
    <3>2. i \in mine /\ mine \in SUBSET fresh /\ mine \in SUBSET Nat /\ IsFiniteSet(mine)
      <4>1. batch[i].entity = e
        BY <3>1 DEF IsRowOf
      <4>2. mine \in SUBSET Nat /\ IsFiniteSet(mine)
        BY BatchPositions
      <4> QED BY <4>1, <4>2 DEF FreshOf
    <3>3. Rank(mine, i) \in Nat /\ HeadVersion(rows, e) \in Nat
      BY <1>1, <3>2, RankType, HeadVersionIsLargest
    <3>4. r.version = HeadVersion(rows, e) + Rank(mine, i) + 1
      BY <3>1 DEF IsRowOf
    <3>5. CASE Rank(mine, i) = 0
      <4>1. HeadVersion(rows, e) # 0 /\ HeadVersion(rows, e) + 1 = r.version
        BY <2>1, <3>3, <3>4, <3>5
      <4>2. PICK q \in rows : q.entity = e /\ q.version = HeadVersion(rows, e)
        BY <1>1, <4>1, HeadVersionIsLargest
      <4>3. QED
        BY <1>1, <1>3, <3>1, <4>1, <4>2
    <3>6. CASE Rank(mine, i) # 0
      <4>1. PICK j \in mine : j < i /\ Rank(mine, i) = Rank(mine, j) + 1
        BY <3>2, <3>6, RankPredecessor
      <4>2. PICK q \in new : IsRowOf(q, rows, batch, j)
        BY <1>2, <3>2, <4>1
      <4>3. batch[j].entity = e /\ Rank(mine, j) \in Nat
        BY <3>2, RankType DEF FreshOf
      <4>4. q.entity = e /\ q.version = HeadVersion(rows, e) + Rank(mine, j) + 1
        BY <4>2, <4>3 DEF IsRowOf
      <4>5. q.version + 1 = r.version
        BY <3>3, <3>4, <4>1, <4>3, <4>4
      <4>6. q.seq < r.seq
        BY <1>1, <3>1, <3>2, <4>1, <4>2, PositionsKeepOrder
      <4>7. QED
        BY <1>1, <4>4, <4>5, <4>6
    <3>7. QED
      BY <3>5, <3>6
  <2>4. QED
    BY <1>1, <2>2, <2>3
<1>8. \A r \in more : r.seq > 1 => \E q \in more : q.seq + 1 = r.seq
  <2>1. SUFFICES ASSUME NEW r \in more, r.seq > 1
                 PROVE  \E q \in more : q.seq + 1 = r.seq
    OBVIOUS
  <2>2. CASE r \in rows
    BY <1>1, <2>1, <2>2 DEF LogRows
  <2>3. CASE r \in new
    <3>1. PICK i \in fresh : IsRowOf(r, rows, batch, i)
      BY <1>2, <2>3
    <3>2. /\ fresh \in SUBSET Nat /\ IsFiniteSet(fresh)
          /\ Rank(fresh, i) \in Nat /\ MaxSeq(rows) \in Nat
          /\ r.seq = MaxSeq(rows) + Rank(fresh, i) + 1
      BY <1>1, <3>1, BatchPositions, RankType, MaxSeqIsLargest DEF IsRowOf
    <3>3. CASE Rank(fresh, i) = 0
      <4>1. MaxSeq(rows) # 0 /\ MaxSeq(rows) + 1 = r.seq
        BY <2>1, <3>2, <3>3
      <4>2. QED
        BY <1>1, <4>1, MaxSeqIsLargest
    <3>4. CASE Rank(fresh, i) # 0
      <4>1. PICK j \in fresh : j < i /\ Rank(fresh, i) = Rank(fresh, j) + 1
        BY <3>2, <3>4, RankPredecessor
      <4>2. PICK q \in new : IsRowOf(q, rows, batch, j)
        BY <1>2
      <4>3. q.seq + 1 = r.seq
        BY <3>2, <4>1, <4>2, RankType DEF IsRowOf
      <4>4. QED
        BY <1>1, <4>3
    <3>5. QED
      BY <3>3, <3>4
  <2>4. QED
    BY <1>1, <2>2, <2>3
<1>9. LogRows(more)
  <2> HIDE DEF more
  <2> QED BY <1>4, <1>6, <1>7, <1>8 DEF LogRows
<1> QED BY <1>9 DEF new

\* The largest number only grows, and no new row is at or below the old one.
LEMMA AcceptedIsAbove ==
  ASSUME NEW rows, Rows(rows), NEW batch, IsBatch(batch), Accepts(rows, batch)
  PROVE  LET more == rows \cup Inserted(rows, batch)
         IN  /\ Rows(more)
             /\ MaxSeq(rows) \in Nat /\ MaxSeq(more) \in Nat /\ MaxSeq(rows) <= MaxSeq(more)
             /\ \A r \in Inserted(rows, batch) : r.seq \in Nat /\ r.seq > MaxSeq(rows)
<1> DEFINE new == Inserted(rows, batch)
           more == rows \cup new
<1>1. /\ IsFiniteSet(new) /\ IsFiniteSet(rows)
      /\ \A r \in new : /\ r.version \in Nat \ {0} /\ r.seq \in Nat \ {0}
                         /\ r.seq > MaxSeq(rows)
  <2>1. /\ IsFiniteSet(new)
        /\ \A r \in new : \E i \in FreshAt(rows, batch) : IsRowOf(r, rows, batch, i)
    BY InsertedRows
  <2>2. ASSUME NEW r \in new
        PROVE  /\ r.version \in Nat \ {0} /\ r.seq \in Nat \ {0}
               /\ r.seq > MaxSeq(rows)
    <3>1. PICK i \in FreshAt(rows, batch) : IsRowOf(r, rows, batch, i)
      BY <2>1
    <3> QED BY <3>1, NewRowIsAbove DEF IsRowOf
  <2> QED BY <2>1, <2>2 DEF Rows
<1> HIDE DEF new
<1>2. Rows(more)
  BY <1>1, FS_Union DEF Rows
<1>3. MaxSeq(rows) <= MaxSeq(more)
  <2>1. /\ MaxSeq(rows) \in Nat /\ MaxSeq(more) \in Nat
        /\ MaxSeq(rows) # 0 => \E r \in rows : r.seq = MaxSeq(rows)
        /\ \A r \in more : r.seq <= MaxSeq(more)
    BY <1>2, MaxSeqIsLargest
  <2> QED BY <2>1
<1> QED BY <1>1, <1>2, <1>3, MaxSeqIsLargest DEF new

-----------------------------------------------------------------------------
\* The numbers up to n are n many.
LEMMA UpTo ==
  ASSUME NEW n \in Nat
  PROVE  IsFiniteSet(1..n) /\ Cardinality(1..n) = n
<1>1. 1 \in Int /\ n \in Int
  OBVIOUS
<1>2. IsFiniteSet(1..n) /\ Cardinality(1..n) = IF 1 > n THEN 0 ELSE n - 1 + 1
  BY <1>1, FS_Interval
<1> QED BY <1>2

\* Every number up to the largest is some row's sequence number: above the
\* largest one that were missing there would be a row without a predecessor.
LEMMA EveryNumberTaken ==
  ASSUME NEW rows, LogRows(rows), NEW n \in 1..MaxSeq(rows)
  PROVE  \E r \in rows : r.seq = n
<1> DEFINE Holes == {k \in 1..MaxSeq(rows) : \A r \in rows : r.seq # k}
<1>1. /\ MaxSeq(rows) \in Nat
      /\ \A r \in rows : r.seq \in Nat /\ r.seq <= MaxSeq(rows)
      /\ MaxSeq(rows) # 0 => \E r \in rows : r.seq = MaxSeq(rows)
  BY MaxSeqIsLargest DEF LogRows
<1>2. Holes \in SUBSET Nat /\ IsFiniteSet(Holes)
  <2>1. IsFiniteSet(1..MaxSeq(rows))
    BY <1>1, UpTo
  <2>2. Holes \in SUBSET (1..MaxSeq(rows))
    OBVIOUS
  <2>3. IsFiniteSet(Holes)
    BY <2>1, <2>2, FS_Subset
  <2> QED BY <2>3
<1>3. ASSUME Holes # {} PROVE FALSE
  <2>1. PICK h \in Holes : \A k \in Holes : k <= h
    BY <1>2, <1>3, LargestExists
  <2>2. h \in 1..MaxSeq(rows) /\ h # MaxSeq(rows)
    BY <1>1
  <2>3. h + 1 \in 1..MaxSeq(rows) /\ h + 1 \notin Holes
    BY <1>1, <2>1, <2>2
  <2>4. PICK r \in rows : r.seq = h + 1
    BY <2>3
  <2>5. PICK q \in rows : q.seq + 1 = r.seq
    BY <1>1, <2>2, <2>4 DEF LogRows
  <2>6. q.seq = h
    BY <1>1, <2>2, <2>4, <2>5
  <2> QED BY <2>6
<1> QED BY <1>3

\* So the table has as many rows as its largest sequence number.
LEMMA RowsCounted ==
  ASSUME NEW rows, LogRows(rows)
  PROVE  Cardinality(rows) = MaxSeq(rows) /\ MaxSeq(rows) \in Nat
<1> DEFINE f == [r \in rows |-> r.seq]
<1>1. /\ MaxSeq(rows) \in Nat /\ IsFiniteSet(rows)
      /\ \A r \in rows : r.seq \in 1..MaxSeq(rows)
  BY MaxSeqIsLargest DEF LogRows, Rows
<1>2. f \in Surjection(rows, 1..MaxSeq(rows))
  BY <1>1, EveryNumberTaken DEF Surjection
<1>3. f \in Injection(rows, 1..MaxSeq(rows))
  BY <1>1 DEF Injection, IsInjective, LogRows
<1>4. Cardinality(1..MaxSeq(rows)) = MaxSeq(rows)
  BY <1>1, FS_Interval
<1>5. Cardinality(1..MaxSeq(rows)) = Cardinality(rows)
  BY <1>1, <1>2, <1>3, FS_Surjection
<1> QED BY <1>1, <1>4, <1>5

\* The log has an entry for every row, at the row's sequence number.
LEMMA LogHasRows ==
  ASSUME NEW rows, LogRows(rows)
  PROVE  /\ Len(LogOf(rows)) = MaxSeq(rows) /\ MaxSeq(rows) \in Nat
         /\ DOMAIN LogOf(rows) = 1..MaxSeq(rows)
         /\ \A r \in rows : r.seq \in 1..MaxSeq(rows) /\ LogOf(rows)[r.seq] = EntryOf(r)
<1> DEFINE log == LogOf(rows)
           Entry == {EntryOf(r) : r \in rows}
           Row_(n) == CHOOSE q \in rows : q.seq = n
<1>1. Cardinality(rows) = MaxSeq(rows) /\ MaxSeq(rows) \in Nat
  BY RowsCounted
<1>2. log = [n \in 1..MaxSeq(rows) |-> EntryOf(Row_(n))]
  BY <1>1 DEF LogOf
<1>3. \A n \in 1..MaxSeq(rows) : Row_(n) \in rows /\ Row_(n).seq = n
  BY EveryNumberTaken
<1> HIDE DEF Row_
<1>5. log \in [1..MaxSeq(rows) -> Entry] /\ DOMAIN log = 1..MaxSeq(rows)
  BY <1>2, <1>3
<1>6. log \in Seq(Entry)
  BY <1>1, <1>5
<1>7. Len(log) = MaxSeq(rows)
  BY <1>1, <1>5, <1>6, LenProperties
<1>8. ASSUME NEW r \in rows
      PROVE  r.seq \in 1..MaxSeq(rows) /\ log[r.seq] = EntryOf(r)
  <2>1. r.seq \in 1..MaxSeq(rows)
    BY <1>1, MaxSeqIsLargest DEF LogRows, Rows
  <2>2. Row_(r.seq) = r
    BY <1>3, <2>1 DEF LogRows
  <2> QED BY <1>2, <2>1, <2>2
<1> QED BY <1>1, <1>5, <1>6, <1>7, <1>8

\* Behind a version every smaller one of the entity is stored at a lower
\* number.
LEMMA SmallerVersionsBehind ==
  ASSUME NEW rows, LogRows(rows), NEW r \in rows, NEW v \in Nat \ {0}, v < r.version
  PROVE  \E q \in rows : q.entity = r.entity /\ q.version = v /\ q.seq < r.seq
<1> DEFINE Behind(k) == \E q \in rows : q.entity = r.entity /\ q.version = k /\ q.seq < r.seq
           Holes == {k \in 1..(r.version - 1) : ~Behind(k)}
<1>1. /\ \A q \in rows : q.version \in Nat \ {0} /\ q.seq \in Nat \ {0}
      /\ \A q \in rows : q.version > 1 =>
           \E p \in rows : p.entity = q.entity /\ p.version + 1 = q.version /\ p.seq < q.seq
  BY DEF LogRows, Rows
<1>2. r.version \in Nat /\ Holes \in SUBSET Nat /\ IsFiniteSet(Holes)
  <2>1. r.version \in Nat /\ r.version - 1 \in Int
    BY <1>1
  <2>2. IsFiniteSet(1..(r.version - 1))
    <3>1. r.version - 1 \in Nat
      BY <1>1
    <3> QED BY <3>1, UpTo
  <2>3. Holes \in SUBSET (1..(r.version - 1))
    OBVIOUS
  <2>4. IsFiniteSet(Holes)
    BY <2>2, <2>3, FS_Subset
  <2> QED BY <2>1, <2>4
<1>3. ASSUME Holes # {} PROVE FALSE
  <2>1. PICK h \in Holes : \A k \in Holes : k <= h
    BY <1>2, <1>3, LargestExists
  <2>2. h \in 1..(r.version - 1) /\ ~Behind(h)
    OBVIOUS
  <2>3. \E q \in rows : q.entity = r.entity /\ q.version = h + 1 /\ q.seq <= r.seq
    <3>1. CASE h + 1 = r.version
      BY <1>1, <3>1
    <3>2. CASE h + 1 # r.version
      <4>1. h + 1 \in 1..(r.version - 1) /\ ~(h + 1 <= h)
        BY <1>2, <2>2, <3>2
      <4>2. Behind(h + 1)
        BY <2>1, <4>1
      <4> QED BY <1>1, <4>2
    <3> QED BY <3>1, <3>2
  <2>4. PICK q \in rows : q.entity = r.entity /\ q.version = h + 1 /\ q.seq <= r.seq
    BY <2>3
  <2>5. q.version > 1
    BY <2>2, <2>4
  <2>6. PICK p \in rows : p.entity = q.entity /\ p.version + 1 = q.version /\ p.seq < q.seq
    BY <1>1, <2>5
  <2>7. p.version = h /\ p.seq < r.seq
    BY <1>1, <2>2, <2>4, <2>6
  <2> QED BY <2>2, <2>4, <2>6, <2>7
<1>4. v \in 1..(r.version - 1)
  BY <1>2
<1> QED BY <1>3, <1>4

\* In the log the versions of an entity count up.
LEMMA VersionsFollowNumbers ==
  ASSUME NEW rows, LogRows(rows), NEW q \in rows, NEW r \in rows,
         q.entity = r.entity, q.seq < r.seq
  PROVE  q.version < r.version
<1>1. q.version \in Nat \ {0} /\ r.version \in Nat \ {0} /\ q.seq \in Nat /\ r.seq \in Nat
  BY DEF LogRows, Rows
<1>2. q.version # r.version
  BY <1>1 DEF LogRows
<1>3. ASSUME r.version < q.version PROVE FALSE
  <2>1. PICK p \in rows : p.entity = q.entity /\ p.version = r.version /\ p.seq < q.seq
    BY <1>1, <1>3, SmallerVersionsBehind
  <2>2. p = r
    BY <2>1 DEF LogRows
  <2> QED BY <1>1, <2>1, <2>2
<1> QED BY <1>1, <1>2, <1>3

\* Extends of RecordLog.
NextOfEntity(l, n) ==
  /\ l[n].version = Cardinality({m \in 1..(n-1) : l[m].entity = l[n].entity}) + 1
  /\ \A m \in 1..(n-1) : l[m].id # l[n].id

\* Every entry of the log is the next version of its entity, under a new id.
LEMMA LogExtends ==
  ASSUME NEW rows, LogRows(rows), NEW n \in 1..MaxSeq(rows)
  PROVE  NextOfEntity(LogOf(rows), n)
<1> DEFINE log == LogOf(rows)
           Same == {m \in 1..(n - 1) : log[m].entity = log[n].entity}
           f == [m \in Same |-> log[m].version]
<1>1. /\ MaxSeq(rows) \in Nat
      /\ \A q \in rows : q.seq \in 1..MaxSeq(rows) /\ log[q.seq] = EntryOf(q)
      /\ \A q \in rows : q.version \in Nat \ {0}
  BY LogHasRows DEF LogRows, Rows
<1>2. \A m \in 1..MaxSeq(rows) : \E q \in rows : q.seq = m /\ log[m] = EntryOf(q)
  BY <1>1, EveryNumberTaken
<1>3. PICK r \in rows : r.seq = n /\ log[n] = EntryOf(r)
  BY <1>2
<1> HIDE DEF log
<1>4. \A m \in 1..(n - 1) : \E q \in rows : q.seq = m /\ q.seq < r.seq /\ log[m] = EntryOf(q)
  <2>1. \A m \in 1..(n - 1) : m \in 1..MaxSeq(rows) /\ m < n
    BY <1>1
  <2> QED BY <1>2, <1>3, <2>1
<1>5. \A m \in 1..(n - 1) : log[m].id # log[n].id
  <2>1. ASSUME NEW m \in 1..(n - 1), log[m].id = log[n].id PROVE FALSE
    <3>1. PICK q \in rows : q.seq = m /\ q.seq < r.seq /\ log[m] = EntryOf(q)
      BY <1>4
    <3>2. q.id = r.id
      BY <1>3, <2>1, <3>1 DEF EntryOf
    <3>3. q = r
      BY <3>2 DEF LogRows
    <3> QED BY <1>1, <3>1, <3>3
  <2> QED BY <2>1
<1>6. \A m \in Same : \E q \in rows :
         q.seq = m /\ q.entity = r.entity /\ f[m] = q.version /\ q.version < r.version
  <2>1. ASSUME NEW m \in Same
        PROVE  \E q \in rows :
                 q.seq = m /\ q.entity = r.entity /\ f[m] = q.version /\ q.version < r.version
    <3>1. PICK q \in rows : q.seq = m /\ q.seq < r.seq /\ log[m] = EntryOf(q)
      BY <1>4
    <3>2. q.entity = r.entity /\ f[m] = q.version
      BY <1>3, <3>1 DEF EntryOf
    <3>3. q.version < r.version
      BY <3>1, <3>2, VersionsFollowNumbers
    <3> QED BY <3>1, <3>2, <3>3
  <2> QED BY <2>1
<1>7. r.version \in Nat \ {0} /\ IsFiniteSet(Same)
  <2>1. IsFiniteSet(1..(n - 1))
    BY <1>1, FS_Interval
  <2> QED BY <1>1, <2>1, FS_Subset
<1>8. f \in Surjection(Same, 1..(r.version - 1))
  <2>1. \A m \in Same : f[m] \in 1..(r.version - 1)
    BY <1>1, <1>6, <1>7
  <2>2. ASSUME NEW v \in 1..(r.version - 1) PROVE \E m \in Same : f[m] = v
    <3>1. v \in Nat \ {0} /\ v < r.version
      BY <1>7
    <3>2. PICK q \in rows : q.entity = r.entity /\ q.version = v /\ q.seq < r.seq
      BY <3>1, SmallerVersionsBehind
    <3>3. q.seq \in 1..(n - 1) /\ log[q.seq] = EntryOf(q)
      BY <1>1, <1>3, <3>2 DEF log
    <3>4. q.seq \in Same /\ f[q.seq] = v
      BY <1>3, <3>2, <3>3 DEF EntryOf
    <3> QED BY <3>4
  <2> QED BY <2>1, <2>2 DEF Surjection
<1>9. f \in Injection(Same, 1..(r.version - 1))
  <2>1. ASSUME NEW k \in Same, NEW m \in Same, f[k] = f[m] PROVE k = m
    BY <1>6, <2>1 DEF LogRows
  <2>2. f \in [Same -> 1..(r.version - 1)]
    BY <1>8 DEF Surjection
  <2> QED BY <2>1, <2>2 DEF Injection, IsInjective
<1>10. Cardinality(Same) = r.version - 1
  <2>1. Cardinality(1..(r.version - 1)) = r.version - 1
    <3>1. r.version - 1 \in Nat
      BY <1>7
    <3> QED BY <3>1, UpTo
  <2>2. Cardinality(1..(r.version - 1)) = Cardinality(Same)
    BY <1>7, <1>8, <1>9, FS_Surjection
  <2> QED BY <2>1, <2>2
<1>11. log[n].version = Cardinality(Same) + 1
  <2>1. log[n].version = r.version
    BY <1>3 DEF EntryOf
  <2>2. r.version \in Nat /\ (r.version - 1) + 1 = r.version
    BY <1>7
  <2>3. Cardinality(Same) + 1 = (r.version - 1) + 1
    BY <1>10
  <2> QED BY <2>1, <2>2, <2>3
<1> QED BY <1>5, <1>11 DEF log, NextOfEntity

\* Log k continues log l.
Continues(k, l) ==
  /\ Len(k) > Len(l)
  /\ \A n \in 1..Len(l) : l[n] = k[n]
  /\ \A n \in (Len(l) + 1)..Len(k) : NextOfEntity(k, n)

\* Rows above the largest number lengthen the log and change nothing in it.
LEMMA MoreRowsGrowLog ==
  ASSUME NEW rows, LogRows(rows), NEW more, LogRows(more), rows \subseteq more,
         more # rows, \A r \in more \ rows : r.seq > MaxSeq(rows)
  PROVE  Continues(LogOf(more), LogOf(rows))
<1>1. /\ Len(LogOf(rows)) = MaxSeq(rows) /\ MaxSeq(rows) \in Nat
      /\ Len(LogOf(more)) = MaxSeq(more) /\ MaxSeq(more) \in Nat
      /\ \A r \in rows : r.seq \in 1..MaxSeq(rows) /\ LogOf(rows)[r.seq] = EntryOf(r)
      /\ \A r \in more : r.seq \in 1..MaxSeq(more) /\ LogOf(more)[r.seq] = EntryOf(r)
  BY LogHasRows
<1>2. PICK r \in more : r.seq > MaxSeq(rows)
  OBVIOUS
<1>3. MaxSeq(more) > MaxSeq(rows)
  BY <1>1, <1>2
<1>4. ASSUME NEW n \in 1..MaxSeq(rows) PROVE LogOf(rows)[n] = LogOf(more)[n]
  <2>1. PICK q \in rows : q.seq = n
    BY EveryNumberTaken
  <2> QED BY <1>1, <2>1
<1>5. \A n \in (MaxSeq(rows) + 1)..MaxSeq(more) : NextOfEntity(LogOf(more), n)
  BY <1>1, LogExtends
<1> QED BY <1>1, <1>3, <1>4, <1>5 DEF Continues

-----------------------------------------------------------------------------
\* Rows by version, rows and sets listed.

\* Of finitely many versions one is the newest.
LEMMA NewestExists ==
  ASSUME NEW rows, IsFiniteSet(rows), rows # {}, \A q \in rows : q.version \in Nat
  PROVE  \E q \in rows : \A p \in rows : p.version <= q.version
<1> DEFINE versions == {q.version : q \in rows}
           f == [q \in rows |-> q.version]
<1>1. f \in Surjection(rows, versions)
  BY DEF Surjection
<1>2. IsFiniteSet(versions) /\ versions \in SUBSET Nat /\ versions # {}
  BY <1>1, FS_Surjection
<1>3. PICK v \in versions : \A w \in versions : w <= v
  BY <1>2, LargestExists
<1> QED BY <1>3

\* Rows listed by the second part of their ids: each once, the smaller first.
Ranked(rows) ==
  [n \in 1..Cardinality(rows) |->
     CHOOSE q \in rows : Cardinality({p \in rows : p.id[2] <= q.id[2]}) = n]

LEMMA RankedLists ==
  ASSUME NEW rows, IsFiniteSet(rows), \A q \in rows : q.id[2] \in Nat,
         \A p, q \in rows : p.id[2] = q.id[2] => p = q
  PROVE  /\ Cardinality(rows) \in Nat
         /\ DOMAIN Ranked(rows) = 1..Cardinality(rows)
         /\ \A n \in DOMAIN Ranked(rows) : Ranked(rows)[n] \in rows
         /\ \A q \in rows : \E n \in DOMAIN Ranked(rows) : Ranked(rows)[n] = q
         /\ \A m, n \in DOMAIN Ranked(rows) :
              Ranked(rows)[m].id[2] <= Ranked(rows)[n].id[2] => m <= n
         /\ \A m, n \in DOMAIN Ranked(rows) : Ranked(rows)[m] = Ranked(rows)[n] => m = n
<1> DEFINE N == Cardinality(rows)
           UpToRow(q) == {p \in rows : p.id[2] <= q.id[2]}
           rank == [q \in rows |-> Cardinality(UpToRow(q))]
<1>1. N \in Nat
  BY FS_CardinalityType
<1>2. ASSUME NEW q \in rows
      PROVE  /\ IsFiniteSet(UpToRow(q)) /\ q \in UpToRow(q)
             /\ rank[q] \in 1..N
  <2>1. UpToRow(q) \in SUBSET rows /\ q \in UpToRow(q)
    OBVIOUS
  <2>2. IsFiniteSet(UpToRow(q)) /\ Cardinality(UpToRow(q)) <= N
    BY <2>1, FS_Subset
  <2>3. Cardinality(UpToRow(q)) \in Nat /\ Cardinality(UpToRow(q)) # 0
    BY <2>1, <2>2, FS_CardinalityType, FS_EmptySet
  <2> QED BY <1>1, <2>1, <2>2, <2>3
<1>3. ASSUME NEW p \in rows, NEW q \in rows, p.id[2] < q.id[2]
      PROVE  rank[p] < rank[q]
  <2>1. q \notin UpToRow(p) /\ UpToRow(p) \subseteq UpToRow(q)
    BY <1>3
  <2>2. UpToRow(p) # UpToRow(q)
    BY <1>2, <2>1
  <2>3. /\ Cardinality(UpToRow(p)) <= Cardinality(UpToRow(q))
        /\ Cardinality(UpToRow(p)) # Cardinality(UpToRow(q))
    BY <1>2, <2>1, <2>2, FS_Subset
  <2> QED BY <1>2, <2>3
<1>4. \A p, q \in rows : /\ rank[p] = rank[q] => p = q
                         /\ p.id[2] <= q.id[2] => rank[p] <= rank[q]
  <2>1. ASSUME NEW p \in rows, NEW q \in rows
        PROVE  /\ rank[p] = rank[q] => p = q
               /\ p.id[2] <= q.id[2] => rank[p] <= rank[q]
    <3>1. p.id[2] \in Nat /\ q.id[2] \in Nat /\ rank[p] \in Nat /\ rank[q] \in Nat
      <4>1. rank[p] \in 1..N /\ rank[q] \in 1..N
        BY <1>2
      <4> HIDE DEF rank
      <4> QED BY <1>1, <4>1
    <3> HIDE DEF rank
    <3>2. CASE p.id[2] < q.id[2]
      BY <1>3, <3>1, <3>2
    <3>3. CASE q.id[2] < p.id[2]
      BY <1>3, <3>1, <3>3
    <3>4. CASE p.id[2] = q.id[2]
      BY <3>1, <3>4
    <3> QED BY <3>1, <3>2, <3>3, <3>4
  <2> QED BY <2>1
<1>5. rank \in Injection(rows, 1..N)
  BY <1>2, <1>4 DEF Injection, IsInjective
<1>6. rank \in Surjection(rows, 1..N)
  <2>1. IsFiniteSet(1..N) /\ Cardinality(1..N) = N
    BY <1>1, UpTo
  <2> QED BY <1>5, <2>1, FS_Injection
<1>7. \A n \in 1..N : \E q \in rows : rank[q] = n
  BY <1>6 DEF Surjection
<1>8. DOMAIN Ranked(rows) = 1..N
  BY DEF Ranked
<1>9. \A n \in 1..N : Ranked(rows)[n] \in rows /\ rank[Ranked(rows)[n]] = n
  BY <1>7 DEF Ranked
<1> HIDE DEF rank
<1>10. \A q \in rows : Ranked(rows)[rank[q]] = q /\ rank[q] \in 1..N
  BY <1>2, <1>4, <1>9
<1> QED BY <1>1, <1>4, <1>8, <1>9, <1>10

\* A finite set listed in some order, each member once.
Listed(U) == CHOOSE f \in [1..Cardinality(U) -> U] : IsInjective(f)

LEMMA ListedOnce ==
  ASSUME NEW U, IsFiniteSet(U)
  PROVE  Listed(U) \in Bijection(1..Cardinality(U), U)
<1> DEFINE N == Cardinality(U)
           f == Listed(U)
<1>1. N \in Nat /\ ExistsBijection(1..N, U)
  BY FS_CardinalityType
<1>2. \E g \in [1..N -> U] : IsInjective(g)
  BY <1>1 DEF ExistsBijection, Bijection, Injection
<1>3. f \in [1..N -> U] /\ IsInjective(f)
  BY <1>2 DEF Listed
<1>4. f \in Injection(1..N, U)
  BY <1>3 DEF Injection
<1>5. IsFiniteSet(1..N) /\ Cardinality(1..N) = Cardinality(U)
  BY <1>1, UpTo
<1> HIDE DEF N, f
<1>6. f \in Surjection(1..N, U)
  BY <1>4, <1>5, FS_Injection
<1>7. f \in Bijection(1..N, U)
  BY <1>4, <1>6 DEF Bijection
<1> QED BY <1>7 DEF N, f
=============================================================================

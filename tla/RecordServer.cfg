\* Three record ids over two entities, batches of up to two, pages of one.
SPECIFICATION FairSpec
CONSTANTS
  Id = {i1, i2, i3}
  Entity = {e1, e2}
  Reader = {d1, d2}
  MaxVersion = 3
  MaxBatch = 2
  PageLimit = 1
INVARIANTS TypeOK TableIsLog RepliesStand
PROPERTIES AppendOnly EverythingArrives ImplementsLog

SPECIFICATION Spec
CONSTANTS
  Subjects = {"intset", "sortedset", "dict", "zipmap", "ziplist"}
  MaxLevel = 2
  MaxElement = 4
  NoKey = NoKey
  MaxEntries = 5
  ShrinkingInserts = FALSE
INVARIANTS CompactEncodingsHold EncodingsAgree EveryKeyHasItsBucket IteratorsSeeAll
PROPERTY StructuresImplementMaps

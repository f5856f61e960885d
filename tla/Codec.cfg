SPECIFICATION Spec
CHECK_DEADLOCK FALSE
CONSTANTS
  U32Max = 65535
  MaxArrayCount = 16
  Types <- MCTypes
  Corpus <- MCCorpus
  Followers <- MCFollowers
INVARIANTS ReadsWhatWasWritten StaysAligned SizeCovers ThroughValue

\* All hash values for up to 4 inputs, 4 buckets and 2 hash functions; 5 inputs
\* are too many.
CONSTANTS
  InputCounts = {0, 1, 2, 3, 4, 5}
  BucketCount = 4
  num_hash_functions = 2
SPECIFICATION FairHashCuckoo
INVARIANTS HashCuckooTypeOK NothingLost PlacedByHash ResultComplete
PROPERTIES Terminates
CHECK_DEADLOCK FALSE

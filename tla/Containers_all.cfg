\* A table that grows from 1 to 3 and 7 buckets, two lists of up to six
\* elements, blocks of 2 to 16 bytes with a high-water mark of 4, cut with a byte
\* waiting too.
SPECIFICATION Spec
CONSTANTS
  Nodes <- MCNodes
  Lists = {"a", "b"}
  HashValue <- MCHash
  BucketSize = 1
  DEFAULT_SIZE = 2
  HIGHWAT_SIZE = 4
  MaxBytes = 9
  Parts = {"list", "map", "buffer"}
  NULL = NULL
INVARIANT Sound
PROPERTY CollectionsSpec

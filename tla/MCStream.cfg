SPECIFICATION FairSpec
CONSTANTS
  CHUNK_SIZE = 2
  AUTH_TAG_LENGTH = 1
  FieldsLength = 1
  IV_LENGTH = 1
  MAX_FILENAME_LENGTH = 2
  FETCH_CHUNK_SIZE = 4
  InfoLength = 7
  Files <- SmallFiles
INVARIANTS TypeOK BufferIsWindow BufferIsBounded SameAsInMemory WholeFileOpens
PROPERTY Terminates
CHECK_DEADLOCK FALSE

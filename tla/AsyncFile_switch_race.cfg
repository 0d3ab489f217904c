CONSTANTS
  FileSize <- MCFileSize
  RecLen <- MCRecLen
  MaxSerial <- MCMaxSerial
  WriterCrashes = FALSE
  ReaderCrashes = FALSE
SPECIFICATION Spec
\* Without crashes the pair may really stop: a reader whose switch open
\* failed gets ERR_ASYNC_READER_LOGIC from every Read, and the writer has
\* written all its records.
CHECK_DEADLOCK FALSE
INVARIANT ReadsOnlyRecords

CONSTANTS
  FileSize <- MCFileSize
  RecLen <- MCRecLen
  MaxSerial <- MCMaxSerial
  WriterCrashes = TRUE
  ReaderCrashes = TRUE
SPECIFICATION Spec
INVARIANT TypeOK
INVARIANT InFlightUncommitted
INVARIANT NextFileExists

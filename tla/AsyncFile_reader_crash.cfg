CONSTANTS
  FileSize <- MCFileSize
  RecLen <- MCRecLen
  MaxSerial <- MCMaxSerial
  WriterCrashes = FALSE
  ReaderCrashes = TRUE
SPECIFICATION Spec
PROPERTY CommitNeverRegresses

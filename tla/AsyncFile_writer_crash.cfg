CONSTANTS
  FileSize <- MCFileSize
  RecLen <- MCRecLen
  MaxSerial <- MCMaxSerial
  WriterCrashes = TRUE
  ReaderCrashes = FALSE
SPECIFICATION Spec
PROPERTY PublishedNeverOverwritten

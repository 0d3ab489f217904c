----------------------------- MODULE MCAsyncFile -----------------------------
(* Small instances of the async file pair for TLC.                         *)
(* Files of 16 bytes; the 8-byte record fills file 0, the next two        *)
(* (one empty) go to file 1, and the last needs file 2, so every switch    *)
(* path is taken.  After the switch race the reader can read garbage from  *)
(* the 4-byte record and land on offset 12, where the writer later puts    *)
(* file 1's end flag.                                                      *)
EXTENDS AsyncFile

MCFileSize == 16
MCRecLen == <<8, 4, 0, 1>>
MCMaxSerial == 2
=============================================================================

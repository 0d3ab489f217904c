------------------------ MODULE AsyncFileLayout_proofs ------------------------
(***************************************************************************)
(* Proofs about the async file pair (AsyncFile) when the writer process   *)
(* does not die (WriterCrashes = FALSE), for every file size, every       *)
(* sequence of record lengths and every bound on serials: whenever Output *)
(* meets an end flag, the file after ReaderPos exists (NextFileExists),   *)
(* unless the reader has earlier jumped by a garbage length (garbled).    *)
(*                                                                         *)
(* The layout invariant below does not hold for a writer that may die: a  *)
(* writer restarted between the two stores of SwitchWriterPos resumes at  *)
(* offset 0 of the file it was leaving and writes over its records.  With *)
(* crashes, NextFileExists is only model-checked (run asyncfile_crash).   *)
(* Types with crashes are proved in AsyncFile_proofs.                     *)
(*                                                                         *)
(* Garbage is handled by proving IInv \/ garbled: once garbled is set it  *)
(* stays set, and every step that keeps garbled false keeps IInv.         *)
(*                                                                         *)
(* The argument.  WLog is WriterPos as the writer means it: during the    *)
(* second store of SwitchWriterPos, the front of the next file.  WLog     *)
(* never moves back.  Below WLog the files are tiled with records, each   *)
(* followed by a record, an end flag or WLog; above WLog every byte is    *)
(* zero.  An end flag whose next file does not exist yet sits at          *)
(* WriterPos.  The reader stands at WLog, before it on a record, a flag   *)
(* or inside a record, or (after reading a zero length at the front of a  *)
(* file the writer has just switched to) one length past it; and in the   *)
(* tests of Read, what it has loaded of WriterPos keeps it out of Output  *)
(* while it stands at a WLog that is not the front of a file.  So when    *)
(* Output meets an end flag, the writer has already left that file, and   *)
(* OpenForReader of the next one succeeds.                                *)
(***************************************************************************)
EXTENDS AsyncFile_proofs

\* WriterPos as the writer means it: the front of the next file while
\* SwitchWriterPos is between its two stores.
WLog == IF wst = "switch_serial" THEN Shifted(wpos) ELSE wpos

\* The byte of the files at position p, and whether p is a byte of a file.
Cell(p) == data[p.serial][p.offset]
InFile(p) == p.serial \in Serials /\ p.offset \in 0 .. FileSize - 1
PosOf(s, o) == [serial |-> s, offset |-> o]

\* Where the record stored at offset o of file s ends.
RecEnd(s, o) == o + LenBytes + RecLen[data[s][o]]

\* The writer's control point and what it says about _pos, WriterPos and
\* the record the writer is given.
WriterInv ==
  /\ wst \in {"down", "idle", "retry", "open_next"} => wloc = wpos
  /\ wst \in {"switch_off", "switch_serial"} => wloc = Shifted(wpos)
  /\ wst \in {"retry", "switch_serial"} => wpos.offset = 0
  /\ wst \in {"retry", "open_next", "switch_off", "switch_serial"} => nextId \in Ids
  /\ wst \in {"open_next", "switch_off"} => InFile(wpos) /\ Cell(wpos) = EndFlag
  /\ wpos.offset + EndFlagBytes <= FileSize \/ wpos = Origin
  /\ wst = "down" => wpos = Origin /\ made = {}

\* A file the writer has written into starts with a record.
Starts ==
  \A s \in Serials :
    (s < WLog.serial \/ (s = WLog.serial /\ WLog.offset > 0))
      => InFile(PosOf(s, 0)) /\ data[s][0] \in Ids

\* A record fits with room for an end flag, is followed by a record, an
\* end flag or WLog, ends at or before WLog, and its payload bytes read 0.
Records ==
  \A s \in Serials, o \in 0 .. FileSize - 1 :
    data[s][o] \in Ids =>
      /\ RecEnd(s, o) + EndFlagBytes <= FileSize
      /\ PosOf(s, RecEnd(s, o)) = WLog \/ data[s][RecEnd(s, o)] \in Ids \cup {EndFlag}
      /\ ~Before(WLog, PosOf(s, RecEnd(s, o)))
      /\ \A o2 \in o + 1 .. RecEnd(s, o) - 1 : data[s][o2] = Zero

\* Nothing but an end flag at WLog, and nothing at all past it.
Beyond ==
  \A s \in Serials, o \in 0 .. FileSize - 1 :
    /\ ~Before(PosOf(s, o), WLog) => data[s][o] \in {Zero, EndFlag}
    /\ Before(WLog, PosOf(s, o)) => data[s][o] = Zero

\* An end flag is never at the front of a file; its next file exists
\* unless the flag is at WriterPos and the writer has not opened it; and
\* it is at WLog or in a file before it.
Flags ==
  \A s \in Serials, o \in 0 .. FileSize - 1 :
    data[s][o] = EndFlag =>
      /\ o # 0
      /\ s + 1 \in made \/ (PosOf(s, o) = wpos /\ wst \in {"idle", "open_next"})
      /\ s < WLog.serial \/ PosOf(s, o) = WLog

Layout == Starts /\ Records /\ Beyond /\ Flags

\* Where a reader position may be: at WLog; before it on a record, an end
\* flag or inside a record; or one length past the front of a file the
\* writer has switched to and not yet written.
RP(p) ==
  \/ p = WLog
  \/ /\ Before(p, WLog) /\ InFile(p)
     /\ Cell(p) \in Ids \cup {EndFlag} \/ InsideRecord(data[p.serial], p.offset)
  \/ wst = "retry" /\ p = Front(WLog, LenBytes)

\* What the tests of Read have loaded of WriterPos, at each control point.
ReaderInv ==
  /\ RP(rloc) /\ RP(rpos)
  /\ rst \notin {"down", "idle", "trans_o"} => ~Before(WLog, rloc)
  /\ rst = "trans_o" /\ Before(WLog, rloc) => snap.serial = rloc.serial
  /\ snap.serial <= wpos.serial
  /\ rst = "eq_o" /\ rloc = WLog /\ wst \notin {"retry", "switch_serial"}
       => snap.serial = rloc.serial
  /\ rst \in {"gt_s", "gt_o", "gt2_s", "gt2_o"} /\ rloc = WLog
       => wst \in {"retry", "switch_serial"}
  /\ rst = "output" /\ rloc = WLog => wst = "retry"

IInv ==
  TypeOK /\ CursorInv /\ WriterInv /\ Layout /\ ReaderInv

-----------------------------------------------------------------------------
\* Front(v) moves v bytes forward in the same file (stated before the
\* assumption on the constants is put in use: its Seq(Nat) fact keeps the
\* SMT backend from the record equality).
LEMMA FrontIsPosOf ==
  ASSUME NEW p \in IPos, NEW n \in Nat
  PROVE  Front(p, LenBytes + n) = PosOf(p.serial, p.offset + LenBytes + n)
  BY DEF Front, PosOf, IPos, LenBytes

\* A position is the pair of its serial and offset.
LEMMA PosOfSelf ==
  ASSUME NEW p \in IPos
  PROVE  PosOf(p.serial, p.offset) = p
  BY DEF PosOf, IPos

LEMMA FrontLen ==
  ASSUME NEW p \in IPos
  PROVE  Front(p, LenBytes) = PosOf(p.serial, p.offset + LenBytes)
  BY DEF Front, PosOf, IPos, LenBytes

USE ConstAssumption

\* A record that leaves room for an end flag ends inside its file.
LEMMA EndInFile ==
  ASSUME NEW o \in 0 .. FileSize - 1, NEW n \in Nat,
         o + LenBytes + n + EndFlagBytes <= FileSize
  PROVE  o + LenBytes + n \in 0 .. FileSize - 1
  BY DEF LenBytes, EndFlagBytes

\* Before is a strict total order on positions.
LEMMA BeforeOrder ==
  ASSUME NEW p \in IPos, NEW q \in IPos, NEW r \in IPos
  PROVE  /\ ~Before(p, p)
         /\ Before(p, q) => ~Before(q, p)
         /\ p = q \/ Before(p, q) \/ Before(q, p)
         /\ Before(p, q) /\ ~Before(r, q) => Before(p, r)
         /\ ~Before(q, p) /\ ~Before(r, q) => ~Before(r, p)
         /\ ~Before(q, p) /\ Before(q, r) => Before(p, r)
  BY DEF Before, IPos

LEMMA PosIsIPos == Pos \subseteq IPos
  BY DEF Pos, IPos, Serials, Offsets

\* WLog is a position of the files.
LEMMA WLogPos ==
  ASSUME TypeOK, WriterInv
  PROVE  WLog \in Pos
  BY DEF WLog, TypeOK, WriterInv

\* A writer that has just switched files is at their front, has a record
\* to write, and the record fits.
LEMMA RetryFits ==
  ASSUME TypeOK, WriterInv, wst = "retry"
  PROVE  /\ wloc = wpos /\ WLog = wpos /\ wpos.offset = 0
         /\ nextId \in Ids
         /\ RecLen[nextId] \in Nat
         /\ FileSize >= LenBytes + RecLen[nextId] + EndFlagBytes
         /\ ~IsWriterEnd(wloc, RecLen[nextId])
  <1>1. wloc = wpos /\ WLog = wpos /\ wpos.offset = 0 /\ nextId \in Ids
    BY DEF WriterInv, WLog
  <1>2. RecLen[nextId] \in Nat
    BY <1>1, RecLenNat
  <1>3. QED
    BY <1>1, <1>2 DEF IsWriterEnd, LenBytes, EndFlagBytes

\* A reader position past WLog is one length past the front of a file the
\* writer has just switched to.
LEMMA AheadIsZeroRead ==
  ASSUME TypeOK, WriterInv, NEW p \in IPos, RP(p), Before(WLog, p)
  PROVE  wst = "retry" /\ p = Front(WLog, LenBytes)
  <1>1. WLog \in IPos
    BY WLogPos, PosIsIPos
  <1>2. ~(p = WLog) /\ ~Before(p, WLog)
    BY <1>1, BeforeOrder
  <1>3. QED
    BY <1>2 DEF RP

-----------------------------------------------------------------------------
(* Steps of the reader.                                                    *)

LEMMA ReaderKeepsLayout ==
  ASSUME ReaderStep \/ ReaderCrash, WriterInv, Layout
  PROVE  WriterInv' /\ Layout' /\ WLog' = WLog
  <1>1. UNCHANGED <<data, made, wpos, wst, wloc, nextId>>
    BY ReaderKeepsWriter
  <1>2. WLog' = WLog
    BY <1>1 DEF WLog
  <1>3. WriterInv'
    BY <1>1 DEF WriterInv, InFile, Cell
  <1>4. Starts' /\ Records' /\ Beyond' /\ Flags'
    BY <1>1, <1>2 DEF Layout, Starts, Records, Beyond, Flags, InFile, PosOf,
                      RecEnd
  <1>5. QED
    BY <1>2, <1>3, <1>4 DEF Layout

\* A step that moves neither the reader's positions nor the files keeps
\* both positions where RP allows them.
LEMMA RPKept ==
  ASSUME UNCHANGED <<data, made, wpos, wst, wloc, nextId, rloc, rpos>>,
         RP(rloc), RP(rpos)
  PROVE  RP(rloc)' /\ RP(rpos)'
  BY DEF RP, WLog, Cell, InFile, InsideRecord

\* In the tests of Read the reader stands where ReaderPos says.
LEMMA TestingAtRpos ==
  ASSUME CursorInv,
         rst \in {"trans_o", "eq_s", "eq_o", "gt_s", "gt_o", "gt2_s", "gt2_o",
                  "output"}
  PROVE  rloc = rpos /\ ~proc
  BY DEF CursorInv

\* IsTransient sends a reader that stands one length past the front of the
\* writer's new file back to wait, so the reader enters EQ never ahead of
\* the writer.
LEMMA TransientTestInv ==
  ASSUME IInv, TransientTest
  PROVE  ReaderInv'
  <1>1. UNCHANGED <<data, made, wpos, wst, wloc, nextId, rloc, rpos, proc, out, garbled>>
        /\ rst = "trans_o"
        /\ snap' = [snap EXCEPT !.offset = wpos.offset]
        /\ rst' = IF IsTransient(rpos, snap') THEN "idle" ELSE "eq_s"
    BY DEF TransientTest, LoadOffsetTest
  <1>2. RP(rloc)' /\ RP(rpos)'
    BY <1>1, RPKept DEF IInv, ReaderInv
  <1>3. rloc = rpos
    BY <1>1, TestingAtRpos DEF IInv
  <1>4. rst' = "eq_s" => ~Before(WLog, rloc)
    <2> SUFFICES ASSUME rst' = "eq_s", Before(WLog, rloc) PROVE FALSE
      OBVIOUS
    <2>0. TypeOK /\ WriterInv /\ RP(rloc) /\ rloc \in IPos
      BY PosIsIPos DEF IInv, ReaderInv, TypeOK
    <2>1. wst = "retry" /\ rloc = Front(WLog, LenBytes)
      BY <2>0, AheadIsZeroRead
    <2>2. WLog = wpos /\ wpos.offset = 0
      BY <2>0, <2>1, RetryFits
    <2>3. snap.serial = rloc.serial
      BY <1>1 DEF IInv, ReaderInv
    <2>4. wpos \in Pos /\ snap \in Pos
      BY DEF IInv, TypeOK
    <2>5. rloc.serial = wpos.serial /\ rloc.offset = LenBytes
      BY <2>1, <2>2, <2>4 DEF Front, Pos, LenBytes
    <2>6. IsTransient(rpos, snap')
      BY <1>1, <1>3, <2>2, <2>3, <2>4, <2>5 DEF IsTransient, Pos, LenBytes
    <2>7. QED
      BY <1>1, <2>6
  <1>5. snap'.serial = snap.serial
    BY <1>1 DEF IInv, TypeOK, Pos
  <1>6. WLog' = WLog
    BY <1>1 DEF WLog
  <1>7. (rst \notin {"down", "idle", "trans_o"} => ~Before(WLog, rloc))'
    BY <1>1, <1>4, <1>6
  <1>8. /\ (rst = "trans_o" /\ Before(WLog, rloc) => snap.serial = rloc.serial)'
        /\ (snap.serial <= wpos.serial)'
        /\ (rst = "eq_o" /\ rloc = WLog /\ wst \notin {"retry", "switch_serial"}
              => snap.serial = rloc.serial)'
        /\ (rst \in {"gt_s", "gt_o", "gt2_s", "gt2_o"} /\ rloc = WLog
              => wst \in {"retry", "switch_serial"})'
        /\ (rst = "output" /\ rloc = WLog => wst = "retry")'
    BY <1>1, <1>5 DEF IInv, ReaderInv
  <1>9. QED
    BY <1>2, <1>7, <1>8 DEF ReaderInv

\* EQ sends a reader that stands at WriterPos back to wait.
LEMMA EQTestInv ==
  ASSUME IInv, EQTest
  PROVE  ReaderInv'
  <1>1. UNCHANGED <<data, made, wpos, wst, wloc, nextId, rloc, rpos, proc, out, garbled>>
        /\ rst = "eq_o"
        /\ snap' = [snap EXCEPT !.offset = wpos.offset]
        /\ rst' = IF EQ(rpos, snap') THEN "idle" ELSE "gt_s"
    BY DEF EQTest, LoadOffsetTest
  <1>2. RP(rloc)' /\ RP(rpos)'
    BY <1>1, RPKept DEF IInv, ReaderInv
  <1>3. rloc = rpos
    BY <1>1, TestingAtRpos DEF IInv
  <1>4. rst' = "gt_s" /\ rloc = WLog => wst \in {"retry", "switch_serial"}
    <2> SUFFICES ASSUME rst' = "gt_s", rloc = WLog,
                        wst \notin {"retry", "switch_serial"}
                 PROVE  FALSE
      OBVIOUS
    <2>1. WLog = wpos
      BY DEF WLog
    <2>2. snap.serial = rloc.serial
      BY <1>1 DEF IInv, ReaderInv
    <2>3. EQ(rpos, snap')
      BY <1>1, <1>3, <2>1, <2>2 DEF EQ, IInv, TypeOK, Pos
    <2>4. QED
      BY <1>1, <2>3
  <1>5. snap'.serial = snap.serial
    BY <1>1 DEF IInv, TypeOK, Pos
  <1>6. WLog' = WLog
    BY <1>1 DEF WLog
  <1>7. /\ (rst \notin {"down", "idle", "trans_o"} => ~Before(WLog, rloc))'
        /\ (rst = "trans_o" /\ Before(WLog, rloc) => snap.serial = rloc.serial)'
        /\ (snap.serial <= wpos.serial)'
        /\ (rst = "eq_o" /\ rloc = WLog /\ wst \notin {"retry", "switch_serial"}
              => snap.serial = rloc.serial)'
        /\ (rst = "output" /\ rloc = WLog => wst = "retry")'
    BY <1>1, <1>5, <1>6 DEF IInv, ReaderInv
  <1>8. (rst \in {"gt_s", "gt_o", "gt2_s", "gt2_o"} /\ rloc = WLog
           => wst \in {"retry", "switch_serial"})'
    BY <1>1, <1>4, <1>6
  <1>9. QED
    BY <1>2, <1>7, <1>8 DEF ReaderInv

\* GT sends a reader that stands at the front of the writer's next file,
\* while the writer is between the two stores of SwitchWriterPos, on to
\* the second GT or to report the overflow: never to Output.
LEMMA GTTestsInv ==
  ASSUME IInv, GTTest \/ GTRecheckTest
  PROVE  ReaderInv'
  <1>1. /\ UNCHANGED <<data, made, wpos, wst, wloc, nextId, rloc, rpos, proc, out, garbled>>
        /\ rst \in {"gt_o", "gt2_o"}
        /\ snap' = [snap EXCEPT !.offset = wpos.offset]
        /\ rst' \in {"gt2_s", "overflow", "output"}
        /\ rst' = "output" => ~GT(rpos, snap')
    BY DEF GTTest, GTRecheckTest, LoadOffsetTest
  <1>2. RP(rloc)' /\ RP(rpos)'
    BY <1>1, RPKept DEF IInv, ReaderInv
  <1>3. rloc = rpos
    BY <1>1, TestingAtRpos DEF IInv
  <1>4. rst' = "output" /\ rloc = WLog => wst = "retry"
    <2> SUFFICES ASSUME rst' = "output", rloc = WLog, wst # "retry"
                 PROVE  FALSE
      OBVIOUS
    <2>1. wst = "switch_serial"
      BY <1>1 DEF IInv, ReaderInv
    <2>2. rloc = Shifted(wpos)
      BY <2>1 DEF WLog
    <2>3. snap'.serial <= wpos.serial
      BY <1>1 DEF IInv, ReaderInv, TypeOK, Pos
    <2>6. rpos.serial = wpos.serial + 1
      BY <1>3, <2>2 DEF Shifted
    <2>7. wpos \in Pos /\ snap' \in Pos
      BY <1>1 DEF IInv, TypeOK, Pos
    <2>4. GT(rpos, snap')
      BY <2>3, <2>6, <2>7 DEF GT, Pos, Serials
    <2>5. QED
      BY <1>1, <2>4
  <1>5. rst' = "gt2_s" /\ rloc = WLog => wst \in {"retry", "switch_serial"}
    BY <1>1 DEF IInv, ReaderInv
  <1>6. snap'.serial = snap.serial
    BY <1>1 DEF IInv, TypeOK, Pos
  <1>7. WLog' = WLog
    BY <1>1 DEF WLog
  <1>8. /\ (rst \notin {"down", "idle", "trans_o"} => ~Before(WLog, rloc))'
        /\ (rst = "trans_o" /\ Before(WLog, rloc) => snap.serial = rloc.serial)'
        /\ (snap.serial <= wpos.serial)'
        /\ (rst = "eq_o" /\ rloc = WLog /\ wst \notin {"retry", "switch_serial"}
              => snap.serial = rloc.serial)'
    BY <1>1, <1>6, <1>7 DEF IInv, ReaderInv
  <1>9. (rst \in {"gt_s", "gt_o", "gt2_s", "gt2_o"} /\ rloc = WLog
           => wst \in {"retry", "switch_serial"})'
    BY <1>1, <1>5, <1>7
  <1>10. (rst = "output" /\ rloc = WLog => wst = "retry")'
    BY <1>1, <1>4, <1>7
  <1>11. QED
    BY <1>2, <1>8, <1>9, <1>10 DEF ReaderInv

\* The loads of WriterPos.serial.
LEMMA LoadSerialInv ==
  ASSUME IInv, EQLoad \/ GTLoad \/ GTRecheckLoad
  PROVE  ReaderInv'
  <1>1. /\ UNCHANGED <<data, made, wpos, wst, wloc, nextId, rloc, rpos, proc, out, garbled>>
        /\ \/ rst = "eq_s" /\ rst' = "eq_o"
           \/ rst = "gt_s" /\ rst' = "gt_o"
           \/ rst = "gt2_s" /\ rst' = "gt2_o"
        /\ snap' = [snap EXCEPT !.serial = wpos.serial]
    BY DEF EQLoad, GTLoad, GTRecheckLoad, LoadSerial
  <1>2. RP(rloc)' /\ RP(rpos)'
    BY <1>1, RPKept DEF IInv, ReaderInv
  <1>3. snap'.serial = wpos.serial /\ wpos.serial \in Nat
    BY <1>1 DEF IInv, TypeOK, Pos, Serials
  <1>4. rst' = "eq_o" /\ rloc = WLog /\ wst \notin {"retry", "switch_serial"}
          => snap'.serial = rloc.serial
    BY <1>3 DEF WLog
  <1>5. WLog' = WLog
    BY <1>1 DEF WLog
  <1>6. /\ (rst \notin {"down", "idle", "trans_o"} => ~Before(WLog, rloc))'
        /\ (rst = "trans_o" /\ Before(WLog, rloc) => snap.serial = rloc.serial)'
        /\ (snap.serial <= wpos.serial)'
        /\ (rst \in {"gt_s", "gt_o", "gt2_s", "gt2_o"} /\ rloc = WLog
              => wst \in {"retry", "switch_serial"})'
        /\ (rst = "output" /\ rloc = WLog => wst = "retry")'
    BY <1>1, <1>3, <1>5 DEF IInv, ReaderInv
  <1>7. (rst = "eq_o" /\ rloc = WLog /\ wst \notin {"retry", "switch_serial"}
           => snap.serial = rloc.serial)'
    BY <1>1, <1>4, <1>5
  <1>8. QED
    BY <1>2, <1>6, <1>7 DEF ReaderInv

\* In Output the reader stands either at the front of the file the writer
\* has just switched to, where nothing is written yet, or before WLog on a
\* record, an end flag or inside a record.
LEMMA OutputAt ==
  ASSUME IInv, rst = "output"
  PROVE  \/ /\ rloc = WLog /\ wst = "retry" /\ InFile(rloc) /\ rloc.offset = 0
            /\ Here = Zero /\ ~InsideRecord(data[rloc.serial], rloc.offset)
            /\ FileSize >= LenBytes + EndFlagBytes
         \/ /\ Before(rloc, WLog) /\ InFile(rloc)
            /\ Here \in Ids \cup {EndFlag} \/ InsideRecord(data[rloc.serial], rloc.offset)
  <1>0. TypeOK /\ WriterInv /\ RP(rloc) /\ rloc \in IPos /\ WLog \in IPos
        /\ WLog \in Pos
    BY WLogPos, PosIsIPos DEF IInv, ReaderInv, TypeOK
  <1>1. ~Before(WLog, rloc)
    BY DEF IInv, ReaderInv
  <1>2. ~(wst = "retry" /\ rloc = Front(WLog, LenBytes))
    BY <1>0, <1>1 DEF Front, Before, Pos, Serials, Offsets, LenBytes
  <1>3. CASE rloc = WLog
    <2>1. wst = "retry"
      BY <1>3 DEF IInv, ReaderInv
    <2>9. /\ WLog = wpos /\ wpos.offset = 0 /\ RecLen[nextId] \in Nat
          /\ FileSize >= LenBytes + RecLen[nextId] + EndFlagBytes
      BY <1>0, <2>1, RetryFits
    <2>2. WLog = wpos /\ wpos.offset = 0 /\ FileSize >= LenBytes + EndFlagBytes
      BY <2>9 DEF LenBytes, EndFlagBytes
    <2>3. InFile(rloc)
      BY <1>0, <1>3, <2>2 DEF InFile, Pos, LenBytes, EndFlagBytes
    <2>4. ~Before(PosOf(rloc.serial, rloc.offset), WLog)
      BY <1>0, <1>3 DEF PosOf, Before, Pos, Serials, Offsets
    <2>5. Here \in {Zero, EndFlag}
      BY <2>3, <2>4 DEF IInv, Layout, Beyond, Here, InFile
    <2>6. Here # EndFlag
      BY <1>3, <2>2, <2>3 DEF IInv, Layout, Flags, Here, InFile
    <2>7. ~InsideRecord(data[rloc.serial], rloc.offset)
      BY <1>3, <2>2 DEF InsideRecord
    <2>8. QED
      BY <1>3, <2>1, <2>2, <2>3, <2>5, <2>6, <2>7
  <1>4. CASE rloc # WLog
    BY <1>0, <1>2, <1>4 DEF RP, Cell, Here
  <1>5. QED
    BY <1>3, <1>4

\* Output hands out a record and moves to its end, which is WLog or a
\* record or an end flag before it.
LEMMA OutputRecordInv ==
  ASSUME IInv, OutputRecord
  PROVE  ReaderInv' /\ TypeOK'
  <1>1. /\ UNCHANGED <<data, made, wpos, rpos, wst, wloc, nextId, snap, garbled>>
        /\ rst = "output" /\ rst' = "idle" /\ proc' = TRUE
        /\ Here \in Ids /\ out' = Here
        /\ rloc' = Front(rloc, LenBytes + RecLen[Here])
    BY DEF OutputRecord
  <1>2. Before(rloc, WLog) /\ InFile(rloc)
    BY <1>1, OutputAt DEF Zero, Ids
  <1>0. TypeOK /\ WriterInv /\ rloc \in Pos /\ WLog \in IPos /\ WLog \in Pos
    BY WLogPos, PosIsIPos DEF IInv, TypeOK
  <1>3. /\ RecEnd(rloc.serial, rloc.offset) + EndFlagBytes <= FileSize
        /\ PosOf(rloc.serial, RecEnd(rloc.serial, rloc.offset)) = WLog \/ data[rloc.serial][RecEnd(rloc.serial, rloc.offset)] \in Ids \cup {EndFlag}
        /\ ~Before(WLog, PosOf(rloc.serial, RecEnd(rloc.serial, rloc.offset)))
    BY <1>1, <1>2 DEF IInv, Layout, Records, InFile, Here
  <1>4. /\ RecLen[data[rloc.serial][rloc.offset]] \in Nat
        /\ rloc.offset \in 0 .. FileSize - 1 /\ rloc.serial \in Serials
    BY <1>1, <1>2, RecLenNat DEF InFile, Here
  <1>15. rloc \in IPos
    BY <1>0, PosIsIPos
  <1>16. rloc' = Front(rloc, LenBytes + RecLen[data[rloc.serial][rloc.offset]])
    BY <1>1 DEF Here
  <1>17. RecLen[data[rloc.serial][rloc.offset]] \in Nat
    BY <1>4
  <1>5. rloc' = PosOf(rloc.serial, RecEnd(rloc.serial, rloc.offset))
    BY <1>15, <1>16, <1>17, FrontIsPosOf DEF RecEnd
  <1>14. RecEnd(rloc.serial, rloc.offset) + EndFlagBytes <= FileSize
    BY <1>3
  <1>6. RecEnd(rloc.serial, rloc.offset) \in 0 .. FileSize - 1
    <2>1. rloc.offset \in 0 .. FileSize - 1
      BY <1>4
    <2>2. QED
      BY <1>14, <1>17, <2>1, EndInFile DEF RecEnd
  <1>7. rloc' \in Pos /\ rloc' \in IPos
    BY <1>4, <1>5, <1>6, PosIsIPos DEF Pos, PosOf, Offsets
  <1>8. WLog' = WLog
    BY <1>1 DEF WLog
  <1>9. RP(rloc)'
    <2>1. CASE rloc' = WLog
      BY <1>8, <2>1 DEF RP
    <2>2. CASE rloc' # WLog
      <3>1. Before(rloc', WLog)
        BY <1>0, <1>3, <1>5, <1>7, <2>2, BeforeOrder
      <3>2. InFile(rloc') /\ Cell(rloc') \in Ids \cup {EndFlag}
        BY <1>3, <1>4, <1>5, <1>6, <2>2 DEF InFile, Cell, PosOf
      <3>3. QED
        BY <1>1, <1>8, <3>1, <3>2 DEF RP, Cell, InFile
    <2>3. QED
      BY <2>1, <2>2
  <1>10. RP(rpos)'
    BY <1>1 DEF IInv, ReaderInv, RP, WLog, Cell, InFile, InsideRecord
  <1>11. ReaderInv'
    BY <1>1, <1>9, <1>10 DEF IInv, ReaderInv
  <1>12. TypeOK'
    BY <1>1, <1>7 DEF IInv, TypeOK, ReaderStates, Outputs
  <1>13. QED
    BY <1>1, <1>11, <1>12

\* Output reads a zero length only at the front of the file the writer has
\* just switched to, and stands one length past it afterwards.
LEMMA OutputZeroInv ==
  ASSUME IInv, OutputZero
  PROVE  ReaderInv' /\ TypeOK'
  <1>1. /\ UNCHANGED <<data, made, wpos, rpos, wst, wloc, nextId, snap, garbled>>
        /\ rst = "output" /\ rst' = "idle" /\ proc' = TRUE
        /\ Here = Zero /\ ~InsideRecord(data[rloc.serial], rloc.offset)
        /\ out' = Empty /\ rloc' = Front(rloc, LenBytes)
    BY DEF OutputZero
  <1>2. rloc = WLog /\ wst = "retry" /\ rloc.offset = 0
        /\ FileSize >= LenBytes + EndFlagBytes
    BY <1>1, OutputAt DEF Zero, EndFlag, Ids
  <1>0. TypeOK /\ rloc \in Pos
    BY DEF IInv, TypeOK
  <1>3. rloc' \in Pos
    BY <1>0, <1>1, <1>2 DEF Front, Pos, Offsets, LenBytes, EndFlagBytes
  <1>4. RP(rloc)'
    BY <1>1, <1>2 DEF RP, WLog
  <1>5. RP(rpos)'
    BY <1>1 DEF IInv, ReaderInv, RP, WLog, Cell, InFile, InsideRecord
  <1>6. ReaderInv'
    BY <1>1, <1>4, <1>5 DEF IInv, ReaderInv
  <1>7. TypeOK'
    BY <1>1, <1>3 DEF IInv, TypeOK, ReaderStates, Outputs
  <1>8. QED
    BY <1>1, <1>6, <1>7

\* A reader that faults in Output, on a length read from inside a record
\* or on bytes past the mapping, stays where it was.
LEMMA FaultInv ==
  ASSUME IInv, rst = "output", rst' = "fault", proc' = FALSE,
         UNCHANGED <<data, made, wpos, rpos, wst, wloc, nextId, rloc, snap, out,
                     garbled>>
  PROVE  ReaderInv' /\ TypeOK'
  <1>1. RP(rloc)' /\ RP(rpos)'
    BY RPKept DEF IInv, ReaderInv
  <1>2. ReaderInv'
    BY <1>1 DEF IInv, ReaderInv, WLog
  <1>3. TypeOK'
    BY DEF IInv, TypeOK, ReaderStates
  <1>4. QED
    BY <1>2, <1>3

\* Output from inside a record either hands out garbage, which the
\* invariant does not follow (garbled), or faults.
LEMMA OutputGarbageInv ==
  ASSUME IInv, OutputGarbage, ~garbled'
  PROVE  ReaderInv' /\ TypeOK'
  <1>1. /\ UNCHANGED <<data, made, wpos, rpos, wst, wloc, nextId, snap>>
        /\ rst = "output" /\ rst' = "fault" /\ proc' = FALSE
        /\ UNCHANGED <<rloc, out, garbled>>
    BY DEF OutputGarbage
  <1>2. QED
    BY <1>1, FaultInv

LEMMA OutputOverrunInv ==
  ASSUME IInv, OutputOverrun
  PROVE  ReaderInv' /\ TypeOK'
  BY FaultInv DEF OutputOverrun

\* Output meets an end flag only before WLog, where the writer has already
\* created the next file.
LEMMA EndFlagAhead ==
  ASSUME IInv, rst = "output", Here = EndFlag
  PROVE  /\ rloc = rpos /\ Before(rloc, WLog) /\ InFile(rloc)
         /\ rloc.serial + 1 \in made /\ rloc.serial < WLog.serial
  <1>0. TypeOK /\ WriterInv /\ rloc \in IPos /\ WLog \in IPos
    BY WLogPos, PosIsIPos DEF IInv, TypeOK
  <1>2. rloc = rpos
    BY TestingAtRpos DEF IInv
  <1>3. Before(rloc, WLog) /\ InFile(rloc)
    BY OutputAt DEF Zero, EndFlag
  <1>4. rloc # WLog
    BY <1>0, <1>3, BeforeOrder
  <1>5. PosOf(rloc.serial, rloc.offset) = rloc
    BY <1>0, PosOfSelf
  <1>6. /\ rloc.serial + 1 \in made
             \/ (PosOf(rloc.serial, rloc.offset) = wpos /\ wst \in {"idle", "open_next"})
        /\ rloc.serial < WLog.serial \/ PosOf(rloc.serial, rloc.offset) = WLog
    BY <1>3 DEF IInv, Layout, Flags, InFile, Here
  <1>7. wst \in {"idle", "open_next"} => WLog = wpos
    BY DEF WLog
  <1>8. QED
    BY <1>2, <1>3, <1>4, <1>5, <1>6, <1>7

\* The NEED_SWITCH branch of Read opens the next file and moves to its
\* front, which is WLog or the first record of that file; or it fails to
\* open it for a reason of the environment and gives up for good.
LEMMA ReaderOpenNextInv ==
  ASSUME IInv, ReaderOpenNext
  PROVE  ReaderInv' /\ TypeOK'
  <1>1. /\ UNCHANGED <<data, made, wpos, rpos, wst, wloc, nextId, proc, snap, out, garbled>>
        /\ rst = "output" /\ Here = EndFlag /\ rpos.serial < MaxSerial
    BY DEF ReaderOpenNext
  <1>0. TypeOK /\ WriterInv /\ rloc \in IPos /\ rloc \in Pos /\ rpos \in Pos
        /\ WLog \in IPos
        /\ WLog \in Pos
    BY WLogPos, PosIsIPos DEF IInv, TypeOK
  <1>2. /\ rloc = rpos /\ Before(rloc, WLog)
        /\ rloc.serial + 1 \in made /\ rloc.serial < WLog.serial
    BY <1>1, EndFlagAhead
  <1>3. CASE rst' = "logic" /\ UNCHANGED rloc
    <2>1. RP(rloc)' /\ RP(rpos)'
      BY <1>1, <1>3, RPKept DEF IInv, ReaderInv
    <2>2. ~Before(WLog', rloc')
      BY <1>0, <1>1, <1>2, <1>3, BeforeOrder DEF WLog
    <2>3. ReaderInv'
      BY <1>1, <1>3, <2>1, <2>2 DEF IInv, ReaderInv, WLog
    <2>4. TypeOK'
      BY <1>1, <1>3 DEF IInv, TypeOK, ReaderStates
    <2>5. QED
      BY <2>3, <2>4
  <1>4. CASE rloc' = Shifted(rpos) /\ rst' = "switch_off"
    <2>10. rloc' = PosOf(rloc.serial + 1, 0) /\ rloc' \in IPos
      BY <1>0, <1>2, <1>4 DEF Shifted, PosOf, Pos, IPos, Serials
    <2>11. WLog' = WLog
      BY <1>1 DEF WLog
    <2>12. \/ rloc' = WLog
           \/ Before(rloc', WLog) /\ InFile(rloc') /\ Cell(rloc') \in Ids
      <3>1. CASE rloc.serial + 1 = WLog.serial /\ WLog.offset = 0
        BY <1>0, <2>10, <3>1, PosOfSelf
      <3>2. CASE ~(rloc.serial + 1 = WLog.serial /\ WLog.offset = 0)
        <4>1. Before(rloc', WLog)
          BY <1>0, <1>2, <2>10, <3>2 DEF Before, PosOf, Pos, Serials, Offsets
        <4>2. rloc.serial + 1 \in Serials
          BY <1>0, <1>2 DEF Pos, Serials
        <4>3. rloc.serial + 1 < WLog.serial
              \/ (rloc.serial + 1 = WLog.serial /\ WLog.offset > 0)
          BY <1>0, <1>2, <3>2 DEF Pos, Serials, Offsets
        <4>4. InFile(PosOf(rloc.serial + 1, 0)) /\ data[rloc.serial + 1][0] \in Ids
          BY <4>2, <4>3 DEF IInv, Layout, Starts
        <4>5. InFile(rloc') /\ Cell(rloc') \in Ids
          BY <2>10, <4>4 DEF Cell, PosOf
        <4>6. QED
          BY <4>1, <4>5
      <3>3. QED
        BY <3>1, <3>2
    <2>19. RP(rloc)'
      BY <1>1, <2>11, <2>12 DEF RP, Cell, InFile
    <2>13. ~Before(WLog', rloc')
      BY <1>0, <2>10, <2>11, <2>12, BeforeOrder
    <2>14. RP(rpos)'
      BY <1>1 DEF IInv, ReaderInv, RP, WLog, Cell, InFile, InsideRecord
    <2>15. ReaderInv'
      BY <1>1, <1>4, <2>19, <2>13, <2>14 DEF IInv, ReaderInv
    <2>16. rloc' \in Pos
      BY <1>0, <1>1, <1>4 DEF Shifted, Pos, Serials, Offsets
    <2>17. TypeOK'
      BY <1>1, <1>4, <2>16 DEF IInv, TypeOK, ReaderStates
    <2>18. QED
      BY <2>15, <2>17
  <1>5. QED
    BY <1>3, <1>4 DEF ReaderOpenNext

\* The first store of SwitchReaderPos puts ReaderPos at the front of the
\* file the reader is leaving, whose first record is before WLog.
LEMMA ReaderSwitchOffsetInv ==
  ASSUME IInv, ReaderSwitchOffset
  PROVE  ReaderInv' /\ TypeOK'
  <1>1. /\ UNCHANGED <<data, made, wpos, wst, wloc, nextId, rloc, proc, snap, out, garbled>>
        /\ rst = "switch_off" /\ rst' = "switch_serial"
        /\ rpos' = [rpos EXCEPT !.offset = 0]
    BY DEF ReaderSwitchOffset
  <1>0. TypeOK /\ WriterInv /\ rpos \in Pos /\ WLog \in Pos
    BY WLogPos DEF IInv, TypeOK
  <1>2. rloc = Shifted(rpos) /\ ~Before(WLog, rloc)
    BY <1>1 DEF IInv, CursorInv, ReaderInv
  <1>3. rpos.serial < WLog.serial
    BY <1>0, <1>2 DEF Shifted, Before, Pos, Serials, Offsets
  <1>4. InFile(PosOf(rpos.serial, 0)) /\ data[rpos.serial][0] \in Ids
    BY <1>0, <1>3 DEF IInv, Layout, Starts, Pos
  <1>5. rpos' = PosOf(rpos.serial, 0)
    BY <1>0, <1>1 DEF PosOf, Pos
  <1>6. Before(rpos', WLog)
    BY <1>3, <1>5 DEF Before, PosOf
  <1>7. WLog' = WLog
    BY <1>1 DEF WLog
  <1>8. RP(rpos)'
    BY <1>1, <1>4, <1>5, <1>6, <1>7 DEF RP, Cell, InFile, PosOf
  <1>9. RP(rloc)'
    BY <1>1 DEF IInv, ReaderInv, RP, WLog, Cell, InFile, InsideRecord
  <1>10. ReaderInv'
    BY <1>1, <1>7, <1>8, <1>9 DEF IInv, ReaderInv
  <1>11. rpos' \in Pos
    BY <1>0, <1>1 DEF Pos, Offsets
  <1>12. TypeOK'
    BY <1>1, <1>11 DEF IInv, TypeOK, ReaderStates
  <1>13. QED
    BY <1>1, <1>10, <1>12

\* The second store of SwitchReaderPos makes ReaderPos the reader's own
\* position again.
LEMMA ReaderSwitchSerialInv ==
  ASSUME IInv, ReaderSwitchSerial
  PROVE  ReaderInv' /\ TypeOK'
  <1>1. /\ UNCHANGED <<data, made, wpos, wst, wloc, nextId, rloc, proc, snap, out, garbled>>
        /\ rst = "switch_serial" /\ rst' = "idle"
        /\ rpos' = [rpos EXCEPT !.serial = @ + 1]
    BY DEF ReaderSwitchSerial
  <1>0. TypeOK /\ rpos \in Pos /\ rloc \in Pos
    BY DEF IInv, TypeOK
  <1>2. rpos.offset = 0 /\ rloc = Shifted(rpos)
    BY <1>1 DEF IInv, CursorInv
  <1>3. rpos' = rloc
    BY <1>0, <1>1, <1>2 DEF Shifted, Pos
  <1>4. RP(rloc)' /\ RP(rpos)'
    BY <1>1, <1>3 DEF IInv, ReaderInv, RP, WLog, Cell, InFile, InsideRecord
  <1>5. ReaderInv'
    BY <1>1, <1>4 DEF IInv, ReaderInv, WLog
  <1>6. TypeOK'
    BY <1>0, <1>1, <1>3 DEF IInv, TypeOK, ReaderStates
  <1>7. QED
    BY <1>1, <1>5, <1>6

\* Open puts the reader at ReaderPos.
LEMMA ReaderOpenInv ==
  ASSUME IInv, ReaderOpen
  PROVE  ReaderInv' /\ TypeOK'
  <1>1. /\ UNCHANGED <<data, made, wpos, rpos, wst, wloc, nextId, snap, out, garbled>>
        /\ rst' = "idle" /\ rloc' = rpos /\ proc' = FALSE
    BY DEF ReaderOpen
  <1>2. RP(rloc)' /\ RP(rpos)'
    BY <1>1 DEF IInv, ReaderInv, RP, WLog, Cell, InFile, InsideRecord
  <1>3. ReaderInv'
    BY <1>1, <1>2 DEF IInv, ReaderInv, WLog
  <1>4. TypeOK'
    BY <1>1 DEF IInv, TypeOK, ReaderStates
  <1>5. QED
    BY <1>1, <1>3, <1>4

\* Read commits what the caller processed and loads WriterPos.serial: a
\* reader one length past the front of the writer's new file sees the
\* serial of that file.
LEMMA ReadStartInv ==
  ASSUME IInv, ReadStart
  PROVE  ReaderInv' /\ TypeOK'
  <1>1. /\ UNCHANGED <<data, made, wpos, wst, wloc, nextId, rloc, out, garbled>>
        /\ rst \in {"idle", "overflow"} /\ rst' = "trans_o"
        /\ rpos' = (IF proc THEN rloc ELSE rpos) /\ proc' = FALSE
        /\ snap' = [snap EXCEPT !.serial = wpos.serial]
    BY DEF ReadStart
  <1>0. TypeOK /\ WriterInv /\ rloc \in IPos /\ snap \in Pos /\ wpos \in Pos
        /\ WLog \in Pos
    BY WLogPos, PosIsIPos DEF IInv, TypeOK
  <1>2. snap'.serial = wpos.serial /\ wpos.serial \in Nat /\ snap' \in Pos
    BY <1>0, <1>1 DEF Pos, Serials
  <1>3. RP(rloc)' /\ RP(rpos)'
    BY <1>1 DEF IInv, ReaderInv, RP, WLog, Cell, InFile, InsideRecord
  <1>4. Before(WLog, rloc) => snap'.serial = rloc.serial
    <2> SUFFICES ASSUME Before(WLog, rloc) PROVE snap'.serial = rloc.serial
      OBVIOUS
    <2>1. RP(rloc)
      BY DEF IInv, ReaderInv
    <2>2. wst = "retry" /\ rloc = Front(WLog, LenBytes)
      BY <1>0, <2>1, AheadIsZeroRead
    <2>3. WLog = wpos
      BY <1>0, <2>2, RetryFits
    <2>4. QED
      BY <1>0, <1>2, <2>2, <2>3 DEF Front, Pos
  <1>5. WLog' = WLog
    BY <1>1 DEF WLog
  <1>6. ReaderInv'
    BY <1>1, <1>2, <1>3, <1>4, <1>5 DEF ReaderInv
  <1>7. rpos' \in Pos
    BY <1>1 DEF IInv, TypeOK
  <1>8. TypeOK'
    BY <1>1, <1>2, <1>7 DEF IInv, TypeOK, ReaderStates
  <1>9. QED
    BY <1>1, <1>6, <1>8

\* A reader that dies keeps its positions; nothing of the tests survives.
LEMMA ReaderCrashInv ==
  ASSUME IInv, ReaderCrash
  PROVE  ReaderInv' /\ TypeOK'
  <1>1. /\ UNCHANGED <<data, made, wpos, rpos, wst, wloc, nextId, rloc, snap, out, garbled>>
        /\ rst' = "down" /\ proc' = FALSE
    BY DEF ReaderCrash
  <1>2. RP(rloc)' /\ RP(rpos)'
    BY <1>1, RPKept DEF IInv, ReaderInv
  <1>3. ReaderInv'
    BY <1>1, <1>2 DEF IInv, ReaderInv, WLog
  <1>4. TypeOK'
    BY <1>1 DEF IInv, TypeOK, ReaderStates
  <1>5. QED
    BY <1>1, <1>3, <1>4

\* The loads and tests of Read keep the types and never reach the logic
\* error.
LEMMA TestsTypeOK ==
  ASSUME IInv,
         \/ TransientTest \/ EQLoad \/ EQTest \/ GTLoad \/ GTTest
         \/ GTRecheckLoad \/ GTRecheckTest
  PROVE  TypeOK'
  <1>1. /\ UNCHANGED <<data, made, wpos, rpos, wst, wloc, nextId, rloc, proc, out, garbled>>
        /\ \/ snap' = [snap EXCEPT !.serial = wpos.serial]
           \/ snap' = [snap EXCEPT !.offset = wpos.offset]
        /\ rst' \in {"idle", "eq_s", "eq_o", "gt_s", "gt_o", "gt2_s", "gt2_o",
                     "overflow", "output"}
    BY DEF TransientTest, EQLoad, EQTest, GTLoad, GTTest, GTRecheckLoad,
           GTRecheckTest, LoadSerial, LoadOffsetTest
  <1>2. snap' \in Pos
    BY <1>1 DEF IInv, TypeOK, Pos
  <1>3. QED
    BY <1>1, <1>2 DEF IInv, TypeOK, ReaderStates

-----------------------------------------------------------------------------
(* Steps of the writer.                                                    *)

\* A writer step that keeps WLog, does not give up the front of a new file
\* and keeps what the reader stands on keeps the reader's invariant.
LEMMA ReaderInvSameWLog ==
  ASSUME IInv, UNCHANGED <<rst, rpos, rloc, proc, snap, out>>,
         WLog' = WLog, wpos' \in Pos, wpos.serial <= wpos'.serial,
         wst' \in {"retry", "switch_serial"} <=> wst \in {"retry", "switch_serial"},
         wst = "retry" => wst' = "retry",
         RP(rloc)', RP(rpos)'
  PROVE  ReaderInv'
  <1>1. snap.serial <= wpos'.serial
    BY DEF IInv, ReaderInv, TypeOK, Pos, Serials
  <1>2. QED
    BY <1>1 DEF IInv, ReaderInv

\* A writer step that moves WLog forward keeps the reader's invariant: in
\* the tests of Read the reader was not past the old WLog, so it is not at
\* the new one.
LEMMA ReaderInvAdvance ==
  ASSUME IInv, UNCHANGED <<rst, rpos, rloc, proc, snap, out>>,
         WLog' \in IPos, Before(WLog, WLog'),
         wpos' \in Pos, wpos.serial <= wpos'.serial,
         RP(rloc)', RP(rpos)'
  PROVE  ReaderInv'
  <1>0. TypeOK /\ WriterInv /\ rloc \in IPos /\ WLog \in IPos
    BY WLogPos, PosIsIPos DEF IInv, TypeOK
  <1>1. ~Before(WLog', WLog)
    BY <1>0, BeforeOrder
  <1>2. ~Before(WLog, rloc) => ~Before(WLog', rloc) /\ rloc # WLog'
    BY <1>0, <1>1, BeforeOrder
  <1>3. Before(WLog', rloc) => Before(WLog, rloc)
    BY <1>0, <1>1, BeforeOrder
  <1>4. snap.serial <= wpos'.serial
    BY DEF IInv, ReaderInv, TypeOK, Pos, Serials
  <1>5. rst \notin {"down", "idle", "trans_o"} => ~Before(WLog, rloc)
    BY DEF IInv, ReaderInv
  <1>6. (rst \notin {"down", "idle", "trans_o"} => ~Before(WLog, rloc))'
    BY <1>2, <1>5
  <1>7. (rst = "trans_o" /\ Before(WLog, rloc) => snap.serial = rloc.serial)'
    BY <1>3 DEF IInv, ReaderInv
  <1>8. /\ (rst = "eq_o" /\ rloc = WLog /\ wst \notin {"retry", "switch_serial"}
             => snap.serial = rloc.serial)'
        /\ (rst \in {"gt_s", "gt_o", "gt2_s", "gt2_o"} /\ rloc = WLog
             => wst \in {"retry", "switch_serial"})'
        /\ (rst = "output" /\ rloc = WLog => wst = "retry")'
    BY <1>2, <1>5
  <1>9. QED
    BY <1>4, <1>6, <1>7, <1>8 DEF ReaderInv

\* With the files and WLog unchanged, only Flags can be disturbed.
LEMMA LayoutSameData ==
  ASSUME Layout, UNCHANGED data, WLog' = WLog, Flags'
  PROVE  Layout'
  BY DEF Layout, Starts, Records, Beyond, InFile, PosOf, RecEnd

\* With the files, WLog and the reader's positions unchanged, RP holds on,
\* unless the writer leaves the front of a new file.
LEMMA RPSameData ==
  ASSUME UNCHANGED <<data, rloc, rpos>>, WLog' = WLog,
         wst = "retry" => wst' = "retry", RP(rloc), RP(rpos)
  PROVE  RP(rloc)' /\ RP(rpos)'
  BY DEF RP, Cell, InFile, InsideRecord

\* Open resumes at WriterPos; no file had been written before.
LEMMA WriterOpenInv ==
  ASSUME IInv, WriterOpen
  PROVE  TypeOK' /\ WriterInv' /\ Layout' /\ ReaderInv'
  <1>1. /\ UNCHANGED <<data, wpos, rpos, nextId, rst, rloc, proc, snap, out, garbled>>
        /\ wst = "down" /\ wst' = "idle" /\ wloc' = wpos
        /\ made' = made \cup {wpos.serial}
    BY DEF WriterOpen, OpenForWriter
  <1>0. TypeOK /\ wpos \in Pos
    BY DEF IInv, TypeOK
  <1>2. WLog' = WLog
    BY <1>1 DEF WLog
  <1>3. TypeOK'
    BY <1>0, <1>1 DEF IInv, TypeOK, WriterStates, Pos
  <1>4. WriterInv'
    BY <1>1 DEF IInv, WriterInv, InFile, Cell
  <1>5. Flags'
    BY <1>1, <1>2 DEF IInv, Layout, Flags, PosOf
  <1>6. Layout'
    BY <1>1, <1>2, <1>5, LayoutSameData DEF IInv
  <1>7. RP(rloc)' /\ RP(rpos)'
    BY <1>1, <1>2, RPSameData DEF IInv, ReaderInv
  <1>8. ReaderInv'
    BY <1>0, <1>1, <1>2, <1>7, ReaderInvSameWLog DEF Pos, Serials
  <1>9. QED
    BY <1>1, <1>3, <1>4, <1>6, <1>8 DEF IInv

\* NEED_SWITCH creates the file after WriterPos, so the end flag at
\* WriterPos now has its next file.
LEMMA WriterOpenNextInv ==
  ASSUME IInv, WriterOpenNext
  PROVE  TypeOK' /\ WriterInv' /\ Layout' /\ ReaderInv'
  <1>1. /\ UNCHANGED <<data, wpos, rpos, nextId, rst, rloc, proc, snap, out, garbled>>
        /\ wst = "open_next" /\ wst' = "switch_off" /\ wpos.serial < MaxSerial
        /\ wloc' = Shifted(wpos) /\ made' = made \cup {wpos.serial + 1}
    BY DEF WriterOpenNext, OpenForWriter, Shifted
  <1>0. TypeOK /\ wpos \in Pos
    BY DEF IInv, TypeOK
  <1>2. WLog' = WLog
    BY <1>1 DEF WLog
  <1>3. wloc' \in Pos /\ wpos.serial + 1 \in Serials
    BY <1>0, <1>1 DEF Shifted, Pos, Serials, Offsets
  <1>4. TypeOK'
    BY <1>0, <1>1, <1>3 DEF IInv, TypeOK, WriterStates
  <1>5. WriterInv'
    BY <1>1 DEF IInv, WriterInv, InFile, Cell
  <1>6. Flags'
    BY <1>0, <1>1, <1>2 DEF IInv, Layout, Flags, PosOf, Pos
  <1>7. Layout'
    BY <1>1, <1>2, <1>6, LayoutSameData DEF IInv
  <1>8. RP(rloc)' /\ RP(rpos)'
    BY <1>1, <1>2, RPSameData DEF IInv, ReaderInv
  <1>9. ReaderInv'
    BY <1>0, <1>1, <1>2, <1>8, ReaderInvSameWLog DEF Pos, Serials
  <1>10. QED
    BY <1>1, <1>4, <1>5, <1>7, <1>9 DEF IInv

\* OpenForWriter fails: Write returns an error and the writer is idle at
\* its end flag.
LEMMA WriterOpenFailInv ==
  ASSUME IInv, WriterOpenFail
  PROVE  TypeOK' /\ WriterInv' /\ Layout' /\ ReaderInv'
  <1>1. /\ UNCHANGED <<data, made, wpos, wloc, nextId, rpos, rst, rloc, proc, snap, out, garbled>>
        /\ wst = "open_next" /\ wst' = "idle"
    BY DEF WriterOpenFail
  <1>0. TypeOK /\ wpos \in Pos
    BY DEF IInv, TypeOK
  <1>2. WLog' = WLog
    BY <1>1 DEF WLog
  <1>4. TypeOK'
    BY <1>1 DEF IInv, TypeOK, WriterStates
  <1>5. WriterInv'
    BY <1>1 DEF IInv, WriterInv, InFile, Cell
  <1>6. Flags'
    BY <1>1, <1>2 DEF IInv, Layout, Flags, PosOf
  <1>7. Layout'
    BY <1>1, <1>2, <1>6, LayoutSameData DEF IInv
  <1>8. RP(rloc)' /\ RP(rpos)'
    BY <1>1, <1>2, RPSameData DEF IInv, ReaderInv
  <1>9. ReaderInv'
    BY <1>0, <1>1, <1>2, <1>8, ReaderInvSameWLog DEF Pos, Serials
  <1>10. QED
    BY <1>1, <1>4, <1>5, <1>7, <1>9 DEF IInv

\* The second store of SwitchWriterPos publishes the front of the next
\* file, which WLog already was.
LEMMA WriterSwitchSerialInv ==
  ASSUME IInv, WriterSwitchSerial
  PROVE  TypeOK' /\ WriterInv' /\ Layout' /\ ReaderInv'
  <1>1. /\ UNCHANGED <<data, made, wloc, nextId, rpos, rst, rloc, proc, snap, out, garbled>>
        /\ wst = "switch_serial" /\ wst' = "retry"
        /\ wpos' = [wpos EXCEPT !.serial = @ + 1]
    BY DEF WriterSwitchSerial
  <1>0. TypeOK /\ wpos \in Pos /\ wloc \in Pos
    BY DEF IInv, TypeOK
  <1>2. wpos.offset = 0 /\ wloc = Shifted(wpos) /\ nextId \in Ids
    BY <1>1 DEF IInv, WriterInv
  <1>3. wpos' = wloc /\ wpos' \in Pos
    BY <1>0, <1>1, <1>2 DEF Shifted, Pos
  <1>4. WLog' = WLog
    BY <1>1, <1>3, <1>2 DEF WLog
  <1>5. TypeOK'
    BY <1>1, <1>3 DEF IInv, TypeOK, WriterStates
  <1>6. FileSize >= LenBytes + EndFlagBytes
    BY <1>2, RecLenNat DEF LenBytes, EndFlagBytes
  <1>14. wpos'.offset = 0 /\ wloc' = wpos' /\ nextId' \in Ids
    BY <1>1, <1>2, <1>3 DEF Shifted
  <1>15. wpos'.offset + EndFlagBytes <= FileSize
    BY <1>6, <1>14 DEF LenBytes, EndFlagBytes
  <1>7. WriterInv'
    BY <1>1, <1>14, <1>15 DEF WriterInv
  <1>8. Flags'
    BY <1>1, <1>4 DEF IInv, Layout, Flags, PosOf
  <1>9. Layout'
    BY <1>1, <1>4, <1>8, LayoutSameData DEF IInv
  <1>10. RP(rloc)' /\ RP(rpos)'
    BY <1>1, <1>4, RPSameData DEF IInv, ReaderInv
  <1>11. wpos.serial <= wpos'.serial
    BY <1>0, <1>1 DEF Pos, Serials
  <1>12. ReaderInv'
    BY <1>1, <1>3, <1>4, <1>10, <1>11, ReaderInvSameWLog
  <1>13. QED
    BY <1>1, <1>5, <1>7, <1>9, <1>12 DEF IInv

\* A store of the writer changes one byte of the files: the one at _pos.
LEMMA WriteAt ==
  ASSUME TypeOK, InFile(wloc), NEW v \in Cells,
         data' = [data EXCEPT ![wloc.serial][wloc.offset] = v]
  PROVE  /\ data' \in [Serials -> [0 .. FileSize - 1 -> Cells]]
         /\ data'[wloc.serial][wloc.offset] = v
         /\ \A s \in Serials, o \in 0 .. FileSize - 1 :
              s # wloc.serial \/ o # wloc.offset => data'[s][o] = data[s][o]
  BY DEF TypeOK, InFile

\* What RP asks of a position before WLog survives any change of the
\* files at or after WLog.
LEMMA BelowKept ==
  ASSUME TypeOK, WriterInv, NEW p \in IPos, Before(p, WLog), InFile(p),
         Cell(p) \in Ids \cup {EndFlag} \/ InsideRecord(data[p.serial], p.offset),
         \A s \in Serials, o \in 0 .. FileSize - 1 :
           Before(PosOf(s, o), WLog) => data'[s][o] = data[s][o]
  PROVE  data'[p.serial][p.offset] \in Ids \cup {EndFlag}
           \/ InsideRecord(data'[p.serial], p.offset)
  <1>0. WLog \in Pos
    BY WLogPos
  <1>1. data'[p.serial][p.offset] = data[p.serial][p.offset]
    BY <1>0, PosOfSelf DEF InFile
  <1>2. \A o2 \in 0 .. p.offset - 1 : data'[p.serial][o2] = data[p.serial][o2]
    BY <1>0 DEF InFile, Before, PosOf, Pos, IPos, Serials, Offsets
  <1>3. InsideRecord(data[p.serial], p.offset)
          => InsideRecord(data'[p.serial], p.offset)
    BY <1>2 DEF InsideRecord
  <1>4. QED
    BY <1>1, <1>3 DEF Cell

\* Where the writer stores at WLog: _pos is WriterPos, a byte of its file.
LEMMA StoreAtWLog ==
  ASSUME TypeOK, WriterInv, wst \in {"idle", "retry"}, nextId \in Ids,
         ~IsWriterEnd(wloc, RecLen[nextId]) \/ IsWriterEnd(wloc, RecLen[nextId])
  PROVE  /\ wloc = wpos /\ WLog = wpos /\ wpos \in Pos /\ wpos \in IPos
         /\ RecLen[nextId] \in Nat
         /\ FileSize >= LenBytes + RecLen[nextId] + EndFlagBytes
  <1>1. wloc = wpos /\ WLog = wpos /\ wpos \in Pos /\ wpos \in IPos
    BY PosIsIPos DEF WriterInv, WLog, TypeOK
  <1>2. RecLen[nextId] \in Nat
    BY RecLenNat
  <1>3. QED
    BY <1>1, <1>2 DEF LenBytes, EndFlagBytes

\* WriteEndFlag: the end flag goes at WriterPos, never at the front of a
\* file, and the writer goes on to NEED_SWITCH.
LEMMA WriteEndInv ==
  ASSUME IInv, WriteEnd
  PROVE  TypeOK' /\ WriterInv' /\ Layout' /\ ReaderInv'
  <1>1. /\ UNCHANGED <<made, wpos, rpos, wloc, nextId, rst, rloc, proc, snap, out, garbled>>
        /\ wst \in {"idle", "retry"} /\ nextId \in Ids
        /\ IsWriterEnd(wloc, RecLen[nextId])
        /\ data' = [data EXCEPT ![wloc.serial][wloc.offset] = EndFlag]
        /\ wst' = "open_next"
    BY DEF WriteEnd
  <1>0. TypeOK /\ WriterInv
    BY DEF IInv
  <1>2. wst = "idle"
    BY <1>0, <1>1, RetryFits
  <1>3. /\ wloc = wpos /\ WLog = wpos /\ wpos \in Pos /\ wpos \in IPos
        /\ RecLen[nextId] \in Nat
        /\ FileSize >= LenBytes + RecLen[nextId] + EndFlagBytes
    BY <1>0, <1>1, StoreAtWLog
  <1>4. WLog' = WLog
    BY <1>1, <1>3 DEF WLog
  <1>5. wpos.offset > 0 /\ InFile(wpos) /\ InFile(wloc)
    <2>1. wpos.offset + LenBytes + RecLen[nextId] + EndFlagBytes > FileSize
      BY <1>1, <1>3 DEF IsWriterEnd
    <2>2. wpos # Origin
      BY <1>3, <2>1 DEF Origin, LenBytes, EndFlagBytes
    <2>3. wpos.offset + EndFlagBytes <= FileSize
      BY <1>0, <2>2 DEF WriterInv
    <2>4. wpos.offset > 0
      BY <1>3, <2>1 DEF Pos, Offsets, LenBytes, EndFlagBytes
    <2>5. InFile(wpos)
      BY <1>3, <2>3 DEF InFile, Pos, Serials, Offsets, EndFlagBytes
    <2>6. QED
      BY <1>3, <2>4, <2>5
  <1>6. /\ data' \in [Serials -> [0 .. FileSize - 1 -> Cells]]
        /\ data'[wpos.serial][wpos.offset] = EndFlag
        /\ \A s \in Serials, o \in 0 .. FileSize - 1 :
             s # wpos.serial \/ o # wpos.offset => data'[s][o] = data[s][o]
    BY <1>0, <1>1, <1>3, <1>5, WriteAt DEF Cells
  <1>7. \A s \in Serials, o \in 0 .. FileSize - 1 :
          Before(PosOf(s, o), WLog) => data'[s][o] = data[s][o]
    <2> SUFFICES ASSUME NEW s \in Serials, NEW o \in 0 .. FileSize - 1,
                        Before(PosOf(s, o), WLog)
                 PROVE  data'[s][o] = data[s][o]
      OBVIOUS
    <2>1. s # wpos.serial \/ o # wpos.offset
      BY <1>3 DEF Before, PosOf, Pos, Serials, Offsets
    <2>2. QED
      BY <1>6, <2>1
  <1>8. TypeOK'
    BY <1>1, <1>6 DEF IInv, TypeOK, WriterStates
  <1>9. WriterInv'
    BY <1>0, <1>1, <1>2, <1>3, <1>5, <1>6 DEF WriterInv, InFile, Cell
  <1>10. Starts'
    <2> SUFFICES ASSUME NEW s \in Serials,
                        s < WLog.serial \/ (s = WLog.serial /\ WLog.offset > 0)
                 PROVE  InFile(PosOf(s, 0)) /\ data'[s][0] \in Ids
      BY <1>4 DEF Starts
    <2>1. InFile(PosOf(s, 0)) /\ data[s][0] \in Ids
      BY DEF IInv, Layout, Starts
    <2>2. 0 \in 0 .. FileSize - 1 /\ 0 # wpos.offset
      BY <1>5, <2>1 DEF InFile, PosOf
    <2>3. QED
      BY <1>6, <2>1, <2>2
  <1>11. Records'
    <2> SUFFICES ASSUME NEW s \in Serials, NEW o \in 0 .. FileSize - 1,
                        data'[s][o] \in Ids
                 PROVE  (/\ RecEnd(s, o) + EndFlagBytes <= FileSize
                         /\ PosOf(s, RecEnd(s, o)) = WLog
                            \/ data[s][RecEnd(s, o)] \in Ids \cup {EndFlag}
                         /\ ~Before(WLog, PosOf(s, RecEnd(s, o)))
                         /\ \A o2 \in o + 1 .. RecEnd(s, o) - 1 : data[s][o2] = Zero)'
      BY DEF Records
    <2>1. data'[s][o] = data[s][o] /\ data[s][o] \in Ids
      <3>1. EndFlag \notin Ids
        BY DEF EndFlag, Ids
      <3>2. s # wpos.serial \/ o # wpos.offset
        BY <1>6, <3>1
      <3>3. QED
        BY <1>6, <3>2
    <2>2. /\ RecEnd(s, o) + EndFlagBytes <= FileSize
          /\ PosOf(s, RecEnd(s, o)) = WLog \/ data[s][RecEnd(s, o)] \in Ids \cup {EndFlag}
          /\ ~Before(WLog, PosOf(s, RecEnd(s, o)))
          /\ \A o2 \in o + 1 .. RecEnd(s, o) - 1 : data[s][o2] = Zero
      BY <2>1 DEF IInv, Layout, Records
    <2>3. RecEnd(s, o)' = RecEnd(s, o) /\ RecEnd(s, o) \in 0 .. FileSize - 1
      BY <2>1, <2>2, EndInFile, RecLenNat DEF RecEnd
    <2>4. PosOf(s, RecEnd(s, o)) = WLog
            \/ data'[s][RecEnd(s, o)] \in Ids \cup {EndFlag}
      BY <1>3, <1>6, <2>2, <2>3 DEF PosOf
    <2>5. \A o2 \in o + 1 .. RecEnd(s, o) - 1 : data'[s][o2] = Zero
      <3> SUFFICES ASSUME NEW o2 \in o + 1 .. RecEnd(s, o) - 1
                   PROVE  data'[s][o2] = Zero
        OBVIOUS
      <3>1. s # wpos.serial \/ o2 < wpos.offset
        BY <1>3, <2>2, <2>3 DEF Before, PosOf, Pos, Serials, Offsets
      <3>2. o2 \in 0 .. FileSize - 1 /\ (s # wpos.serial \/ o2 # wpos.offset)
        BY <1>3, <2>3, <3>1 DEF Pos, Offsets
      <3>3. QED
        BY <1>6, <2>2, <3>2
    <2>6. QED
      BY <1>4, <2>2, <2>3, <2>4, <2>5
  <1>12. Beyond'
    <2> SUFFICES ASSUME NEW s \in Serials, NEW o \in 0 .. FileSize - 1
                 PROVE  (/\ ~Before(PosOf(s, o), WLog) => data[s][o] \in {Zero, EndFlag}
                         /\ Before(WLog, PosOf(s, o)) => data[s][o] = Zero)'
      BY DEF Beyond
    <2>1. /\ ~Before(PosOf(s, o), WLog) => data[s][o] \in {Zero, EndFlag}
          /\ Before(WLog, PosOf(s, o)) => data[s][o] = Zero
      BY DEF IInv, Layout, Beyond
    <2>2. CASE s = wpos.serial /\ o = wpos.offset
      <3>1. PosOf(s, o) = WLog
        BY <1>3, <2>2, PosOfSelf
      <3>2. ~Before(WLog, WLog)
        BY <1>3 DEF Before, Pos, Serials, Offsets
      <3>3. QED
        BY <1>4, <1>6, <2>2, <3>1, <3>2
    <2>3. CASE ~(s = wpos.serial /\ o = wpos.offset)
      BY <1>4, <1>6, <2>1, <2>3
    <2>4. QED
      BY <2>2, <2>3
  <1>13. Flags'
    <2> SUFFICES ASSUME NEW s \in Serials, NEW o \in 0 .. FileSize - 1,
                        data'[s][o] = EndFlag
                 PROVE  (/\ o # 0
                         /\ s + 1 \in made
                            \/ (PosOf(s, o) = wpos /\ wst \in {"idle", "open_next"})
                         /\ s < WLog.serial \/ PosOf(s, o) = WLog)'
      BY DEF Flags
    <2>1. CASE s = wpos.serial /\ o = wpos.offset
      BY <1>1, <1>3, <1>4, <1>5, <2>1, PosOfSelf
    <2>2. CASE ~(s = wpos.serial /\ o = wpos.offset)
      <3>1. data[s][o] = EndFlag /\ PosOf(s, o) # wpos
        BY <1>6, <2>2 DEF PosOf
      <3>2. QED
        BY <1>1, <1>3, <1>4, <3>1 DEF IInv, Layout, Flags
    <2>3. QED
      BY <2>1, <2>2
  <1>14. Layout'
    BY <1>10, <1>11, <1>12, <1>13 DEF Layout
  <1>15. RP(rloc)' /\ RP(rpos)'
    <2>1. RP(rloc) /\ RP(rpos) /\ rloc \in IPos /\ rpos \in IPos
      BY PosIsIPos DEF IInv, ReaderInv, TypeOK
    <2>2. wst # "retry"
      BY <1>2
    <2>3. RP(rloc) => RP(rloc)'
      BY <1>0, <1>1, <1>4, <1>7, <2>1, <2>2, BelowKept DEF RP, Cell, InFile
    <2>4. RP(rpos) => RP(rpos)'
      BY <1>0, <1>1, <1>4, <1>7, <2>1, <2>2, BelowKept DEF RP, Cell, InFile
    <2>5. QED
      BY <2>1, <2>3, <2>4
  <1>16. ReaderInv'
    BY <1>1, <1>2, <1>3, <1>4, <1>15, ReaderInvSameWLog DEF Pos, Serials
  <1>17. QED
    BY <1>1, <1>8, <1>9, <1>14, <1>16 DEF IInv

\* The first store of SwitchWriterPos: WLog moves from the end flag to the
\* front of the next file, which OpenForWriter has created.
LEMMA WriterSwitchOffsetInv ==
  ASSUME IInv, WriterSwitchOffset
  PROVE  TypeOK' /\ WriterInv' /\ Layout' /\ ReaderInv'
  <1>1. /\ UNCHANGED <<data, made, rpos, wloc, nextId, rst, rloc, proc, snap, out, garbled>>
        /\ wst = "switch_off" /\ wst' = "switch_serial"
        /\ wpos' = [wpos EXCEPT !.offset = 0]
    BY DEF WriterSwitchOffset
  <1>0. TypeOK /\ WriterInv /\ wpos \in Pos /\ wpos \in IPos
    BY PosIsIPos DEF IInv, TypeOK
  <1>2. /\ WLog = wpos /\ InFile(wpos) /\ Cell(wpos) = EndFlag
        /\ wloc = Shifted(wpos) /\ nextId \in Ids
    BY <1>1 DEF WriterInv, WLog, IInv
  <1>3. wpos.offset # 0
    <2>1. PosOf(wpos.serial, wpos.offset) = wpos
      BY <1>0, PosOfSelf
    <2>2. QED
      BY <1>2, <2>1 DEF IInv, Layout, Flags, InFile, Cell
  <1>4. WLog' = PosOf(wpos.serial + 1, 0) /\ WLog' \in IPos
    BY <1>0, <1>1 DEF WLog, Shifted, PosOf, Pos, IPos, Serials
  <1>5. Before(WLog, WLog') /\ ~Before(WLog', WLog) /\ WLog \in IPos
    BY <1>0, <1>2, <1>4 DEF Before, PosOf, Pos, Serials
  <1>6. wpos' \in Pos /\ wpos'.serial = wpos.serial
    BY <1>0, <1>1 DEF Pos, Offsets
  <1>7. FileSize >= LenBytes + EndFlagBytes
    BY <1>2, RecLenNat DEF LenBytes, EndFlagBytes
  <1>8. TypeOK'
    BY <1>1, <1>6 DEF IInv, TypeOK, WriterStates
  <1>9. WriterInv'
    BY <1>1, <1>2, <1>6, <1>7 DEF WriterInv, Shifted, LenBytes, EndFlagBytes
  <1>10. Starts'
    <2> SUFFICES ASSUME NEW s \in Serials, s < wpos.serial + 1
                 PROVE  InFile(PosOf(s, 0)) /\ data[s][0] \in Ids
      BY <1>1, <1>4 DEF Starts, PosOf
    <2>1. s < WLog.serial \/ (s = WLog.serial /\ WLog.offset > 0)
      BY <1>0, <1>2, <1>3 DEF Pos, Serials, Offsets
    <2>2. QED
      BY <2>1 DEF IInv, Layout, Starts
  <1>11. Records'
    <2> SUFFICES ASSUME NEW s \in Serials, NEW o \in 0 .. FileSize - 1,
                        data[s][o] \in Ids
                 PROVE  /\ PosOf(s, RecEnd(s, o)) = WLog'
                           \/ data[s][RecEnd(s, o)] \in Ids \cup {EndFlag}
                        /\ ~Before(WLog', PosOf(s, RecEnd(s, o)))
      BY <1>1 DEF IInv, Layout, Records, RecEnd
    <2>1. /\ PosOf(s, RecEnd(s, o)) = WLog
             \/ data[s][RecEnd(s, o)] \in Ids \cup {EndFlag}
          /\ ~Before(WLog, PosOf(s, RecEnd(s, o)))
      BY DEF IInv, Layout, Records
    <2>2. PosOf(s, RecEnd(s, o)) \in IPos
      BY RecLenNat DEF PosOf, RecEnd, IPos, Serials, LenBytes
    <2>3. PosOf(s, RecEnd(s, o)) = WLog => data[s][RecEnd(s, o)] = EndFlag
      BY <1>2 DEF Cell, PosOf
    <2>4. PosOf(s, RecEnd(s, o)) = WLog'
            \/ data[s][RecEnd(s, o)] \in Ids \cup {EndFlag}
      BY <2>1, <2>3
    <2>5. ~Before(WLog', PosOf(s, RecEnd(s, o)))
      BY <1>4, <1>5, <2>1, <2>2, BeforeOrder
    <2>6. QED
      BY <2>4, <2>5
  <1>12. Beyond'
    <2> SUFFICES ASSUME NEW s \in Serials, NEW o \in 0 .. FileSize - 1
                 PROVE  /\ ~Before(PosOf(s, o), WLog') => data[s][o] \in {Zero, EndFlag}
                        /\ Before(WLog', PosOf(s, o)) => data[s][o] = Zero
      BY <1>1 DEF Beyond
    <2>1. PosOf(s, o) \in IPos
      BY DEF PosOf, IPos, Serials
    <2>2. /\ ~Before(PosOf(s, o), WLog') => ~Before(PosOf(s, o), WLog)
          /\ Before(WLog', PosOf(s, o)) => Before(WLog, PosOf(s, o))
      BY <1>4, <1>5, <2>1, BeforeOrder
    <2>3. QED
      BY <2>2 DEF IInv, Layout, Beyond
  <1>13. Flags'
    <2> SUFFICES ASSUME NEW s \in Serials, NEW o \in 0 .. FileSize - 1,
                        data[s][o] = EndFlag
                 PROVE  /\ o # 0
                        /\ s + 1 \in made
                        /\ s < WLog'.serial
      BY <1>1 DEF Flags
    <2>1. /\ o # 0
          /\ s + 1 \in made \/ (PosOf(s, o) = wpos /\ wst \in {"idle", "open_next"})
          /\ s < WLog.serial \/ PosOf(s, o) = WLog
      BY DEF IInv, Layout, Flags
    <2>2. s <= wpos.serial
      BY <1>0, <1>2, <2>1 DEF PosOf, Pos, Serials
    <2>3. s + 1 \in made
      BY <1>1, <2>1
    <2>4. s < WLog'.serial
      BY <1>0, <1>4, <2>2 DEF PosOf, Serials, Pos
    <2>5. QED
      BY <2>1, <2>3, <2>4
  <1>14. Layout'
    BY <1>10, <1>11, <1>12, <1>13 DEF Layout
  <1>15. ASSUME NEW p \in IPos, RP(p)
         PROVE  Before(p, WLog') /\ InFile(p)
                /\ (Cell(p) \in Ids \cup {EndFlag} \/ InsideRecord(data[p.serial], p.offset))
    <2>1. CASE p = WLog
      BY <1>2, <1>5, <2>1 DEF Cell
    <2>2. CASE p # WLog
      <3>1. wst # "retry"
        BY <1>1
      <3>2. Before(p, WLog) /\ InFile(p)
            /\ (Cell(p) \in Ids \cup {EndFlag} \/ InsideRecord(data[p.serial], p.offset))
        BY <1>15, <2>2, <3>1 DEF RP
      <3>3. QED
        BY <1>4, <1>5, <3>2, BeforeOrder
    <2>3. QED
      BY <2>1, <2>2
  <1>16. RP(rloc)' /\ RP(rpos)'
    <2>1. RP(rloc) /\ RP(rpos) /\ rloc \in IPos /\ rpos \in IPos
      BY PosIsIPos DEF IInv, ReaderInv, TypeOK
    <2>2. QED
      BY <1>1, <1>15, <2>1 DEF RP, Cell, InFile, InsideRecord
  <1>17. ReaderInv'
    BY <1>1, <1>4, <1>5, <1>6, <1>16, ReaderInvAdvance DEF Pos, Serials
  <1>18. QED
    BY <1>1, <1>8, <1>9, <1>14, <1>17 DEF IInv

\* Write, Input fits: the record goes at WriterPos and WriterPos moves past
\* it, so WLog moves past a record that is followed by WLog.
LEMMA WriteRecordInv ==
  ASSUME IInv, WriteRecord
  PROVE  TypeOK' /\ WriterInv' /\ Layout' /\ ReaderInv'
  <1>1. /\ UNCHANGED <<made, rpos, rst, rloc, proc, snap, out, garbled>>
        /\ wst \in {"idle", "retry"} /\ nextId \in Ids
        /\ ~IsWriterEnd(wloc, RecLen[nextId])
        /\ data' = [data EXCEPT ![wloc.serial][wloc.offset] = nextId]
        /\ wloc' = Front(wloc, LenBytes + RecLen[nextId])
        /\ wpos' = wloc' /\ nextId' = nextId + 1 /\ wst' = "idle"
    BY DEF WriteRecord
  <1>0. TypeOK /\ WriterInv
    BY DEF IInv
  <1>2. /\ wloc = wpos /\ WLog = wpos /\ wpos \in Pos /\ wpos \in IPos
        /\ RecLen[nextId] \in Nat
        /\ FileSize >= LenBytes + RecLen[nextId] + EndFlagBytes
    BY <1>0, <1>1, StoreAtWLog
  <1>3. /\ (wpos.offset + LenBytes + RecLen[nextId]) + EndFlagBytes <= FileSize
        /\ InFile(wpos) /\ InFile(wloc)
        /\ (wpos.offset + LenBytes + RecLen[nextId]) \in 0 .. FileSize - 1
        /\ wpos.offset < wpos.offset + LenBytes + RecLen[nextId]
        /\ ~(wpos.offset + LenBytes + RecLen[nextId] < wpos.offset)
    <2>1. wpos.offset \in Int /\ 0 <= wpos.offset /\ FileSize \in Int
      BY <1>2 DEF Pos, Offsets
    <2>2. ~(wpos.offset + LenBytes + RecLen[nextId] + EndFlagBytes > FileSize)
      BY <1>1, <1>2 DEF IsWriterEnd
    <2>3. /\ (wpos.offset + LenBytes + RecLen[nextId]) + EndFlagBytes <= FileSize
          /\ wpos.offset \in 0 .. FileSize - 1
          /\ wpos.offset + LenBytes + RecLen[nextId] \in 0 .. FileSize - 1
          /\ wpos.offset < wpos.offset + LenBytes + RecLen[nextId]
          /\ ~(wpos.offset + LenBytes + RecLen[nextId] < wpos.offset)
      BY <1>2, <2>1, <2>2, FitsArith, Zenon
    <2>4. wpos.serial \in Serials
      BY <1>2 DEF Pos
    <2>5. QED
      BY <1>2, <2>3, <2>4 DEF InFile
  <1>4. /\ WLog' = PosOf(wpos.serial, (wpos.offset + LenBytes + RecLen[nextId])) /\ wpos' = WLog' /\ wloc' = WLog'
        /\ WLog' \in Pos /\ WLog' \in IPos
    <2>1. wloc' = PosOf(wpos.serial, (wpos.offset + LenBytes + RecLen[nextId]))
      BY <1>1, <1>2, FrontIsPosOf
    <2>2. QED
      BY <1>1, <1>2, <1>3, <2>1, PosIsIPos DEF WLog, PosOf, Pos, Offsets
  <1>5. Before(WLog, WLog') /\ ~Before(WLog', WLog) /\ WLog \in IPos
    <2>1. WLog'.serial = WLog.serial
          /\ WLog'.offset = wpos.offset + LenBytes + RecLen[nextId]
          /\ WLog = wpos
      BY <1>2, <1>4 DEF PosOf
    <2>2. WLog.serial \in Int
      BY <1>2 DEF Pos, Serials
    <2>3. QED
      BY <1>2, <1>3, <2>1, <2>2 DEF Before
  <1>6. /\ data' \in [Serials -> [0 .. FileSize - 1 -> Cells]]
        /\ data'[wpos.serial][wpos.offset] = nextId
        /\ \A s \in Serials, o \in 0 .. FileSize - 1 :
             s # wpos.serial \/ o # wpos.offset => data'[s][o] = data[s][o]
    BY <1>0, <1>1, <1>2, <1>3, WriteAt DEF Cells
  <1>7. \A s \in Serials, o \in 0 .. FileSize - 1 :
          Before(PosOf(s, o), WLog) => data'[s][o] = data[s][o]
    <2> SUFFICES ASSUME NEW s \in Serials, NEW o \in 0 .. FileSize - 1,
                        Before(PosOf(s, o), WLog)
                 PROVE  data'[s][o] = data[s][o]
      OBVIOUS
    <2>1. s # wpos.serial \/ o # wpos.offset
      BY <1>2 DEF Before, PosOf, Pos, Serials, Offsets
    <2>2. QED
      BY <1>6, <2>1
  <1>8. TypeOK'
    <2>1. nextId' \in 1 .. Len(RecLen) + 1
      BY <1>1 DEF Ids
    <2>2. QED
      BY <1>1, <1>4, <1>6, <2>1 DEF IInv, TypeOK, WriterStates
  <1>9. WriterInv'
    BY <1>1, <1>3, <1>4 DEF WriterInv, PosOf
  <1>10. Starts'
    <2>0. WLog'.serial = wpos.serial /\ wpos.serial \in Int
      BY <1>2, <1>4 DEF PosOf, Pos, Serials
    <2> SUFFICES ASSUME NEW s \in Serials, s <= wpos.serial
                 PROVE  InFile(PosOf(s, 0)) /\ data'[s][0] \in Ids
      BY <2>0 DEF Starts, Serials
    <2>1. InFile(PosOf(s, 0))
      BY <1>3 DEF InFile, PosOf
    <2>2. CASE s = wpos.serial /\ wpos.offset = 0
      BY <1>1, <1>6, <2>1, <2>2
    <2>3. CASE ~(s = wpos.serial /\ wpos.offset = 0)
      <3>1. s < WLog.serial \/ (s = WLog.serial /\ WLog.offset > 0)
        BY <1>2, <2>3 DEF Pos, Serials, Offsets
      <3>2. data[s][0] \in Ids
        BY <3>1 DEF IInv, Layout, Starts
      <3>3. data'[s][0] = data[s][0]
        BY <1>6, <2>1, <2>3 DEF InFile, PosOf
      <3>4. QED
        BY <2>1, <3>2, <3>3
    <2>4. QED
      BY <2>2, <2>3
  <1>11. Records'
    <2> SUFFICES ASSUME NEW s \in Serials, NEW o \in 0 .. FileSize - 1,
                        data'[s][o] \in Ids
                 PROVE  (/\ RecEnd(s, o) + EndFlagBytes <= FileSize
                         /\ PosOf(s, RecEnd(s, o)) = WLog
                            \/ data[s][RecEnd(s, o)] \in Ids \cup {EndFlag}
                         /\ ~Before(WLog, PosOf(s, RecEnd(s, o)))
                         /\ \A o2 \in o + 1 .. RecEnd(s, o) - 1 : data[s][o2] = Zero)'
      BY DEF Records
    <2>1. CASE s = wpos.serial /\ o = wpos.offset
      <3>1. RecEnd(s, o)' = (wpos.offset + LenBytes + RecLen[nextId])
        BY <1>6, <2>1 DEF RecEnd
      <3>2. PosOf(s, (wpos.offset + LenBytes + RecLen[nextId])) = WLog'
        BY <1>4, <2>1
      <3>3. ~Before(WLog', WLog')
        BY <1>4 DEF Before, Pos, Serials, Offsets
      <3>4. \A o2 \in o + 1 .. (wpos.offset + LenBytes + RecLen[nextId]) - 1 : data'[s][o2] = Zero
        <4> SUFFICES ASSUME NEW o2 \in o + 1 .. (wpos.offset + LenBytes + RecLen[nextId]) - 1
                     PROVE  data'[s][o2] = Zero
          OBVIOUS
        <4>1. o2 \in 0 .. FileSize - 1 /\ o2 # wpos.offset
          BY <1>2, <1>3, <2>1 DEF Pos, Offsets
        <4>2. Before(WLog, PosOf(s, o2))
          BY <1>2, <2>1, <4>1 DEF Before, PosOf, Pos, Offsets
        <4>3. data[s][o2] = Zero
          BY <4>1, <4>2 DEF IInv, Layout, Beyond
        <4>4. QED
          BY <1>6, <4>1, <4>3
      <3>5. QED
        BY <1>3, <2>1, <3>1, <3>2, <3>3, <3>4
    <2>2. CASE ~(s = wpos.serial /\ o = wpos.offset)
      <3>1. data'[s][o] = data[s][o] /\ data[s][o] \in Ids
        BY <1>6, <2>2
      <3>2. /\ RecEnd(s, o) + EndFlagBytes <= FileSize
            /\ PosOf(s, RecEnd(s, o)) = WLog
               \/ data[s][RecEnd(s, o)] \in Ids \cup {EndFlag}
            /\ ~Before(WLog, PosOf(s, RecEnd(s, o)))
            /\ \A o2 \in o + 1 .. RecEnd(s, o) - 1 : data[s][o2] = Zero
        BY <3>1 DEF IInv, Layout, Records
      <3>3. RecEnd(s, o)' = RecEnd(s, o) /\ RecEnd(s, o) \in 0 .. FileSize - 1
        BY <3>1, <3>2, EndInFile, RecLenNat DEF RecEnd
      <3>4. PosOf(s, RecEnd(s, o)) \in IPos
        BY <3>3 DEF PosOf, IPos, Serials
      <3>5. PosOf(s, RecEnd(s, o)) = WLog
              \/ data'[s][RecEnd(s, o)] \in Ids \cup {EndFlag}
        <4>1. CASE s = wpos.serial /\ RecEnd(s, o) = wpos.offset
          BY <1>1, <1>6, <4>1
        <4>2. CASE ~(s = wpos.serial /\ RecEnd(s, o) = wpos.offset)
          BY <1>2, <1>6, <3>2, <3>3, <4>2 DEF PosOf
        <4>3. QED
          BY <4>1, <4>2
      <3>6. PosOf(s, RecEnd(s, o)) = WLog
              => data'[s][RecEnd(s, o)] \in Ids \cup {EndFlag}
        BY <1>1, <1>2, <1>6 DEF PosOf
      <3>7. ~Before(WLog', PosOf(s, RecEnd(s, o)))
        BY <1>4, <1>5, <3>2, <3>4, BeforeOrder
      <3>8. \A o2 \in o + 1 .. RecEnd(s, o) - 1 : data'[s][o2] = Zero
        <4> SUFFICES ASSUME NEW o2 \in o + 1 .. RecEnd(s, o) - 1
                     PROVE  data'[s][o2] = Zero
          OBVIOUS
        <4>1. s # wpos.serial \/ o2 < wpos.offset
          BY <1>2, <3>2, <3>3 DEF Before, PosOf, Pos, Serials, Offsets
        <4>2. o2 \in 0 .. FileSize - 1 /\ (s # wpos.serial \/ o2 # wpos.offset)
          BY <1>2, <3>3, <4>1 DEF Pos, Offsets
        <4>3. QED
          BY <1>6, <3>2, <4>2
      <3>9. QED
        BY <1>4, <3>2, <3>3, <3>5, <3>6, <3>7, <3>8
    <2>3. QED
      BY <2>1, <2>2
  <1>12. Beyond'
    <2> SUFFICES ASSUME NEW s \in Serials, NEW o \in 0 .. FileSize - 1
                 PROVE  /\ ~Before(PosOf(s, o), WLog') => data'[s][o] \in {Zero, EndFlag}
                        /\ Before(WLog', PosOf(s, o)) => data'[s][o] = Zero
      BY DEF Beyond
    <2>1. PosOf(s, o) \in IPos
      BY DEF PosOf, IPos, Serials
    <2>2. /\ ~Before(PosOf(s, o), WLog') => ~Before(PosOf(s, o), WLog)
          /\ Before(WLog', PosOf(s, o)) => Before(WLog, PosOf(s, o))
      BY <1>4, <1>5, <2>1, BeforeOrder
    <2>3. ~Before(PosOf(s, o), WLog') => (s # wpos.serial \/ o # wpos.offset)
      BY <1>2, <1>5 DEF Before, PosOf, Pos
    <2>4. Before(WLog', PosOf(s, o)) => (s # wpos.serial \/ o # wpos.offset)
      BY <1>2, <1>5 DEF Before, PosOf, Pos
    <2>5. QED
      BY <1>6, <2>2, <2>3, <2>4 DEF IInv, Layout, Beyond
  <1>13. Flags'
    <2> SUFFICES ASSUME NEW s \in Serials, NEW o \in 0 .. FileSize - 1,
                        data'[s][o] = EndFlag
                 PROVE  /\ o # 0
                        /\ s + 1 \in made
                        /\ s < WLog'.serial
      BY <1>1 DEF Flags
    <2>1. ~(s = wpos.serial /\ o = wpos.offset)
      <3>1. EndFlag \notin Ids /\ nextId \in Ids
        BY <1>1 DEF Ids, EndFlag
      <3>2. QED
        BY <1>6, <3>1, Zenon
    <2>2. data[s][o] = EndFlag /\ PosOf(s, o) # wpos
      BY <1>6, <2>1 DEF PosOf
    <2>3. /\ o # 0
          /\ s + 1 \in made \/ (PosOf(s, o) = wpos /\ wst \in {"idle", "open_next"})
          /\ s < WLog.serial \/ PosOf(s, o) = WLog
      BY <2>2 DEF IInv, Layout, Flags
    <2>4. QED
      BY <1>1, <1>2, <1>4, <2>2, <2>3 DEF PosOf
  <1>14. Layout'
    BY <1>10, <1>11, <1>12, <1>13 DEF Layout
  <1>15. ASSUME NEW p \in IPos, RP(p)
         PROVE  \/ p = WLog'
                \/ /\ Before(p, WLog') /\ InFile(p)
                   /\ \/ data'[p.serial][p.offset] \in Ids \cup {EndFlag}
                      \/ InsideRecord(data'[p.serial], p.offset)
    <2>1. CASE p = WLog
      <3>1. data'[p.serial][p.offset] = nextId
        BY <1>2, <1>6, <2>1
      <3>2. QED
        BY <1>1, <1>2, <1>3, <1>5, <2>1, <3>1
    <2>2. CASE Before(p, WLog) /\ InFile(p)
               /\ (Cell(p) \in Ids \cup {EndFlag} \/ InsideRecord(data[p.serial], p.offset))
      BY <1>0, <1>4, <1>5, <1>7, <2>2, BelowKept, BeforeOrder
    <2>3. CASE wst = "retry" /\ p = Front(WLog, LenBytes)
      <3>1. wpos.offset = 0
        BY <1>0, <2>3, RetryFits
      <3>2. p = PosOf(wpos.serial, LenBytes)
        <4>1. p = PosOf(wpos.serial, wpos.offset + LenBytes)
          BY <1>2, <2>3, FrontLen
        <4>2. QED
          BY <3>1, <4>1 DEF LenBytes
      <3>3. CASE RecLen[nextId] = 0
        <4>1. wpos.offset + LenBytes + RecLen[nextId] = LenBytes
          BY <3>1, <3>3 DEF LenBytes
        <4>2. QED
          BY <1>4, <3>2, <4>1
      <3>4. CASE RecLen[nextId] # 0
        <4>1. Before(p, WLog') /\ InFile(p)
          BY <1>2, <1>3, <1>4, <3>1, <3>2, <3>4
          DEF Before, InFile, PosOf, Pos, LenBytes, EndFlagBytes
        <4>2. data'[wpos.serial][0] = nextId /\ 0 \in 0 .. p.offset - 1
          <5>1. data'[wpos.serial][0] = nextId
            BY <1>6, <3>1, Zenon
          <5>2. p.offset = LenBytes
            BY <3>2, Zenon DEF PosOf
          <5>3. QED
            BY <5>1, <5>2 DEF LenBytes
        <4>3. p.offset < 0 + LenBytes + RecLen[data'[p.serial][0]]
          BY <1>2, <3>2, <3>4, <4>2 DEF PosOf, LenBytes
        <4>4. InsideRecord(data'[p.serial], p.offset)
          BY <1>1, <3>2, <4>2, <4>3 DEF InsideRecord, PosOf
        <4>5. QED
          BY <4>1, <4>4
      <3>5. QED
        BY <3>3, <3>4
    <2>4. QED
      BY <1>15, <2>1, <2>2, <2>3 DEF RP
  <1>16. RP(rloc)' /\ RP(rpos)'
    <2>1. RP(rloc) /\ RP(rpos) /\ rloc \in IPos /\ rpos \in IPos
      BY PosIsIPos DEF IInv, ReaderInv, TypeOK
    <2>2. QED
      BY <1>1, <1>15, <2>1 DEF RP, Cell, InFile
  <1>17. ReaderInv'
    <2>1. wpos.serial <= wpos'.serial
      BY <1>2, <1>4 DEF PosOf, Pos, Serials
    <2>2. UNCHANGED <<rst, rpos, rloc, proc, snap, out>>
      BY <1>1
    <2>3. QED
      BY <1>4, <1>5, <1>16, <2>1, <2>2, ReaderInvAdvance
  <1>18. QED
    BY <1>1, <1>8, <1>9, <1>14, <1>17 DEF IInv

LEMMA IInvInit == Init => IInv
  <1> SUFFICES ASSUME Init PROVE IInv
    OBVIOUS
  <1>1. WLog = Origin
    BY DEF Init, WLog
  <1>2. \A s \in Serials, o \in 0 .. FileSize - 1 : data[s][o] = Zero
    BY DEF Init, EmptyFile
  <1>3. Zero \notin Ids \cup {EndFlag}
    BY DEF Zero, Ids, EndFlag
  <1>4. WriterInv
    BY DEF Init, WriterInv
  <1>5. Starts
    <2>1. WLog.serial = 0 /\ WLog.offset = 0
      BY <1>1 DEF Origin
    <2>2. QED
      BY <2>1 DEF Starts, Serials
  <1>6. Records /\ Beyond /\ Flags
    BY <1>2, <1>3 DEF Records, Beyond, Flags, Zero, EndFlag
  <1>7. ReaderInv
    BY <1>1 DEF Init, ReaderInv, RP, Origin
  <1>8. QED
    BY <1>4, <1>5, <1>6, <1>7, TypeOKInit, CursorInvInit DEF IInv, Layout

-----------------------------------------------------------------------------
(* The theorems.                                                           *)

\* Every step of a writer that does not die, and every step of the reader
\* but a garbage jump, keeps IInv.
LEMMA IInvStep == ~WriterCrashes => (IInv /\ [Next]_vars /\ ~garbled' => IInv')
  <1> SUFFICES ASSUME ~WriterCrashes, IInv, [Next]_vars, ~garbled' PROVE IInv'
    OBVIOUS
  <1>0. CursorInv'
    BY CursorInvStep DEF IInv
  <1>1. CASE WriterOpen
    BY <1>0, <1>1, WriterOpenInv DEF IInv
  <1>2. CASE WriteRecord
    BY <1>0, <1>2, WriteRecordInv DEF IInv
  <1>3. CASE WriteEnd
    BY <1>0, <1>3, WriteEndInv DEF IInv
  <1>4. CASE WriterOpenNext
    BY <1>0, <1>4, WriterOpenNextInv DEF IInv
  <1>5. CASE WriterOpenFail
    BY <1>0, <1>5, WriterOpenFailInv DEF IInv
  <1>6. CASE WriterSwitchOffset
    BY <1>0, <1>6, WriterSwitchOffsetInv DEF IInv
  <1>7. CASE WriterSwitchSerial
    BY <1>0, <1>7, WriterSwitchSerialInv DEF IInv
  <1>8. CASE WriterCrash
    BY <1>8 DEF WriterCrash
  <1>9. CASE ReaderStep \/ ReaderCrash
    <2>1. WriterInv' /\ Layout'
      BY <1>9, ReaderKeepsLayout DEF IInv
    <2>2. ReaderInv' /\ TypeOK'
      <3>1. CASE ReaderOpen
        BY <3>1, ReaderOpenInv
      <3>2. CASE ReadStart
        BY <3>2, ReadStartInv
      <3>3. CASE TransientTest
        BY <3>3, TransientTestInv, TestsTypeOK
      <3>4. CASE EQLoad \/ GTLoad \/ GTRecheckLoad
        BY <3>4, LoadSerialInv, TestsTypeOK
      <3>5. CASE EQTest
        BY <3>5, EQTestInv, TestsTypeOK
      <3>6. CASE GTTest \/ GTRecheckTest
        BY <3>6, GTTestsInv, TestsTypeOK
      <3>7. CASE OutputRecord
        BY <3>7, OutputRecordInv
      <3>8. CASE OutputZero
        BY <3>8, OutputZeroInv
      <3>9. CASE OutputGarbage
        BY <3>9, OutputGarbageInv
      <3>15. CASE OutputOverrun
        BY <3>15, OutputOverrunInv
      <3>10. CASE ReaderOpenNext
        BY <3>10, ReaderOpenNextInv
      <3>11. CASE ReaderSwitchOffset
        BY <3>11, ReaderSwitchOffsetInv
      <3>12. CASE ReaderSwitchSerial
        BY <3>12, ReaderSwitchSerialInv
      <3>13. CASE ReaderCrash
        BY <3>13, ReaderCrashInv
      <3>14. QED
        BY <1>9, <3>1, <3>2, <3>3, <3>4, <3>5, <3>6, <3>7, <3>8, <3>9, <3>10,
           <3>11, <3>12, <3>13, <3>15 DEF ReaderStep
    <2>3. QED
      BY <1>0, <2>1, <2>2 DEF IInv
  <1>10. CASE UNCHANGED vars
    <2>1. /\ data' = data /\ made' = made /\ wpos' = wpos /\ rpos' = rpos
          /\ wst' = wst /\ wloc' = wloc /\ nextId' = nextId /\ rst' = rst
          /\ rloc' = rloc /\ proc' = proc /\ snap' = snap /\ out' = out
          /\ garbled' = garbled
      BY <1>10 DEF vars
    <2>2. TypeOK'
      BY <2>1 DEF IInv, TypeOK
    <2>3. WriterInv'
      BY <2>1 DEF IInv, WriterInv, Cell, InFile
    <2>4. WLog' = WLog
      BY <2>1 DEF WLog
    <2>5. Layout'
      BY <2>1, <2>4 DEF IInv, Layout, Starts, Records, Beyond, Flags, Cell,
                        InFile, PosOf, RecEnd
    <2>6. ReaderInv'
      BY <2>1, <2>4 DEF IInv, ReaderInv, RP, Cell, InFile, InsideRecord
    <2>7. QED
      BY <1>0, <2>2, <2>3, <2>5, <2>6 DEF IInv
  <1>11. QED
    BY <1>1, <1>2, <1>3, <1>4, <1>5, <1>6, <1>7, <1>8, <1>9, <1>10
    DEF Next, WriterStep

\* garbled is history: once the reader has jumped by a garbage length, it
\* stays set.
LEMMA GarbledStays == garbled /\ [Next]_vars => garbled'
  BY DEF Next, WriterStep, ReaderStep, WriterOpen, WriteRecord, WriteEnd,
         WriterOpenNext, WriterOpenFail, WriterSwitchOffset, WriterSwitchSerial,
         WriterCrash, ReaderOpen, ReadStart, TransientTest, EQLoad, EQTest,
         GTLoad, GTTest, GTRecheckLoad, GTRecheckTest, LoadSerial,
         LoadOffsetTest, OutputRecord, OutputZero, OutputGarbage, OutputOverrun,
         ReaderOpenNext, ReaderSwitchOffset, ReaderSwitchSerial, ReaderCrash,
         vars

\* Until the reader jumps by a garbage length, IInv holds.
J == garbled \/ IInv

LEMMA JStep == ~WriterCrashes => (J /\ [Next]_vars => J')
  <1> SUFFICES ASSUME ~WriterCrashes, J, [Next]_vars PROVE J'
    OBVIOUS
  <1>1. CASE garbled'
    BY <1>1 DEF J
  <1>2. CASE ~garbled'
    <2>1. ~garbled
      BY <1>2, GarbledStays
    <2>2. IInv
      BY <2>1 DEF J
    <2>3. QED
      BY <1>2, <2>2, IInvStep DEF J
  <1>3. QED
    BY <1>1, <1>2

\* Where IInv holds, an end flag that Output meets has its next file.
LEMMA IInvNextFile == IInv => NextFileExists
  <1> SUFFICES ASSUME IInv, rst = "output", Here = EndFlag
               PROVE  OpenForReader(Shifted(rpos))
    BY DEF NextFileExists
  <1>1. rloc = rpos /\ rloc.serial + 1 \in made
    BY EndFlagAhead
  <1>2. QED
    BY <1>1 DEF OpenForReader, Shifted

\* With a writer process that does not die, for every file size, every
\* sequence of record lengths, every bound on serials and whether or not
\* the reader dies: whenever Output meets an end flag (and the reader has
\* not jumped by a garbage length), Write has already created the next
\* file, so the NEED_SWITCH branch of Read never fails with
\* ERR_ASYNC_READER_LOGIC for a missing file.
THEOREM NextFileExistsHolds == ~WriterCrashes => (Spec => []NextFileExists)
  <1> SUFFICES ASSUME ~WriterCrashes PROVE Spec => []NextFileExists
    OBVIOUS
  <1>1. Init => J
    BY IInvInit DEF J
  <1>2. J /\ [Next]_vars => J'
    BY JStep
  <1>3. J => NextFileExists
    BY IInvNextFile DEF J, NextFileExists
  <1>4. QED
    BY <1>1, <1>2, <1>3, PTL DEF Spec
=============================================================================

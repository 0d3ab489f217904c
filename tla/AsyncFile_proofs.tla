--------------------------- MODULE AsyncFile_proofs ---------------------------
(***************************************************************************)
(* Proofs about the async file pair (AsyncFile), for every file size,     *)
(* every sequence of record lengths and every bound on serials.           *)
(*                                                                         *)
(* InFlightUncommitted is not inductive by itself: a step of Output sets  *)
(* _processing and moves the reader's position, and the proof needs to   *)
(* know that ReaderPos was equal to that position just before.  CursorInv *)
(* states how ReaderPos (rpos) and the reader's CAsyncFileImpl::_pos      *)
(* (rloc) are related at every control point of CAsyncFileReader.        *)
(***************************************************************************)
EXTENDS AsyncFile, TLAPS

\* Positions with integer fields; the bounds of Pos are not needed here.
IPos == [serial : Int, offset : Int]

\* The relation between the committed ReaderPos and the reader's own
\* position, at each control point of Read.
CursorInv ==
  /\ rpos \in IPos
  /\ rloc \in IPos
  \* _processing is set only between an Output and the next Read's Commit
  /\ proc => rst = "idle"
  /\ proc => Before(rpos, rloc)
  \* with nothing to commit, the reader stands where ReaderPos says
  /\ (rst \notin {"down", "switch_off", "switch_serial"} /\ ~proc) => rloc = rpos
  \* inside SwitchReaderPos, the reader already stands at the next file
  /\ rst = "switch_off" => rloc = Shifted(rpos)
  /\ rst = "switch_serial" => rpos.offset = 0 /\ rloc = Shifted(rpos)

\* A position of integers whose fields are in range is a position of the
\* files (stated before the assumption on the constants is put in use).
LEMMA InPos ==
  ASSUME NEW r \in IPos, r.serial \in Serials, r.offset \in Offsets
  PROVE  r \in Pos
  BY DEF IPos, Pos

\* The two stores of Shift, one field at a time.
LEMMA SetField ==
  ASSUME NEW p \in IPos, NEW v \in Int
  PROVE  /\ [p EXCEPT !.offset = v] \in IPos
         /\ [p EXCEPT !.offset = v].serial = p.serial
         /\ [p EXCEPT !.offset = v].offset = v
         /\ [p EXCEPT !.serial = v] \in IPos
         /\ [p EXCEPT !.serial = v].serial = v
         /\ [p EXCEPT !.serial = v].offset = p.offset
  BY DEF IPos

\* A record that leaves room for an end flag leaves it after its end.
LEMMA RoomAfterRecord ==
  ASSUME NEW a \in Int, NEW r \in Int, NEW x, NEW fs \in Int,
         x = a + (LenBytes + r), a + LenBytes + r + EndFlagBytes <= fs
  PROVE  x + EndFlagBytes <= fs
  BY DEF LenBytes, EndFlagBytes

\* Copying one field of a file position into another keeps a position.
LEMMA PosFieldSet ==
  ASSUME NEW p \in Pos, NEW q \in Pos
  PROVE  /\ [p EXCEPT !.serial = q.serial] \in Pos
         /\ [p EXCEPT !.offset = q.offset] \in Pos
  BY DEF Pos

\* The end of a record that leaves room for an end flag is an offset of
\* the file.
LEMMA RecordEndIn ==
  ASSUME NEW a \in Nat, NEW r \in Nat, NEW x, NEW fs \in Int,
         x = a + (LenBytes + r), a + LenBytes + r + EndFlagBytes <= fs
  PROVE  x \in 0 .. fs
  BY DEF LenBytes, EndFlagBytes

\* A record that passes IsWriterEnd starts and ends inside the file.
LEMMA FitsArith ==
  ASSUME NEW o \in Int, NEW r \in Nat, NEW fs \in Int, 0 <= o,
         ~(o + LenBytes + r + EndFlagBytes > fs)
  PROVE  /\ (o + LenBytes + r) + EndFlagBytes <= fs
         /\ o \in 0 .. fs - 1
         /\ o + LenBytes + r \in 0 .. fs - 1
         /\ o < o + LenBytes + r
         /\ ~(o + LenBytes + r < o)
  BY DEF LenBytes, EndFlagBytes

\* A record moves a position strictly forward.
LEMMA RecordAdvances ==
  ASSUME NEW a \in Int, NEW r \in Nat
  PROVE  a < a + (LenBytes + r)
  BY DEF LenBytes

USE ConstAssumption

\* Payload lengths are natural numbers.
LEMMA RecLenNat == \A k \in Ids : RecLen[k] \in Nat
  BY DEF Ids

\* The reader's variables are left alone by every writer step.
LEMMA WriterStepKeepsReader ==
  ASSUME [WriterStep \/ WriterCrash]_vars
  PROVE  UNCHANGED <<rst, rpos, rloc, proc>>
  BY DEF WriterStep, WriterCrash, WriterOpen, OpenForWriter, WriteRecord,
         WriteEnd, WriterOpenNext, WriterOpenFail, WriterSwitchOffset,
         WriterSwitchSerial, vars

\* Front moves a position forward within its file.
LEMMA FrontMoves ==
  ASSUME NEW p \in IPos, NEW v \in Int
  PROVE  /\ Front(p, v) \in IPos
         /\ Front(p, v).serial = p.serial
         /\ Front(p, v).offset = p.offset + v
  BY DEF Front, IPos

LEMMA CursorInvInit == Init => CursorInv
  BY DEF Init, CursorInv, Origin, IPos

\* The control-point reading steps move rst only among states that are
\* neither "down" nor a switch state, and touch no cursor.
LEMMA LoadStepsKeep ==
  ASSUME CursorInv,
         \/ TransientTest \/ EQLoad \/ EQTest \/ GTLoad \/ GTTest
         \/ GTRecheckLoad \/ GTRecheckTest
  PROVE  CursorInv'
  <1>1. /\ rst \notin {"down", "switch_off", "switch_serial"}
        /\ rst' \notin {"down", "switch_off", "switch_serial"}
        /\ UNCHANGED <<rpos, rloc, proc>>
    BY DEF TransientTest, EQLoad, EQTest, GTLoad, GTTest, GTRecheckLoad,
           GTRecheckTest, LoadSerial, LoadOffsetTest
  <1>2. ~proc
    BY <1>1 DEF TransientTest, EQLoad, EQTest, GTLoad, GTTest,
                GTRecheckLoad, GTRecheckTest, LoadSerial, LoadOffsetTest,
                CursorInv
  <1>3. QED
    BY <1>1, <1>2 DEF CursorInv

LEMMA CursorInvStep == CursorInv /\ [Next]_vars => CursorInv'
  <1> SUFFICES ASSUME CursorInv, [Next]_vars PROVE CursorInv'
    OBVIOUS
  <1>1. CASE [WriterStep \/ WriterCrash]_vars
    BY <1>1, WriterStepKeepsReader DEF CursorInv
  <1>2. CASE ReaderOpen
    BY <1>2 DEF ReaderOpen, CursorInv
  <1>3. CASE ReadStart
    BY <1>3 DEF ReadStart, CursorInv
  <1>4. CASE \/ TransientTest \/ EQLoad \/ EQTest \/ GTLoad \/ GTTest
             \/ GTRecheckLoad \/ GTRecheckTest
    BY <1>4, LoadStepsKeep
  <1>5. CASE OutputRecord
    <2>1. Here \in Ids /\ RecLen[Here] \in Nat
      BY <1>5, RecLenNat DEF OutputRecord
    <2>2. rloc = rpos
      BY <1>5 DEF OutputRecord, CursorInv
    <2>3. rpos' = rpos /\ proc' /\ rst' = "idle"
      BY <1>5 DEF OutputRecord
    <2>4. rloc' = Front(rloc, LenBytes + RecLen[Here])
      BY <1>5 DEF OutputRecord
    <2>7. LenBytes + RecLen[Here] \in Int /\ rloc \in IPos
      BY <2>1 DEF LenBytes, CursorInv
    <2>8. /\ rloc' \in IPos
          /\ rloc'.serial = rpos.serial
          /\ rloc'.offset = rpos.offset + (LenBytes + RecLen[Here])
      BY <2>2, <2>4, <2>7, FrontMoves
    <2>5. Before(rpos', rloc')
      <3>1. rpos.offset \in Int
        BY DEF CursorInv, IPos
      <3>2. rpos.offset < rloc'.offset
        BY <2>1, <2>8, <3>1, RecordAdvances, Zenon
      <3>3. QED
        BY <2>3, <2>8, <3>2, Zenon DEF Before
    <2>6. QED
      BY <2>3, <2>5, <2>8 DEF CursorInv

  <1>6. CASE OutputZero
    <2>1. rloc = rpos
      BY <1>6 DEF OutputZero, CursorInv
    <2>2. QED
      BY <1>6, <2>1 DEF OutputZero, CursorInv, Front, Before, IPos, LenBytes
  <1>7. CASE OutputGarbage
    <2>1. rloc = rpos /\ rloc \in IPos
      BY <1>7 DEF OutputGarbage, CursorInv
    <2>2. UNCHANGED rpos
      BY <1>7 DEF OutputGarbage
    <2>3. CASE \E len \in 0 .. FileSize - rloc.offset - LenBytes :
                 /\ rloc' = Front(rloc, LenBytes + len)
                 /\ proc' = TRUE
                 /\ rst' = "idle"
      \* a garbage length moves the reader on by at least the length prefix
      <3>1. PICK len \in 0 .. FileSize - rloc.offset - LenBytes :
                   /\ rloc' = Front(rloc, LenBytes + len)
                   /\ proc' = TRUE
                   /\ rst' = "idle"
        BY <2>3
      <3>2. /\ rloc' \in IPos
            /\ rloc'.serial = rloc.serial
            /\ rloc'.offset = rloc.offset + (LenBytes + len)
        <4>1. LenBytes + len \in Int
          BY <2>1 DEF IPos, LenBytes
        <4>2. QED
          BY <2>1, <3>1, <4>1, FrontMoves
      <3>3. QED
        BY <2>1, <2>2, <3>1, <3>2 DEF CursorInv, Before, IPos, LenBytes
    <2>4. CASE rst' = "fault" /\ proc' = FALSE /\ UNCHANGED rloc
      BY <2>1, <2>2, <2>4 DEF CursorInv
    <2>5. QED
      BY <1>7, <2>3, <2>4 DEF OutputGarbage
  <1>13. CASE OutputOverrun
    BY <1>13 DEF OutputOverrun, CursorInv
  <1>8. CASE ReaderOpenNext
    <2>1. rloc = rpos /\ ~proc
      BY <1>8 DEF ReaderOpenNext, CursorInv
    <2>2. QED
      BY <1>8, <2>1 DEF ReaderOpenNext, CursorInv, Shifted, IPos
  <1>9. CASE ReaderSwitchOffset
    BY <1>9 DEF ReaderSwitchOffset, CursorInv, Shifted, IPos
  <1>10. CASE ReaderSwitchSerial
    BY <1>10 DEF ReaderSwitchSerial, CursorInv, Shifted, IPos
  <1>11. CASE ReaderCrash
    BY <1>11 DEF ReaderCrash, CursorInv
  <1>12. QED
    BY <1>1, <1>2, <1>3, <1>4, <1>5, <1>6, <1>7, <1>8, <1>9, <1>10, <1>11,
       <1>13
    DEF Next, ReaderStep

LEMMA TypeOKInit == Init => TypeOK
  <1> SUFFICES ASSUME Init PROVE TypeOK
    OBVIOUS
  <1>1. Origin \in Pos
    BY DEF Origin, Pos, Serials, Offsets
  <1>2. data \in [Serials -> [0 .. FileSize - 1 -> Cells]]
    BY DEF Init, EmptyFile, Cells, Zero
  <1>3. Len(RecLen) \in Nat
    OBVIOUS
  <1>4. nextId \in 1 .. Len(RecLen) + 1
    BY <1>3 DEF Init
  <1>5. wst \in WriterStates /\ rst \in ReaderStates /\ out \in Outputs
    BY DEF Init, WriterStates, ReaderStates, Outputs, None
  <1>6. proc \in BOOLEAN /\ made \subseteq Serials /\ garbled \in BOOLEAN
    BY DEF Init
  <1>7. QED
    BY <1>1, <1>2, <1>4, <1>5, <1>6 DEF Init, TypeOK

-----------------------------------------------------------------------------
(* Types, with crashes of either process.                                  *)

\* A record stored in a file fits with room for an end flag: Write checks
\* IsWriterEnd before Input.
RecordsFit ==
  \A s \in Serials, o \in 0 .. FileSize - 1 :
    data[s][o] \in Ids => o + LenBytes + RecLen[data[s][o]] + EndFlagBytes <= FileSize

\* The writer's positions leave room for an end flag, or are at the front
\* of a file.
WriterRoom ==
  /\ wloc.offset + EndFlagBytes <= FileSize \/ wloc.offset = 0
  /\ wpos.offset + EndFlagBytes <= FileSize \/ wpos.offset = 0

\* SwitchWriterPos runs only once OpenForWriter has taken the next serial.
SwitchBound == wst \in {"switch_off", "switch_serial"} => wpos.serial < MaxSerial

TypeInv == TypeOK /\ CursorInv /\ RecordsFit /\ WriterRoom /\ SwitchBound

LEMMA TypeInvInit == Init => TypeInv
  BY TypeOKInit, CursorInvInit
  DEF Init, TypeInv, RecordsFit, WriterRoom, SwitchBound, EmptyFile, Zero, Ids,
      Origin

\* Input stores a record that fits, at an offset of the file, and moves
\* the writer to its end, which leaves room for an end flag.
LEMMA WriteRecordType ==
  ASSUME TypeInv, WriteRecord
  PROVE  TypeOK' /\ RecordsFit' /\ WriterRoom' /\ SwitchBound'
  <1>1. /\ nextId \in Ids /\ RecLen[nextId] \in Nat
        /\ wloc.offset + LenBytes + RecLen[nextId] + EndFlagBytes <= FileSize
    <2>1. nextId \in Ids /\ RecLen[nextId] \in Nat
      BY RecLenNat DEF WriteRecord
    <2>2. wloc.offset \in Int
      BY DEF TypeInv, TypeOK, Pos, Offsets
    <2>3. ~IsWriterEnd(wloc, RecLen[nextId])
      BY DEF WriteRecord
    <2>5. 0 <= wloc.offset /\ FileSize \in Int
      BY DEF TypeInv, TypeOK, Pos, Offsets
    <2>4. QED
      BY <2>1, <2>2, <2>3, <2>5, FitsArith, Zenon DEF IsWriterEnd
  <1>2. wloc \in Pos /\ wloc \in IPos /\ wloc.offset \in 0 .. FileSize - 1
    <2>1. wloc \in Pos
      BY DEF TypeInv, TypeOK
    <2>2. wloc \in IPos /\ wloc.offset \in Offsets
      BY <2>1 DEF Pos, IPos, Serials, Offsets
    <2>3. wloc.offset \in 0 .. FileSize - 1
      BY <1>1, <2>2 DEF Offsets, LenBytes, EndFlagBytes
    <2>4. QED
      BY <2>1, <2>2, <2>3
  <1>3. /\ wloc' \in IPos
        /\ wloc'.serial = wloc.serial
        /\ wloc'.offset = wloc.offset + (LenBytes + RecLen[nextId])
    <2>1. LenBytes + RecLen[nextId] \in Int
      BY <1>1 DEF LenBytes
    <2>2. QED
      BY <1>2, <2>1, FrontMoves DEF WriteRecord
  <1>9. wloc' \in Pos /\ wloc'.offset + EndFlagBytes <= FileSize
    <2>1. wloc'.serial \in Serials /\ wloc'.offset \in Offsets
      <3>1. wloc'.serial \in Serials
        BY <1>2, <1>3 DEF Pos
      <3>2. wloc'.offset \in Offsets
        <4>1. wloc.offset \in Nat /\ FileSize \in Int
          BY <1>2
        <4>2. QED
          BY <1>1, <1>3, <4>1, RecordEndIn, Zenon DEF Offsets
      <3>3. QED
        BY <3>1, <3>2
    <2>2. wloc' \in Pos
      BY <1>3, <2>1, InPos
    <2>3. wloc'.offset + EndFlagBytes <= FileSize
      <3>1. wloc.offset \in Int /\ RecLen[nextId] \in Int /\ FileSize \in Int
        BY <1>1, <1>2
      <3>2. QED
        BY <1>1, <1>3, <3>1, RoomAfterRecord, Zenon
    <2>4. QED
      BY <2>2, <2>3
  <1>4. data' = [data EXCEPT ![wloc.serial][wloc.offset] = nextId]
    BY DEF WriteRecord
  <1>5. data' \in [Serials -> [0 .. FileSize - 1 -> Cells]]
    BY <1>1, <1>2, <1>4 DEF TypeInv, TypeOK, Cells, Pos
  <1>6. RecordsFit'
    <2> SUFFICES ASSUME NEW s \in Serials, NEW o \in 0 .. FileSize - 1,
                        data'[s][o] \in Ids
                 PROVE  o + LenBytes + RecLen[data'[s][o]] + EndFlagBytes <= FileSize
      BY DEF RecordsFit
    <2>1. CASE s = wloc.serial /\ o = wloc.offset
      BY <1>1, <1>2, <1>4, <2>1 DEF TypeInv, TypeOK
    <2>2. CASE ~(s = wloc.serial /\ o = wloc.offset)
      BY <1>2, <1>4, <2>2 DEF TypeInv, TypeOK, RecordsFit
    <2>3. QED
      BY <2>1, <2>2
  <1>7. nextId' \in 1 .. Len(RecLen) + 1
    BY <1>1 DEF WriteRecord, Ids
  <1>8. QED
    BY <1>9, <1>5, <1>6, <1>7
    DEF WriteRecord, TypeInv, TypeOK, WriterRoom, SwitchBound, WriterStates

\* WriteEndFlag stores no record.
LEMMA WriteEndType ==
  ASSUME TypeInv, WriteEnd
  PROVE  TypeOK' /\ RecordsFit' /\ WriterRoom' /\ SwitchBound'
  <1>1. data' = [data EXCEPT ![wloc.serial][wloc.offset] = EndFlag]
    BY DEF WriteEnd
  <1>2. data' \in [Serials -> [0 .. FileSize - 1 -> Cells]]
    BY <1>1 DEF TypeInv, TypeOK, Cells, EndFlag
  <1>3. EndFlag \notin Ids
    BY DEF EndFlag, Ids
  <1>4. RecordsFit'
    BY <1>1, <1>3 DEF TypeInv, TypeOK, RecordsFit
  <1>5. QED
    BY <1>2, <1>4 DEF WriteEnd, TypeInv, TypeOK, WriterRoom, SwitchBound,
                      WriterStates

\* The steps of the writer keep the types.
LEMMA WriterType ==
  ASSUME TypeInv, WriterStep \/ WriterCrash
  PROVE  TypeOK' /\ RecordsFit' /\ WriterRoom' /\ SwitchBound'
  <1>1. CASE WriteRecord
    BY <1>1, WriteRecordType
  <1>2. CASE WriteEnd
    BY <1>2, WriteEndType
  <1>3. CASE WriterOpen
    BY <1>3 DEF WriterOpen, OpenForWriter, TypeInv, TypeOK, RecordsFit,
                WriterRoom, SwitchBound, WriterStates, Pos
  <1>4. CASE WriterOpenNext
    <2>1. wpos \in Pos /\ wpos.serial < MaxSerial
      BY <1>4 DEF WriterOpenNext, TypeInv, TypeOK
    <2>2. wloc' = [serial |-> wpos.serial + 1, offset |-> 0]
          /\ wloc' \in Pos
      BY <1>4, <2>1 DEF WriterOpenNext, Shifted, Pos, Serials, Offsets
    <2>3. QED
      BY <1>4, <2>1, <2>2 DEF WriterOpenNext, OpenForWriter, TypeInv, TypeOK,
                              RecordsFit, WriterRoom, SwitchBound, WriterStates,
                              Pos
  <1>5. CASE WriterOpenFail
    BY <1>5 DEF WriterOpenFail, TypeInv, TypeOK, RecordsFit, WriterRoom,
                SwitchBound, WriterStates
  <1>6. CASE WriterSwitchOffset
    <2>1. wpos \in IPos /\ wpos.serial \in Serials
      BY DEF TypeInv, TypeOK, Pos, IPos, Serials, Offsets
    <2>5. wpos' = [wpos EXCEPT !.offset = 0]
      BY <1>6 DEF WriterSwitchOffset
    <2>6. 0 \in Int
      OBVIOUS
    <2>2. wpos' \in IPos /\ wpos'.serial = wpos.serial /\ wpos'.offset = 0
      BY <2>1, <2>5, <2>6, SetField, Zenon
    <2>3. wpos' \in Pos
      BY <2>1, <2>2, InPos DEF Offsets
    <2>4. QED
      BY <1>6, <2>2, <2>3 DEF WriterSwitchOffset, TypeInv, TypeOK, RecordsFit,
                              WriterRoom, SwitchBound, WriterStates
  <1>7. CASE WriterSwitchSerial
    <2>1. wpos \in Pos /\ wpos.serial < MaxSerial
      BY <1>7 DEF WriterSwitchSerial, TypeInv, TypeOK, SwitchBound
    <2>2. wpos' \in Pos /\ wpos'.offset = wpos.offset
      <3>1. wpos \in IPos /\ wpos.offset \in Offsets
        BY <2>1 DEF Pos, IPos, Serials, Offsets
      <3>5. wpos' = [wpos EXCEPT !.serial = wpos.serial + 1]
        BY <1>7 DEF WriterSwitchSerial
      <3>6. wpos.serial + 1 \in Int
        BY <3>1 DEF IPos
      <3>2. wpos' \in IPos /\ wpos'.serial = wpos.serial + 1
            /\ wpos'.offset = wpos.offset
        BY <3>1, <3>5, <3>6, SetField, Zenon
      <3>3. wpos'.serial \in Serials
        BY <2>1, <3>2 DEF Pos, Serials, Offsets
      <3>4. QED
        BY <3>1, <3>2, <3>3, InPos
    <2>3. QED
      BY <1>7, <2>2 DEF WriterSwitchSerial, TypeInv, TypeOK, RecordsFit,
                        WriterRoom, SwitchBound, WriterStates
  <1>8. CASE WriterCrash
    BY <1>8 DEF WriterCrash, TypeInv, TypeOK, RecordsFit, WriterRoom,
                SwitchBound, WriterStates
  <1>9. QED
    BY <1>1, <1>2, <1>3, <1>4, <1>5, <1>6, <1>7, <1>8 DEF WriterStep

\* The writer's variables are left alone by every reader step.
LEMMA ReaderKeepsWriter ==
  ASSUME ReaderStep \/ ReaderCrash
  PROVE  UNCHANGED <<data, made, wpos, wst, wloc, nextId>>
  BY DEF ReaderStep, ReaderCrash, ReaderOpen, OpenForReader, ReadStart,
         TransientTest, EQLoad, EQTest, GTLoad, GTTest, GTRecheckLoad,
         GTRecheckTest, LoadSerial, LoadOffsetTest, OutputRecord, OutputZero,
         OutputGarbage, OutputOverrun, ReaderOpenNext, ReaderSwitchOffset,
         ReaderSwitchSerial

\* The position the reader's Output stands at is an offset of the file
\* with room for a length.
LEMMA ReaderAt ==
  ASSUME TypeInv, InMap
  PROVE  /\ rloc \in Pos /\ rloc \in IPos
         /\ rloc.offset \in 0 .. FileSize - 1
         /\ rloc.offset + LenBytes <= FileSize
  <1>1. rloc \in Pos /\ rloc \in IPos /\ rloc.offset \in Offsets
    BY DEF TypeInv, TypeOK, Pos, IPos, Serials, Offsets
  <1>2. QED
    BY <1>1 DEF InMap, Offsets, LenBytes

\* Output moves the reader within the file it maps.
LEMMA OutputType ==
  ASSUME TypeInv, OutputRecord \/ OutputZero \/ OutputGarbage
  PROVE  rloc' \in Pos
  <1>1. InMap /\ rloc \in Pos /\ rloc \in IPos
        /\ rloc.offset \in 0 .. FileSize - 1
        /\ rloc.offset + LenBytes <= FileSize
    BY ReaderAt DEF OutputRecord, OutputZero, OutputGarbage
  <1>2. CASE OutputRecord
    <2>1. Here \in Ids /\ RecLen[Here] \in Nat
      BY <1>2, RecLenNat DEF OutputRecord
    <2>2. rloc.offset + LenBytes + RecLen[Here] + EndFlagBytes <= FileSize
      <3>1. rloc.serial \in Serials
        BY <1>1 DEF Pos
      <3>2. QED
        BY <1>1, <2>1, <3>1 DEF TypeInv, RecordsFit, Here
    <2>3. rloc' \in IPos /\ rloc'.serial = rloc.serial
          /\ rloc'.offset = rloc.offset + (LenBytes + RecLen[Here])
      <3>1. LenBytes + RecLen[Here] \in Int
        BY <2>1 DEF LenBytes
      <3>2. QED
        BY <1>1, <1>2, <3>1, FrontMoves DEF OutputRecord
    <2>4. rloc'.offset \in Offsets
      <3>1. rloc.offset \in Nat /\ FileSize \in Int
        BY <1>1
      <3>2. QED
        BY <2>1, <2>2, <2>3, <3>1, RecordEndIn, Zenon DEF Offsets
    <2>5. QED
      BY <1>1, <2>3, <2>4, InPos DEF Pos
  <1>3. CASE OutputZero
    <2>1. rloc' \in IPos /\ rloc'.serial = rloc.serial
          /\ rloc'.offset = rloc.offset + LenBytes
      <3>1. rloc' = Front(rloc, LenBytes)
        BY <1>3 DEF OutputZero
      <3>2. LenBytes \in Int
        BY DEF LenBytes
      <3>3. QED
        BY <1>1, <3>1, <3>2, FrontMoves
    <2>2. rloc'.offset \in Offsets
      BY <1>1, <2>1 DEF Offsets, LenBytes
    <2>3. QED
      BY <1>1, <2>1, <2>2, InPos DEF Pos
  <1>4. CASE OutputGarbage
    <2>1. CASE UNCHANGED rloc
      BY <1>1, <2>1
    <2>2. CASE \E len \in 0 .. FileSize - rloc.offset - LenBytes :
                 rloc' = Front(rloc, LenBytes + len)
      <3>1. PICK len \in 0 .. FileSize - rloc.offset - LenBytes :
                   rloc' = Front(rloc, LenBytes + len)
        BY <2>2
      <3>2. rloc' \in IPos /\ rloc'.serial = rloc.serial
            /\ rloc'.offset = rloc.offset + (LenBytes + len)
        <4>1. LenBytes + len \in Int
          BY DEF LenBytes
        <4>2. QED
          BY <1>1, <3>1, <4>1, FrontMoves
      <3>3. rloc'.offset \in Offsets
        BY <1>1, <3>2 DEF Offsets, LenBytes
      <3>4. QED
        BY <1>1, <3>2, <3>3, InPos DEF Pos
    <2>3. QED
      BY <1>4, <2>1, <2>2 DEF OutputGarbage
  <1>5. QED
    BY <1>2, <1>3, <1>4

\* The reader's own variables keep their types.
LEMMA ReaderFieldsType ==
  ASSUME TypeInv, ReaderStep \/ ReaderCrash
  PROVE  /\ rpos' \in Pos /\ rloc' \in Pos /\ snap' \in Pos
         /\ rst' \in ReaderStates /\ proc' \in BOOLEAN /\ out' \in Outputs
         /\ garbled' \in BOOLEAN
  <1>1. rpos \in Pos /\ rloc \in Pos /\ snap \in Pos /\ wpos \in Pos
    BY DEF TypeInv, TypeOK
  <1>2. CASE ReaderOpen
    BY <1>1, <1>2 DEF ReaderOpen, TypeInv, TypeOK, ReaderStates
  <1>3. CASE ReadStart
    <2>1. snap' \in Pos
      BY <1>1, <1>3, PosFieldSet DEF ReadStart
    <2>2. QED
      BY <1>1, <1>3, <2>1 DEF ReadStart, TypeInv, TypeOK, ReaderStates
  <1>4. CASE EQLoad \/ GTLoad \/ GTRecheckLoad
    <2>1. snap' = [snap EXCEPT !.serial = wpos.serial]
      BY <1>4 DEF EQLoad, GTLoad, GTRecheckLoad, LoadSerial
    <2>2. snap' \in Pos
      BY <1>1, <2>1, PosFieldSet
    <2>3. QED
      BY <1>4, <2>2 DEF EQLoad, GTLoad, GTRecheckLoad, LoadSerial,
                        TypeInv, TypeOK, ReaderStates
  <1>5. CASE TransientTest \/ EQTest \/ GTTest \/ GTRecheckTest
    <2>1. snap' = [snap EXCEPT !.offset = wpos.offset]
      BY <1>5 DEF TransientTest, EQTest, GTTest, GTRecheckTest, LoadOffsetTest
    <2>2. snap' \in Pos
      BY <1>1, <2>1, PosFieldSet
    <2>3. rst' \in ReaderStates
      BY <1>5 DEF TransientTest, EQTest, GTTest, GTRecheckTest, LoadOffsetTest,
                  ReaderStates
    <2>4. QED
      BY <1>5, <2>2, <2>3 DEF TransientTest, EQTest, GTTest, GTRecheckTest,
                              LoadOffsetTest, TypeInv, TypeOK
  <1>6. CASE OutputRecord \/ OutputZero \/ OutputGarbage
    <2>1. rloc' \in Pos
      BY <1>6, OutputType
    <2>2. Here \in Ids => Here \in Outputs
      BY DEF Outputs
    <2>3. QED
      BY <1>6, <2>1, <2>2 DEF OutputRecord, OutputZero, OutputGarbage,
                              TypeInv, TypeOK, ReaderStates, Outputs, Empty,
                              Garbage
  <1>7. CASE OutputOverrun \/ ReaderCrash
    BY <1>7 DEF OutputOverrun, ReaderCrash, TypeInv, TypeOK, ReaderStates
  <1>8. CASE ReaderOpenNext
    <2>1. rpos.serial < MaxSerial
      BY <1>8 DEF ReaderOpenNext
    <2>2. Shifted(rpos) \in Pos
      BY <1>1, <2>1 DEF Shifted, Pos, Serials, Offsets
    <2>3. QED
      BY <1>8, <2>2 DEF ReaderOpenNext, TypeInv, TypeOK, ReaderStates
  <1>9. CASE ReaderSwitchOffset
    <2>1. rpos \in IPos /\ rpos.serial \in Serials
      BY <1>1 DEF Pos, IPos, Serials, Offsets
    <2>2. rpos' = [rpos EXCEPT !.offset = 0]
      BY <1>9 DEF ReaderSwitchOffset
    <2>3. 0 \in Int
      OBVIOUS
    <2>4. rpos' \in IPos /\ rpos'.serial = rpos.serial /\ rpos'.offset = 0
      BY <2>1, <2>2, <2>3, SetField, Zenon
    <2>5. rpos' \in Pos
      BY <2>1, <2>4, InPos DEF Offsets
    <2>6. QED
      BY <1>9, <2>5 DEF ReaderSwitchOffset, TypeInv, TypeOK, ReaderStates
  <1>10. CASE ReaderSwitchSerial
    <2>1. rpos \in IPos /\ rpos.offset \in Offsets
      BY <1>1 DEF Pos, IPos, Serials, Offsets
    <2>2. rloc = Shifted(rpos)
      BY <1>10 DEF ReaderSwitchSerial, TypeInv, CursorInv
    <2>3. rpos.serial + 1 \in Serials
      <3>1. rloc.serial = rpos.serial + 1
        BY <2>2, Zenon DEF Shifted
      <3>2. QED
        BY <1>1, <3>1 DEF Pos
    <2>4. rpos' = [rpos EXCEPT !.serial = rpos.serial + 1]
      BY <1>10 DEF ReaderSwitchSerial
    <2>5. rpos.serial + 1 \in Int
      BY <2>1 DEF IPos
    <2>6. rpos' \in IPos /\ rpos'.serial = rpos.serial + 1
          /\ rpos'.offset = rpos.offset
      BY <2>1, <2>4, <2>5, SetField, Zenon
    <2>7. rpos' \in Pos
      BY <2>1, <2>3, <2>6, InPos
    <2>8. QED
      BY <1>10, <2>7 DEF ReaderSwitchSerial, TypeInv, TypeOK, ReaderStates
  <1>11. QED
    BY <1>2, <1>3, <1>4, <1>5, <1>6, <1>7, <1>8, <1>9, <1>10
    DEF ReaderStep

\* The steps of the reader keep the types.
LEMMA ReaderType ==
  ASSUME TypeInv, ReaderStep \/ ReaderCrash
  PROVE  TypeOK' /\ RecordsFit' /\ WriterRoom' /\ SwitchBound'
  <1>1. UNCHANGED <<data, made, wpos, wst, wloc, nextId>>
    BY ReaderKeepsWriter
  <1>2. RecordsFit' /\ WriterRoom' /\ SwitchBound'
    BY <1>1 DEF TypeInv, RecordsFit, WriterRoom, SwitchBound
  <1>3. QED
    BY <1>1, <1>2, ReaderFieldsType DEF TypeInv, TypeOK

LEMMA TypeInvStep == TypeInv /\ [Next]_vars => TypeInv'
  <1> SUFFICES ASSUME TypeInv, [Next]_vars PROVE TypeInv'
    OBVIOUS
  <1>1. CursorInv'
    BY CursorInvStep DEF TypeInv
  <1>2. CASE WriterStep \/ WriterCrash
    BY <1>1, <1>2, WriterType DEF TypeInv
  <1>3. CASE ReaderStep \/ ReaderCrash
    BY <1>1, <1>3, ReaderType DEF TypeInv
  <1>4. CASE UNCHANGED vars
    BY <1>1, <1>4 DEF TypeInv, TypeOK, RecordsFit, WriterRoom, SwitchBound,
                      vars
  <1>5. QED
    BY <1>2, <1>3, <1>4 DEF Next

\* Both processes keep their positions, ReaderPos, WriterPos and the
\* reader's loaded copy of WriterPos inside the file series and the
\* files, for every file size, every list of record lengths and either
\* crash setting: Write checks IsWriterEnd before Input, and a reader
\* that follows a garbage length stays inside its mapping or faults.
THEOREM TypeOKHolds == Spec => []TypeOK
  <1>1. TypeInv => TypeOK
    BY DEF TypeInv
  <1>2. QED
    BY <1>1, TypeInvInit, TypeInvStep, PTL DEF Spec

\* A record, or an empty record, that Output has handed to the caller of
\* CAsyncFileReader::Read and that the next Read has not yet committed is
\* never covered by ReaderPos, for every size of file and every crash
\* setting: a reader that dies while processing reads it again.
THEOREM InFlightUncommittedHolds == Spec => []InFlightUncommitted
  <1>1. CursorInv => InFlightUncommitted
    BY DEF CursorInv, InFlightUncommitted
  <1>2. QED
    BY <1>1, CursorInvInit, CursorInvStep, PTL DEF Spec
=============================================================================

------------------------------ MODULE AsyncFile ------------------------------
(***************************************************************************)
(* The hot-backup async file pair (src/hwcserver/afile_pos.h and          *)
(* async_file.cc).  A writer process appends length-prefixed records to a *)
(* numbered series of memory-mapped files; a reader process in another    *)
(* process reads them back.  The two share, without any lock, a control   *)
(* file holding WriterPos and ReaderPos, each a (serial, offset) pair.    *)
(*                                                                         *)
(* Every store to a shared position field is a step of its own, and every *)
(* comparison the reader makes loads the writer's serial and offset in    *)
(* two steps, so TLC sees the torn and transient views the code comments  *)
(* on.  Both processes may crash at any step and restart from the control *)
(* file (CONSTANTS WriterCrashes, ReaderCrashes).                         *)
(***************************************************************************)
EXTENDS Integers, Sequences

CONSTANTS
  FileSize,       \* MAX_ASYNC_FILE_SIZE: bytes in one async file
  RecLen,         \* RecLen[k]: payload length of the k-th record the writer is given
  MaxSerial,      \* bound on file serial numbers
  WriterCrashes,  \* whether the writer process may die
  ReaderCrashes   \* whether the reader process may die

LenBytes == 4       \* the uint32_t length prefix of a record (Input/Output)
EndFlagBytes == 4   \* room WriteEndFlag needs at the end of a file

Ids == 1 .. Len(RecLen)
Serials == 0 .. MaxSerial
Offsets == 0 .. FileSize

ASSUME ConstAssumption ==
  /\ FileSize \in Nat
  /\ MaxSerial \in Nat
  /\ RecLen \in Seq(Nat)
  \* a record always fits in a fresh file together with the end flag
  /\ \A k \in Ids : LenBytes + RecLen[k] + EndFlagBytes <= FileSize
  /\ WriterCrashes \in BOOLEAN
  /\ ReaderCrashes \in BOOLEAN

\* What a byte offset of a file holds, as far as a reader can tell.
\* Records are their ids 1, 2, ...; the other two cells are numbers too.
Zero == 0             \* never written: a freshly ftruncate'd file reads 0
EndFlag == -1         \* the end-of-file flag
Cells == Ids \cup {Zero, EndFlag}
EmptyFile == [o \in 0 .. FileSize - 1 |-> Zero]

\* What the reader last handed to its caller.
None == 0
Empty == -1           \* a record of length 0 read from unwritten bytes
Garbage == -2         \* bytes read from the middle of a record
Outputs == Ids \cup {None, Empty, Garbage}

Pos == [serial : Serials, offset : Offsets]
Origin == [serial |-> 0, offset |-> 0]

VARIABLES
  data,    \* data[s]: the contents of async file s (all Zero until created)
  made,    \* the serials whose async file exists on disk
  wpos,    \* the control file's WriterPos
  rpos,    \* the control file's ReaderPos
  wst,     \* the writer's control point
  wloc,    \* _pos of the writer's current CAsyncFileImpl
  nextId,  \* the record the writer is asked to write next
  rst,     \* the reader's control point
  rloc,    \* _pos of the reader's current CAsyncFileImpl
  proc,    \* the reader's _processing flag (a record handed out, not committed)
  snap,    \* the writer position as the reader has loaded it so far
  out,     \* the last thing Output handed to the reader's caller
  garbled  \* history, not a variable of the code: the reader has handed
           \* out bytes from inside a record

vars == <<data, made, wpos, rpos, wst, wloc, nextId, rst, rloc, proc, snap, out,
          garbled>>

WriterStates == {"down", "idle", "retry", "open_next", "switch_off", "switch_serial"}
ReaderStates == {"down", "idle", "trans_o", "eq_s", "eq_o", "gt_s", "gt_o",
                 "gt2_s", "gt2_o", "output", "open_next", "switch_off",
                 "switch_serial", "overflow", "logic", "fault"}

-----------------------------------------------------------------------------
(* CAsyncFilePos (afile_pos.h).                                            *)

\* EQ: same serial and offset.
EQ(a, b) == a.serial = b.serial /\ a.offset = b.offset

\* GT: a is past b; an offset of 0 in b is read as "b is switching files".
GT(a, b) == \/ a.serial > b.serial
            \/ a.serial = b.serial /\ a.offset > b.offset /\ b.offset # 0

\* IsTransient: b has cleared its offset but not yet bumped its serial.
IsTransient(a, b) == a.serial = b.serial /\ a.offset > 0 /\ b.offset = 0

\* Front(v): move forward v bytes.
Front(p, v) == [p EXCEPT !.offset = @ + v]

\* Shift: the next file, at offset 0.
Shifted(p) == [serial |-> p.serial + 1, offset |-> 0]

-----------------------------------------------------------------------------
(* Helpers of CAsyncFileImpl.                                              *)

\* IsWriterEnd(size): the record and a trailing end flag no longer fit.
IsWriterEnd(p, len) == p.offset + LenBytes + len + EndFlagBytes > FileSize

\* A record started at an earlier offset covers offset o.
InsideRecord(f, o) ==
  \E o2 \in 0 .. o - 1 : f[o2] \in Ids /\ o < o2 + LenBytes + RecLen[f[o2]]

\* Position p comes strictly before position q in the file series.
Before(p, q) == \/ p.serial < q.serial
                \/ p.serial = q.serial /\ p.offset < q.offset


-----------------------------------------------------------------------------
(* The writer: CAsyncFileWriter::Open and ::Write.                         *)

Init ==
  /\ data = [s \in Serials |-> EmptyFile]
  /\ made = {}
  /\ wpos = Origin
  /\ rpos = Origin
  /\ wst = "down"
  /\ wloc = Origin
  /\ nextId = 1
  /\ rst = "down"
  /\ rloc = Origin
  /\ proc = FALSE
  /\ snap = Origin
  /\ out = None
  /\ garbled = FALSE

\* OpenForWriter and Mount: take the position as _pos, open its file with
\* O_CREAT | O_RDWR and ftruncate it to MAX_ASYNC_FILE_SIZE, so the file
\* exists afterwards (the bytes already in it are kept).
OpenForWriter == made' = made \cup {wloc'.serial}

\* Open: map the controller, open the file at WriterPos and resume after
\* the last published record.
WriterOpen ==
  /\ wst = "down"
  /\ wloc' = wpos
  /\ OpenForWriter
  /\ wst' = "idle"
  /\ UNCHANGED <<data, wpos, rpos, nextId, rst, rloc, proc, snap, out, garbled>>

\* Mutant of WriteRecord: IsWriterEnd left out, so Input writes past the
\* end of the file.
WriteRecordNoEndCheck ==
  /\ wst \in {"idle", "retry"}
  /\ nextId \in Ids
  /\ data' = [data EXCEPT ![wloc.serial][wloc.offset] = nextId]
  /\ wloc' = Front(wloc, LenBytes + RecLen[nextId])
  /\ wpos' = wloc'
  /\ nextId' = nextId + 1
  /\ wst' = "idle"
  /\ UNCHANGED <<made, rpos, rst, rloc, proc, snap, out, garbled>>

\* Write, Input fits: store length and payload, then publish WriterPos.
WriteRecord ==
  /\ wst \in {"idle", "retry"}
  /\ nextId \in Ids
  /\ ~IsWriterEnd(wloc, RecLen[nextId])
  /\ data' = [data EXCEPT ![wloc.serial][wloc.offset] = nextId]
  /\ wloc' = Front(wloc, LenBytes + RecLen[nextId])
  /\ wpos' = wloc'
  /\ nextId' = nextId + 1
  /\ wst' = "idle"
  /\ UNCHANGED <<made, rpos, rst, rloc, proc, snap, out, garbled>>

\* Write, Input does not fit: WriteEndFlag and go switch files.
WriteEnd ==
  /\ wst \in {"idle", "retry"}
  /\ nextId \in Ids
  /\ IsWriterEnd(wloc, RecLen[nextId])
  /\ data' = [data EXCEPT ![wloc.serial][wloc.offset] = EndFlag]
  /\ wst' = "open_next"
  /\ UNCHANGED <<made, wpos, rpos, wloc, nextId, rst, rloc, proc, snap, out, garbled>>

\* Mutant of WriterOpenNext: OpenForWriter is given the unshifted
\* WriterPos, so the next file is never created.
WriterOpenNextWrongFile ==
  /\ wst = "open_next"
  /\ wpos.serial < MaxSerial
  /\ made' = made \cup {wpos.serial}
  /\ wloc' = Shifted(wpos)
  /\ wst' = "switch_off"
  /\ UNCHANGED <<data, wpos, rpos, nextId, rst, rloc, proc, snap, out, garbled>>

\* NEED_SWITCH: open the file after WriterPos and put it at the front.
WriterOpenNext ==
  /\ wst = "open_next"
  /\ wpos.serial < MaxSerial
  /\ wloc' = Shifted(wpos)
  /\ OpenForWriter
  /\ wst' = "switch_off"
  /\ UNCHANGED <<data, wpos, rpos, nextId, rst, rloc, proc, snap, out, garbled>>

\* NEED_SWITCH, OpenForWriter fails: Write returns ERR_ASYNC_SWTICH_FILE_ERR.
WriterOpenFail ==
  /\ wst = "open_next"
  /\ wst' = "idle"
  /\ UNCHANGED <<data, made, wpos, rpos, wloc, nextId, rst, rloc, proc, snap, out, garbled>>

\* SwitchWriterPos, first store of Shift: offset = 0.
WriterSwitchOffset ==
  /\ wst = "switch_off"
  /\ wpos' = [wpos EXCEPT !.offset = 0]
  /\ wst' = "switch_serial"
  /\ UNCHANGED <<data, made, rpos, wloc, nextId, rst, rloc, proc, snap, out, garbled>>

\* SwitchWriterPos, second store of Shift: serial += 1; Write recurses.
WriterSwitchSerial ==
  /\ wst = "switch_serial"
  /\ wpos' = [wpos EXCEPT !.serial = @ + 1]
  /\ wst' = "retry"
  /\ UNCHANGED <<data, made, rpos, wloc, nextId, rst, rloc, proc, snap, out, garbled>>

\* The writer process dies; the control file and the mapped files persist.
WriterCrash ==
  /\ WriterCrashes
  /\ wst # "down"
  /\ wst' = "down"
  /\ UNCHANGED <<data, made, wpos, rpos, wloc, nextId, rst, rloc, proc, snap, out, garbled>>

-----------------------------------------------------------------------------
(* The reader: CAsyncFileReader::Open, ::Commit and ::Read.                *)

\* Mount(path, O_RDONLY) can succeed only on a file the writer created:
\* open has no O_CREAT.  It may fail besides, at access, open or mmap, for
\* reasons outside the model; the actions that call it say what follows.
OpenForReader(p) == p.serial \in made

\* Open: map the controller and open the file at ReaderPos.  An Open that
\* fails returns ASYNC_PROCESS_ERR and leaves the reader down.  A reader
\* killed by a fault restarts here as well.
ReaderOpen ==
  /\ rst \in {"down", "fault"}
  /\ OpenForReader(rpos)
  /\ rloc' = rpos
  /\ proc' = FALSE
  /\ rst' = "idle"
  /\ UNCHANGED <<data, made, wpos, rpos, wst, wloc, nextId, snap, out, garbled>>

\* Read starts: Commit, then load WriterPos.serial for IsTransient.
ReadStart ==
  /\ rst \in {"idle", "overflow"}
  /\ rpos' = IF proc THEN rloc ELSE rpos
  /\ proc' = FALSE
  /\ snap' = [snap EXCEPT !.serial = wpos.serial]
  /\ rst' = "trans_o"
  /\ UNCHANGED <<data, made, wpos, wst, wloc, nextId, rloc, out, garbled>>

\* Load WriterPos.serial for the test that follows.
LoadSerial(from, to) ==
  /\ rst = from
  /\ snap' = [snap EXCEPT !.serial = wpos.serial]
  /\ rst' = to
  /\ UNCHANGED <<data, made, wpos, rpos, wst, wloc, nextId, rloc, proc, out, garbled>>

\* Load WriterPos.offset and branch on test(ReaderPos, loaded WriterPos):
\* to onTrue when it holds, to onFalse when not.
LoadOffsetTest(from, test(_, _), onTrue, onFalse) ==
  /\ rst = from
  /\ snap' = [snap EXCEPT !.offset = wpos.offset]
  /\ rst' = IF test(rpos, snap') THEN onTrue ELSE onFalse
  /\ UNCHANGED <<data, made, wpos, rpos, wst, wloc, nextId, rloc, proc, out, garbled>>

\* IsTransient, then EQ: either returns ASYNC_READER_WAIT_DATA.
TransientTest == LoadOffsetTest("trans_o", IsTransient, "idle", "eq_s")
EQLoad == LoadSerial("eq_s", "eq_o")
EQTest == LoadOffsetTest("eq_o", EQ, "idle", "gt_s")
\* GT, usleep, GT again: still past the writer is ERR_ASYNC_READER_OVERFLOW.
GTLoad == LoadSerial("gt_s", "gt_o")
GTTest == LoadOffsetTest("gt_o", GT, "gt2_s", "output")
GTRecheckLoad == LoadSerial("gt2_s", "gt2_o")
GTRecheckTest == LoadOffsetTest("gt2_o", GT, "overflow", "output")

\* The four bytes IsReaderEnd and Output read at _pos lie inside the
\* mapping of the file (Mount maps st_size bytes).
InMap == rloc.offset + LenBytes <= FileSize

\* The cell the reader's Output looks at.
Here == data[rloc.serial][rloc.offset]

\* Mutant of OutputRecord: ReaderPos is committed as soon as the record is
\* handed out (the assignment left commented out in Read).
OutputRecordCommitNow ==
  /\ rst = "output"
  /\ InMap
  /\ Here \in Ids
  /\ out' = Here
  /\ rloc' = Front(rloc, LenBytes + RecLen[Here])
  /\ rpos' = rloc'
  /\ proc' = TRUE
  /\ rst' = "idle"
  /\ UNCHANGED <<data, made, wpos, wst, wloc, nextId, snap, garbled>>

\* Output: a record; hand it out and mark it processing (commit is delayed).
OutputRecord ==
  /\ rst = "output"
  /\ InMap
  /\ Here \in Ids
  /\ out' = Here
  /\ rloc' = Front(rloc, LenBytes + RecLen[Here])
  /\ proc' = TRUE
  /\ rst' = "idle"
  /\ UNCHANGED <<data, made, wpos, rpos, wst, wloc, nextId, snap, garbled>>

\* Output at bytes nobody wrote: the length reads 0, an empty record.
OutputZero ==
  /\ rst = "output"
  /\ InMap
  /\ Here = Zero
  /\ ~InsideRecord(data[rloc.serial], rloc.offset)
  /\ out' = Empty
  /\ rloc' = Front(rloc, LenBytes)
  /\ proc' = TRUE
  /\ rst' = "idle"
  /\ UNCHANGED <<data, made, wpos, rpos, wst, wloc, nextId, snap, garbled>>

\* Output from the middle of a record: the length is payload bytes, any
\* value.  Output appends that many bytes and moves _pos past them, and
\* Read marks the garbage as processing; a length that runs past the end
\* of the mapping faults in the append (payload bytes are taken never to
\* spell the end flag).
OutputGarbage ==
  /\ rst = "output"
  /\ InMap
  /\ Here = Zero
  /\ InsideRecord(data[rloc.serial], rloc.offset)
  /\ \/ \E len \in 0 .. FileSize - rloc.offset - LenBytes :
          /\ out' = Garbage
          /\ rloc' = Front(rloc, LenBytes + len)
          /\ proc' = TRUE
          /\ rst' = "idle"
          /\ garbled' = TRUE
     \/ /\ rst' = "fault"
        /\ proc' = FALSE
        /\ UNCHANGED <<rloc, out, garbled>>
  /\ UNCHANGED <<data, made, wpos, rpos, wst, wloc, nextId, snap>>

\* IsReaderEnd or the length read at _pos runs past the end of the
\* mapping: the reader process dies of SIGBUS (a mapped file's size is
\* taken to be a multiple of the page size) and what it handed out but
\* did not commit is lost.
OutputOverrun ==
  /\ rst = "output"
  /\ ~InMap
  /\ rst' = "fault"
  /\ proc' = FALSE
  /\ UNCHANGED <<data, made, wpos, rpos, wst, wloc, nextId, rloc, snap, out, garbled>>

\* Output, IsReaderEnd: NEED_SWITCH; Unlink (a no-op: its body is commented
\* out), delete the file object and open the file after ReaderPos.  A
\* failed open, for a missing file or any other reason, deletes the new
\* object too: _asyncfile is NULL and every later Read returns
\* ERR_ASYNC_READER_LOGIC.
ReaderOpenNext ==
  /\ rst = "output"
  /\ InMap
  /\ Here = EndFlag
  /\ rpos.serial < MaxSerial
  /\ \/ /\ OpenForReader(Shifted(rpos))
        /\ rloc' = Shifted(rpos)
        /\ rst' = "switch_off"
     \/ /\ rst' = "logic"
        /\ UNCHANGED rloc
  /\ UNCHANGED <<data, made, wpos, rpos, wst, wloc, nextId, proc, snap, out, garbled>>

\* SwitchReaderPos, first store of Shift: offset = 0.
ReaderSwitchOffset ==
  /\ rst = "switch_off"
  /\ rpos' = [rpos EXCEPT !.offset = 0]
  /\ rst' = "switch_serial"
  /\ UNCHANGED <<data, made, wpos, wst, wloc, nextId, rloc, proc, snap, out, garbled>>

\* SwitchReaderPos, second store of Shift: serial += 1; Read recurses.
ReaderSwitchSerial ==
  /\ rst = "switch_serial"
  /\ rpos' = [rpos EXCEPT !.serial = @ + 1]
  /\ rst' = "idle"
  /\ UNCHANGED <<data, made, wpos, wst, wloc, nextId, rloc, proc, snap, out, garbled>>

\* The reader process dies; what it handed out but did not commit is lost.
ReaderCrash ==
  /\ ReaderCrashes
  /\ rst \notin {"down", "fault"}
  /\ rst' = "down"
  /\ proc' = FALSE
  /\ UNCHANGED <<data, made, wpos, rpos, wst, wloc, nextId, rloc, snap, out, garbled>>

-----------------------------------------------------------------------------
WriterStep ==
  \/ WriterOpen \/ WriteRecord \/ WriteEnd \/ WriterOpenNext \/ WriterOpenFail
  \/ WriterSwitchOffset \/ WriterSwitchSerial

ReaderStep ==
  \/ ReaderOpen \/ ReadStart
  \/ TransientTest \/ EQLoad \/ EQTest
  \/ GTLoad \/ GTTest \/ GTRecheckLoad \/ GTRecheckTest
  \/ OutputRecord \/ OutputZero \/ OutputGarbage \/ OutputOverrun
  \/ ReaderOpenNext \/ ReaderSwitchOffset \/ ReaderSwitchSerial

Next == WriterStep \/ ReaderStep \/ WriterCrash \/ ReaderCrash

\* The reader is a polling loop that calls Read again after every
\* ASYNC_READER_WAIT_DATA; once the writer has started a Write it runs
\* that call to its end.  Whether the writer is given a new record is up
\* to its caller, so starting a Write gets no fairness.
WriterInternal ==
  \/ WriterOpenNext \/ WriterOpenFail \/ WriterSwitchOffset \/ WriterSwitchSerial
  \/ (wst = "retry" /\ WriteRecord)

Fairness == WF_vars(ReaderStep) /\ WF_vars(WriterInternal) /\ WF_vars(WriterOpen)

Spec == Init /\ [][Next]_vars /\ Fairness

-----------------------------------------------------------------------------
TypeOK ==
  /\ data \in [Serials -> [0 .. FileSize - 1 -> Cells]]
  /\ made \subseteq Serials
  /\ wpos \in Pos /\ rpos \in Pos /\ wloc \in Pos /\ rloc \in Pos /\ snap \in Pos
  /\ wst \in WriterStates
  /\ rst \in ReaderStates
  /\ nextId \in 1 .. Len(RecLen) + 1
  /\ proc \in BOOLEAN
  /\ out \in Outputs
  /\ garbled \in BOOLEAN

\* While the reader's caller is still processing a record Output handed
\* out (_processing set, Commit delayed to the next Read), ReaderPos in the
\* control file is still before the reader's position, so a reader that
\* dies now reads the record again after restart (at-least-once delivery).
InFlightUncommitted == proc => Before(rpos, rloc)

\* Write creates the next async file (OpenForWriter) before
\* SwitchWriterPos lets the reader past the end flag: whenever Output
\* meets an end flag, the file after ReaderPos exists, so the NEED_SWITCH
\* branch of Read never fails for a missing file, as long as the reader
\* has not jumped by a garbage length (after the switch race it can land
\* on the very offset where the writer later puts its end flag).
NextFileExists ==
  (~garbled /\ rst = "output" /\ InMap /\ Here = EndFlag
     /\ rpos.serial < MaxSerial)
    => OpenForReader(Shifted(rpos))

\* The reader only ever hands its caller records the writer wrote: never
\* the zero length of unwritten bytes, never bytes from inside a record,
\* and it never reads past the end of its mapping.
ReadsOnlyRecords == out \notin {Empty, Garbage} /\ rst # "fault"

\* A record the writer has stored is never overwritten: Write only appends
\* at WriterPos, and Open resumes at WriterPos.
PublishedNeverOverwritten ==
  [][\A s \in Serials, o \in 0 .. FileSize - 1 :
       data[s][o] \in Ids => data'[s][o] = data[s][o]]_vars

\* ReaderPos as the reader means it: while SwitchReaderPos is between its
\* two stores, the position the Shift is heading for.
ReaderPosMapped == IF rst = "switch_serial" THEN Shifted(rpos) ELSE rpos

\* ReaderPos never moves back: Commit and SwitchReaderPos only move it
\* forward, so a reader restarted from it never reads a committed record
\* again.
CommitNeverRegresses == [][~Before(ReaderPosMapped', ReaderPosMapped)]_vars
=============================================================================

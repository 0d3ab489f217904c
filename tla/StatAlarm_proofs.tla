-------------------------- MODULE StatAlarm_proofs --------------------------
(***************************************************************************)
(* Proofs about the alarm-configuration reload (StatAlarm), for every set  *)
(* of alarm lines, every clock bound and every fault setting.             *)
(*                                                                         *)
(* TypeOK is inductive as it stands.  QuietReloadExact rests on ReadInv:  *)
(* while a reload that no edit has overlapped is reading, the stream has  *)
(* not passed the end of the file and alarm_Cfg_ holds the accepted lines *)
(* among the first roff lines of the file.                                *)
(***************************************************************************)
EXTENDS StatAlarm, SequenceTheorems, TLAPS

USE ConstAssumption

LEMMA TypeOKInit == Init => TypeOK
  <1> SUFFICES ASSUME Init PROVE TypeOK
    OBVIOUS
  <1>1. fLines \in Seq(Items) /\ target \in Configs
    BY DEF Init
  <1>2. /\ clock \in 1 .. MaxTime /\ fMtime \in 1 .. MaxTime
        /\ modTime \in 0 .. MaxTime /\ edits \in 0 .. MaxEdits
    BY DEF Init
  <1>3. /\ writing \in BOOLEAN /\ readable \in BOOLEAN
        /\ alarmCfg \subseteq ValidItems /\ checked \subseteq ValidItems
        /\ reading \in BOOLEAN /\ roff \in Nat /\ overlapped \in BOOLEAN
    BY DEF Init
  <1>4. statCp \in Checkpoints /\ chkpt \in Checkpoints
    BY DEF Init, Checkpoints
  <1>5. QED
    BY <1>1, <1>2, <1>3, <1>4 DEF TypeOK

\* An edit leaves the file a prefix of a file in Configs.
LEMMA EditStartKeepsType == TypeOK /\ EditStart => TypeOK'
  <1> SUFFICES ASSUME TypeOK, EditStart PROVE TypeOK'
    OBVIOUS
  <1>1. PICK v \in Configs : \E k \in 0 .. Len(v) :
               /\ fLines' = SubSeq(v, 1, k)
               /\ target' = v
    BY DEF EditStart
  <1>2. v \in Seq(Items)
    BY <1>1
  <1>3. fLines' \in Seq(Items)
    <2>1. PICK k \in 0 .. Len(v) : fLines' = SubSeq(v, 1, k)
      BY <1>1
    <2>2. QED
      BY <2>1, <1>2, SubSeqProperties
  <1>4. QED
    BY <1>1, <1>3 DEF EditStart, TypeOK

\* The operator's steps and the clock keep the types.
LEMMA EnvKeepsType ==
  ASSUME TypeOK, Tick \/ EditStart \/ EditFinish \/ Chmod \/ NewCheckpoint
  PROVE  TypeOK'
  <1>1. CASE Tick
    BY <1>1 DEF Tick, TypeOK
  <1>2. CASE EditStart
    BY <1>2, EditStartKeepsType
  <1>3. CASE EditFinish
    <2>1. clock' \in 1 .. MaxTime
      <3>1. CASE EditsApart
        BY <1>3, <3>1 DEF EditFinish, TypeOK
      <3>2. CASE ~EditsApart
        BY <1>3, <3>2 DEF EditFinish, TypeOK
      <3>3. QED
        BY <3>1, <3>2
    <2>2. fLines' \in Seq(Items) /\ overlapped' \in BOOLEAN
      BY <1>3 DEF EditFinish, TypeOK
    <2>3. QED
      BY <1>3, <2>1, <2>2 DEF EditFinish, TypeOK
  <1>4. CASE Chmod
    BY <1>4 DEF Chmod, TypeOK
  <1>5. CASE NewCheckpoint
    BY <1>5 DEF NewCheckpoint, TypeOK, Checkpoints
  <1>6. QED
    BY <1>1, <1>2, <1>3, <1>4, <1>5

LEMMA TypeOKStep == TypeOK /\ [Next]_vars => TypeOK'
  <1> SUFFICES ASSUME TypeOK, [Next]_vars PROVE TypeOK'
    OBVIOUS
  <1>1. CASE Tick \/ EditStart \/ EditFinish \/ Chmod \/ NewCheckpoint
    BY <1>1, EnvKeepsType
  <1>2. CASE ReloadUnchanged
    BY <1>2 DEF ReloadUnchanged, vars, TypeOK
  <1>3. CASE ReloadOpenFail
    BY <1>3 DEF ReloadOpenFail, EnvUnchanged, TypeOK
  <1>4. CASE ReloadOpen
    <2>1. reading' \in BOOLEAN /\ overlapped' \in BOOLEAN
      BY <1>4 DEF ReloadOpen
    <2>2. alarmCfg' \subseteq ValidItems /\ roff' \in Nat
      BY <1>4 DEF ReloadOpen
    <2>3. QED
      BY <1>4, <2>1, <2>2 DEF ReloadOpen, EnvUnchanged, TypeOK
  <1>5. CASE ReloadRead
    BY <1>5 DEF ReloadRead, EnvUnchanged, Accepted, ParseAlarmCfg, TypeOK
  <1>6. CASE ReloadEOF
    BY <1>6 DEF ReloadEOF, EnvUnchanged, TypeOK
  <1>7. CASE ReportAlarm
    BY <1>7 DEF ReportAlarm, EnvUnchanged, TypeOK
  <1>8. CASE UNCHANGED vars
    BY <1>8 DEF vars, TypeOK
  <1>9. QED
    BY <1>1, <1>2, <1>3, <1>4, <1>5, <1>6, <1>7, <1>8 DEF Next, Reload

\* Every state the reporter and the operator reach is well typed: the
\* clock, st_mtime and modify_time_ stay within the clock's range, the file
\* is a sequence of alarm lines, and alarm_Cfg_ and the items report_alarm
\* checks hold only lines that parse_alarm_cfg accepted.
THEOREM TypeOKHolds == Spec => []TypeOK
  BY TypeOKInit, TypeOKStep, PTL DEF Spec

-----------------------------------------------------------------------------
(* A reload that no edit overlaps reads the whole file.                    *)

\* The accepted lines among the first n lines of the file.
ReadSoFar(n) == Accepted({fLines[k] : k \in 1 .. n})

\* While a reload that no edit has overlapped is reading, the stream's
\* offset is within the file and alarm_Cfg_ holds the accepted lines the
\* stream has passed.
ReadInv ==
  reading /\ ~overlapped =>
    /\ roff <= Len(fLines)
    /\ alarmCfg = ReadSoFar(roff)

IInv == TypeOK /\ ReadInv

LEMMA IInvInit == Init => IInv
  BY TypeOKInit DEF Init, IInv, ReadInv

\* A read(2) that returns lines roff + 1 .. n extends what was read to n.
LEMMA ReadExtends ==
  ASSUME NEW s \in Seq(Items), NEW r \in Nat, NEW n \in r + 1 .. Len(s)
  PROVE  Accepted({s[k] : k \in 1 .. r}) \cup Accepted({s[k] : k \in r + 1 .. n})
           = Accepted({s[k] : k \in 1 .. n})
  <1>1. {s[k] : k \in 1 .. r} \cup {s[k] : k \in r + 1 .. n}
          = {s[k] : k \in 1 .. n}
    OBVIOUS
  <1>2. QED
    BY <1>1 DEF Accepted

LEMMA ReadInvStep == IInv /\ [Next]_vars => ReadInv'
  <1> SUFFICES ASSUME TypeOK, ReadInv, [Next]_vars PROVE ReadInv'
    BY DEF IInv
  <1>1. CASE EditStart \/ EditFinish
    \* An edit while reading marks the reload overlapped.
    <2>1. ~reading' \/ overlapped'
      BY <1>1 DEF EditStart, EditFinish
    <2>2. QED
      BY <2>1 DEF ReadInv
  <1>2. CASE Tick \/ Chmod \/ NewCheckpoint \/ ReloadUnchanged
    BY <1>2 DEF Tick, Chmod, NewCheckpoint, ReloadUnchanged, vars, ReadInv,
                ReadSoFar, Accepted
  <1>3. CASE ReloadOpenFail \/ ReloadEOF \/ ReportAlarm
    <2>1. ~reading'
      BY <1>3 DEF ReloadOpenFail, ReloadEOF, ReportAlarm
    <2>2. QED
      BY <2>1 DEF ReadInv
  <1>4. CASE ReloadOpen
    <2>1. roff' = 0 /\ alarmCfg' = {} /\ fLines' = fLines
      BY <1>4 DEF ReloadOpen, EnvUnchanged
    <2>2. ReadSoFar(0)' = {}
      BY DEF ReadSoFar, Accepted
    <2>3. QED
      BY <2>1, <2>2, TypeOK DEF ReadInv, TypeOK
  <1>5. CASE ReloadRead
    <2>1. PICK n \in roff + 1 .. Len(fLines) :
            /\ alarmCfg' = alarmCfg \cup Accepted({fLines[k] : k \in roff + 1 .. n})
            /\ roff' = n
      BY <1>5 DEF ReloadRead
    <2>2. fLines' = fLines /\ reading' = reading /\ overlapped' = overlapped
      BY <1>5 DEF ReloadRead, EnvUnchanged
    <2>3. SUFFICES ASSUME ~overlapped
                   PROVE  roff' <= Len(fLines') /\ alarmCfg' = ReadSoFar(roff)'
      BY <2>2 DEF ReadInv
    <2>4. alarmCfg = ReadSoFar(roff)
      BY <1>5, <2>3 DEF ReloadRead, ReadInv
    <2>5. fLines \in Seq(Items) /\ roff \in Nat
      BY DEF TypeOK
    <2>6. alarmCfg' = Accepted({fLines[k] : k \in 1 .. n})
      BY <2>1, <2>4, <2>5, ReadExtends DEF ReadSoFar
    <2>7. roff' <= Len(fLines')
      BY <2>1, <2>2, <2>5
    <2>8. ReadSoFar(roff)' = Accepted({fLines[k] : k \in 1 .. n})
      BY <2>1, <2>2 DEF ReadSoFar
    <2>9. QED
      BY <2>6, <2>7, <2>8
  <1>6. CASE UNCHANGED vars
    BY <1>6 DEF vars, ReadInv, ReadSoFar, Accepted
  <1>7. QED
    BY <1>1, <1>2, <1>3, <1>4, <1>5, <1>6 DEF Next, Reload

LEMMA IInvStep == IInv /\ [Next]_vars => IInv'
  BY TypeOKStep, ReadInvStep DEF IInv

\* Only the read that meets the end ends a reload, and when no edit
\* overlapped it, the stream has passed every line of the file.
LEMMA QuietStep ==
  IInv /\ [Next]_vars =>
    [reading /\ ~reading' /\ ~overlapped => alarmCfg' = Expected']_vars
  <1> SUFFICES ASSUME IInv, [Next]_vars, reading, ~reading', ~overlapped
               PROVE  alarmCfg' = Expected'
    OBVIOUS
  <1>1. ReloadEOF
    BY DEF Next, Reload, Tick, EditStart, EditFinish, Chmod, NewCheckpoint,
           ReloadUnchanged, ReloadOpenFail, ReloadOpen, ReloadRead,
           ReportAlarm, vars
  <1>2. roff = Len(fLines) /\ alarmCfg = ReadSoFar(roff)
    BY <1>1 DEF ReloadEOF, IInv, ReadInv, TypeOK
  <1>3. fLines \in Seq(Items)
    BY DEF IInv, TypeOK
  <1>4. {fLines[k] : k \in 1 .. Len(fLines)} = Lines(fLines)
    BY <1>3 DEF Lines
  <1>5. fLines' = fLines /\ alarmCfg' = alarmCfg
    BY <1>1 DEF ReloadEOF, EnvUnchanged
  <1>6. QED
    BY <1>2, <1>4, <1>5 DEF ReadSoFar, Expected

\* For every set of alarm lines, clock bound and fault setting: a reload
\* of init_alarm_cfg that no edit overlapped ends with alarm_Cfg_ holding
\* exactly the file's alarm lines that parse.
THEOREM QuietReloadExactHolds == Spec => QuietReloadExact
  <1>1. Init => IInv
    BY IInvInit
  <1>2. IInv /\ [Next]_vars => IInv'
    BY IInvStep
  <1>3. IInv /\ [Next]_vars =>
          [reading /\ ~reading' /\ ~overlapped => alarmCfg' = Expected']_vars
    BY QuietStep
  <1>4. QED
    BY <1>1, <1>2, <1>3, PTL DEF Spec, QuietReloadExact
=============================================================================

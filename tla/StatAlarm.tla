------------------------------ MODULE StatAlarm ------------------------------
(***************************************************************************)
(* Reloading the alarm configuration (src/libs/stat/stat_alarm_reporter). *)
(* The statistics tool calls init_alarm_cfg again and again; it reloads   *)
(* the file only when stat() reports an st_mtime other than the one it    *)
(* remembers in modify_time_.  An operator edits the file meanwhile.      *)
(*                                                                         *)
(* The file is a sequence of alarm lines; url and cellphone lines are    *)
(* left out (the properties are about alarm_Cfg_).  Time is st_mtime's    *)
(* one-second clock.  std::getline reads the file through a stream buffer *)
(* that read(2) refills: a reload is an open, one step per read(2) and    *)
(* the read that meets the end, and the operator may write in between.    *)
(***************************************************************************)
EXTENDS Naturals, Sequences

CONSTANTS
  Items,          \* alarm lines "statItemId=threshold;cat;content"
  ValidItems,     \* the lines parse_alarm_cfg accepts
  Configs,        \* the files (sequences of alarm lines) an edit may write
  MaxTime,        \* last second of the clock
  MaxEdits,       \* bound on the operator's edits
  EditsApart,     \* every write of an edit lands in a later second than anything before
  OpenFailures,   \* the file may become unreadable (chmod) while stat works
  PartialWrites,  \* an edit truncates and rewrites the file in two steps
  IsDtcServer     \* init_alarm_cfg's is_dtc_server argument

ASSUME ConstAssumption ==
  /\ ValidItems \subseteq Items
  /\ Configs \subseteq Seq(Items)
  /\ MaxTime \in Nat \ {0}
  /\ MaxEdits \in Nat
  /\ {EditsApart, OpenFailures, PartialWrites, IsDtcServer} \subseteq BOOLEAN

VARIABLES
  clock,     \* the current second
  fLines,    \* the alarm lines now in the file, in order
  target,    \* the lines an edit in progress is writing
  writing,   \* an edit has truncated the file and not finished
  fMtime,    \* the file's st_mtime
  readable,  \* open(O_RDONLY) succeeds
  edits,     \* edits made so far
  modTime,   \* modify_time_
  alarmCfg,  \* alarm_Cfg_: the items loaded
  statCp,    \* the statistics file's check_point()
  chkpt,     \* report_alarm's static chkpt
  checked,   \* the items the last report_alarm compared with their thresholds
  reading,   \* init_alarm_cfg has the file open and has not met its end
  roff,      \* the lines of the file the open stream has read
  overlapped \* history: an edit has written the file since the reload opened it

vars == <<clock, fLines, target, writing, fMtime, readable, edits,
          modTime, alarmCfg, statCp, chkpt, checked, reading, roff, overlapped>>

\* The lines of a file.
Lines(s) == {s[k] : k \in DOMAIN s}

\* The statistics checkpoints the model lets the stat client pass through.
Checkpoints == 0 .. 2

Init ==
  /\ clock = 1
  /\ fLines \in Configs
  /\ target = fLines
  /\ writing = FALSE
  /\ fMtime = 1
  /\ readable = TRUE
  /\ edits = 0
  /\ modTime = 0
  /\ alarmCfg = {}
  /\ statCp = 0
  /\ chkpt = 0
  /\ checked = {}
  /\ reading = FALSE
  /\ roff = 0
  /\ overlapped = FALSE

-----------------------------------------------------------------------------
(* The environment: the clock, the operator, the statistics writer.        *)

Tick ==
  /\ clock < MaxTime
  /\ clock' = clock + 1
  /\ UNCHANGED <<fLines, target, writing, fMtime, readable, edits, modTime,
                 alarmCfg, statCp, chkpt, checked, reading, roff, overlapped>>

\* An edit writes the file; with EditsApart it happens in a new second.
\* With PartialWrites the file is first left holding part of the new lines.
EditStart ==
  /\ edits < MaxEdits
  /\ ~writing
  /\ EditsApart => clock < MaxTime
  /\ \E v \in Configs : \E k \in 0 .. Len(v) :
       /\ PartialWrites \/ k = Len(v)
       /\ fLines' = SubSeq(v, 1, k)
       /\ target' = v
       /\ writing' = (k # Len(v))
  /\ clock' = IF EditsApart THEN clock + 1 ELSE clock
  /\ fMtime' = clock'
  /\ edits' = edits + 1
  /\ overlapped' = (overlapped \/ reading)
  /\ UNCHANGED <<readable, modTime, alarmCfg, statCp, chkpt, checked, reading,
                 roff>>

\* The rest of the edit is written; st_mtime is the second it lands in,
\* a new one with EditsApart.
EditFinish ==
  /\ writing
  /\ EditsApart => clock < MaxTime
  /\ fLines' = target
  /\ writing' = FALSE
  /\ clock' = IF EditsApart THEN clock + 1 ELSE clock
  /\ fMtime' = clock'
  /\ overlapped' = (overlapped \/ reading)
  /\ UNCHANGED <<target, readable, edits, modTime, alarmCfg, statCp, chkpt,
                 checked, reading, roff>>

\* chmod: permissions change, st_mtime does not.
Chmod ==
  /\ OpenFailures
  /\ readable' = ~readable
  /\ UNCHANGED <<clock, fLines, target, writing, fMtime, edits, modTime,
                 alarmCfg, statCp, chkpt, checked, reading, roff, overlapped>>

\* The statistics writer moves to a new checkpoint.
NewCheckpoint ==
  /\ statCp' = (statCp + 1) % 3
  /\ UNCHANGED <<clock, fLines, target, writing, fMtime, readable, edits,
                 modTime, alarmCfg, chkpt, checked, reading, roff, overlapped>>

-----------------------------------------------------------------------------
(* StatAlarmReporter.  The tool calls init_alarm_cfg and report_alarm from *)
(* one loop, so report_alarm never runs while a reload has the file open.  *)

\* is_alarm_cfg_file_modify: st_mtime differs from modify_time_.
FileModified == fMtime # modTime

\* parse_alarm_cfg accepts the line.
ParseAlarmCfg(i) == i \in ValidItems

\* The alarm lines of S that init_alarm_cfg pushes back (a dtc server
\* skips alarm lines).
Accepted(S) == IF IsDtcServer THEN {} ELSE {i \in S : ParseAlarmCfg(i)}

\* Frame of the reporter's steps: the environment's variables.
EnvUnchanged ==
  UNCHANGED <<clock, fLines, target, writing, fMtime, readable, edits, statCp>>

\* init_alarm_cfg, not modified: return true.
ReloadUnchanged ==
  /\ ~reading
  /\ ~FileModified
  /\ UNCHANGED vars

\* init_alarm_cfg, modified: modify_time_ is updated, then open fails.
ReloadOpenFail ==
  /\ ~reading
  /\ FileModified
  /\ modTime' = fMtime
  /\ ~readable
  /\ EnvUnchanged
  /\ UNCHANGED <<alarmCfg, chkpt, checked, reading, roff, overlapped>>

\* Mutant: alarm_Cfg_.clear() left out, so removed lines stay configured.
ReloadOpenNoClear ==
  /\ ~reading
  /\ FileModified
  /\ modTime' = fMtime
  /\ readable
  /\ reading' = TRUE
  /\ roff' = 0
  /\ overlapped' = FALSE
  /\ EnvUnchanged
  /\ UNCHANGED <<alarmCfg, chkpt, checked>>

\* init_alarm_cfg, modified: modify_time_ is updated, the file opened and
\* alarm_Cfg_ cleared.
ReloadOpen ==
  /\ ~reading
  /\ FileModified
  /\ modTime' = fMtime
  /\ readable
  /\ alarmCfg' = {}
  /\ reading' = TRUE
  /\ roff' = 0
  /\ overlapped' = FALSE
  /\ EnvUnchanged
  /\ UNCHANGED <<chkpt, checked>>

\* One read(2) refilling getline's buffer: it returns the file's lines from
\* the stream's offset on, as many as the buffer holds; every one that
\* parses is pushed back.
ReloadRead ==
  /\ reading
  /\ roff < Len(fLines)
  /\ \E n \in roff + 1 .. Len(fLines) :
       /\ alarmCfg' = alarmCfg \cup Accepted({fLines[k] : k \in roff + 1 .. n})
       /\ roff' = n
  /\ EnvUnchanged
  /\ UNCHANGED <<modTime, chkpt, checked, reading, overlapped>>

\* Mutant: the loop ends before the stream has reached the end of the file.
ReloadEOFEarly ==
  /\ reading
  /\ reading' = FALSE
  /\ EnvUnchanged
  /\ UNCHANGED <<modTime, alarmCfg, chkpt, checked, roff, overlapped>>

\* getline fails: read(2) finds no byte past the offset; close, return true.
ReloadEOF ==
  /\ reading
  /\ roff >= Len(fLines)
  /\ reading' = FALSE
  /\ EnvUnchanged
  /\ UNCHANGED <<modTime, alarmCfg, chkpt, checked, roff, overlapped>>

Reload ==
  ReloadUnchanged \/ ReloadOpenFail \/ ReloadOpen \/ ReloadRead \/ ReloadEOF

\* Mutant: the checkpoint remembered one past the one reported.
ReportAlarmOffByOne ==
  /\ ~reading
  /\ statCp # chkpt
  /\ chkpt' = statCp + 1
  /\ checked' = alarmCfg
  /\ EnvUnchanged
  /\ UNCHANGED <<modTime, alarmCfg, reading, roff, overlapped>>

\* report_alarm: on a new checkpoint, compare every configured item with
\* its threshold (do_singe_stat_item_alm_report).
ReportAlarm ==
  /\ ~reading
  /\ statCp # chkpt
  /\ chkpt' = statCp
  /\ checked' = alarmCfg
  /\ EnvUnchanged
  /\ UNCHANGED <<modTime, alarmCfg, reading, roff, overlapped>>

Next ==
  \/ Tick \/ EditStart \/ EditFinish \/ Chmod \/ NewCheckpoint
  \/ Reload \/ ReportAlarm

\* The tool keeps calling init_alarm_cfg and report_alarm.
Spec == Init /\ [][Next]_vars /\ WF_vars(Reload) /\ WF_vars(ReportAlarm)

-----------------------------------------------------------------------------
TypeOK ==
  /\ clock \in 1 .. MaxTime
  /\ fLines \in Seq(Items) /\ target \in Configs /\ writing \in BOOLEAN
  /\ fMtime \in 1 .. MaxTime /\ modTime \in 0 .. MaxTime
  /\ readable \in BOOLEAN /\ edits \in 0 .. MaxEdits
  /\ alarmCfg \subseteq ValidItems /\ checked \subseteq ValidItems
  /\ statCp \in Checkpoints /\ chkpt \in Checkpoints
  /\ reading \in BOOLEAN /\ roff \in Nat /\ overlapped \in BOOLEAN

\* What alarm_Cfg_ should hold for the file as it now is.
Expected == Accepted(Lines(fLines))

\* A reload that no edit overlapped, from the open to the read that meets
\* the end, leaves alarm_Cfg_ holding exactly the file's alarm lines that
\* parse: the clear, the offset the stream advances and the end test of
\* init_alarm_cfg's getline loop lose no line and keep no stale one.  (An
\* overlapping rewrite can leave the old file's first lines and the new
\* file's last ones.)
QuietReloadExact ==
  [][reading /\ ~reading' /\ ~overlapped => alarmCfg' = Expected']_vars

\* The file is complete and readable.
Quiet == ~writing /\ readable

\* Once the operator stops editing and the file stays readable,
\* init_alarm_cfg eventually holds the file's alarm lines and keeps them:
\* the modify-time check never hides an edit for good.
EventuallyCurrent == <>[]Quiet => <>[](alarmCfg = Expected)
=============================================================================

------------------------------ MODULE HwcService ------------------------------
(***************************************************************************)
(* The hot-backup service (src/hwcserver): its states init, register and   *)
(* fault, and the registrar's check that the master's shared memory was   *)
(* not rebuilt (CRegistor::CheckMemoryCreateTime).                          *)
(*                                                                         *)
(* HwcStateManager and the binlog-sync state are not in src: a state is   *)
(* entered (Enter) once after ChangeState, then its HandleEvent runs      *)
(* again and again.  Regist is not in src either: its result code is any  *)
(* of the three outcomes, and the master creation time it records is what *)
(* QueryMemoryCreateTime(master) returns at that moment.                   *)
(***************************************************************************)
EXTENDS Integers

CONSTANTS
  MaxCtime,    \* creation times the master's memory may have: 1..MaxCtime
  MaxOutages,  \* bound on the times the master becomes unreachable
  MaxConfigs   \* bound on the DTCConfig objects InitState::HandleEvent allocates

ASSUME ConstAssumption ==
  /\ MaxCtime \in Nat \ {0}
  /\ MaxOutages \in Nat
  /\ MaxConfigs \in Nat \ {0}

States == {"init", "register", "binlog_sync", "fault", "exited"}

\* Regist's result: -EC_INC_SYNC_STAGE, -EC_FULL_SYNC_STAGE or anything else.
RegistResults == {"inc", "full", "other"}

VARIABLES
  cur,         \* the current state of HwcStateManager
  entered,     \* Enter of the current state has run
  configs,     \* DTCConfig objects allocated by InitState::HandleEvent
  masterCtime, \* CRegistor::_master_ctime
  masterMem,   \* creation time of the master's shared memory
  masterUp,    \* the master answers SvrAdminRequest
  outages,     \* times the master became unreachable
  verdict,     \* the last result of CheckMemoryCreateTime
  memAtCheck   \* masterMem when that check ran

vars == <<cur, entered, configs, masterCtime, masterMem, masterUp, outages,
          verdict, memAtCheck>>

Init ==
  /\ cur = "init"
  /\ entered = FALSE
  /\ configs = 0
  /\ masterCtime = -1
  /\ masterMem = 1
  /\ masterUp = TRUE
  /\ outages = 0
  /\ verdict = "none"
  /\ memAtCheck = 1

\* QueryMemoryCreateTime(master, 1): the master's creation time, or -1
\* when the request fails.
QueryMemoryCreateTime == IF masterUp THEN masterMem ELSE -1

-----------------------------------------------------------------------------
(* The master.                                                             *)

MasterRebuild ==
  /\ masterMem < MaxCtime
  /\ masterMem' = masterMem + 1
  /\ UNCHANGED <<cur, entered, configs, masterCtime, masterUp, outages,
                 verdict, memAtCheck>>

MasterDown ==
  /\ masterUp
  /\ outages < MaxOutages
  /\ masterUp' = FALSE
  /\ outages' = outages + 1
  /\ UNCHANGED <<cur, entered, configs, masterCtime, masterMem, verdict,
                 memAtCheck>>

MasterUp ==
  /\ ~masterUp
  /\ masterUp' = TRUE
  /\ UNCHANGED <<cur, entered, configs, masterCtime, masterMem, outages,
                 verdict, memAtCheck>>

-----------------------------------------------------------------------------
(* The service.                                                            *)

ChangeState(s) == cur' = s /\ entered' = FALSE

\* InitState::Enter: registor.Init() or uniq_lock() fails.
InitEnterFail ==
  /\ cur = "init" /\ ~entered
  /\ ChangeState("fault")
  /\ UNCHANGED <<configs, masterCtime, masterMem, masterUp, outages,
                 verdict, memAtCheck>>

InitEnterOk ==
  /\ cur = "init" /\ ~entered
  /\ entered' = TRUE
  /\ UNCHANGED <<cur, configs, masterCtime, masterMem, masterUp, outages,
                 verdict, memAtCheck>>

\* InitState::HandleEvent allocates a DTCConfig it never frees; when the
\* YAML file or the DbConfig fails to load it returns and is called again.
InitHandleRetry ==
  /\ cur = "init" /\ entered
  /\ configs < MaxConfigs
  /\ configs' = configs + 1
  /\ UNCHANGED <<cur, entered, masterCtime, masterMem, masterUp, outages,
                 verdict, memAtCheck>>

InitHandleOk ==
  /\ cur = "init" /\ entered
  /\ configs < MaxConfigs
  /\ configs' = configs + 1
  /\ ChangeState("register")
  /\ UNCHANGED <<masterCtime, masterMem, masterUp, outages, verdict,
                 memAtCheck>>

\* RegisterState::Enter: ReInitDtcAgency or check_table fails (a failed
\* create_tab_if_not_exist is only logged).
RegisterEnterFail ==
  /\ cur = "register" /\ ~entered
  /\ ChangeState("fault")
  /\ UNCHANGED <<configs, masterCtime, masterMem, masterUp, outages,
                 verdict, memAtCheck>>

RegisterEnterOk ==
  /\ cur = "register" /\ ~entered
  /\ entered' = TRUE
  /\ UNCHANGED <<cur, configs, masterCtime, masterMem, masterUp, outages,
                 verdict, memAtCheck>>

\* RegisterState::HandleEvent: Regist, then binlog sync on an inc or full
\* sync stage and fault otherwise.
RegisterHandle ==
  /\ cur = "register" /\ entered
  /\ masterCtime' = QueryMemoryCreateTime
  /\ \E rc \in RegistResults :
       ChangeState(IF rc \in {"inc", "full"} THEN "binlog_sync" ELSE "fault")
  /\ UNCHANGED <<configs, masterMem, masterUp, outages, verdict, memAtCheck>>

\* Mutant: the comparison inverted (v0 == _master_ctime).
CheckMemoryCreateTimeInverted ==
  /\ cur = "binlog_sync"
  /\ LET v0 == QueryMemoryCreateTime
     IN  verdict' = IF masterCtime > 0 /\ v0 > 0 /\ v0 = masterCtime
                    THEN "changed" ELSE "same"
  /\ memAtCheck' = masterMem
  /\ UNCHANGED <<cur, entered, configs, masterCtime, masterMem, masterUp,
                 outages>>

\* CheckMemoryCreateTime: 0 ("same") before Regist recorded a time, or when
\* the query fails, or when the times agree; -1 ("changed") otherwise.
CheckMemoryCreateTime ==
  /\ cur = "binlog_sync"
  /\ LET v0 == QueryMemoryCreateTime
     IN  verdict' = IF masterCtime > 0 /\ v0 > 0 /\ v0 # masterCtime
                    THEN "changed" ELSE "same"
  /\ memAtCheck' = masterMem
  /\ UNCHANGED <<cur, entered, configs, masterCtime, masterMem, masterUp,
                 outages>>

\* FaultState::HandleEvent: exit(0).
FaultHandle ==
  /\ cur = "fault"
  /\ cur' = "exited"
  /\ UNCHANGED <<entered, configs, masterCtime, masterMem, masterUp, outages,
                 verdict, memAtCheck>>

Next ==
  \/ MasterRebuild \/ MasterDown \/ MasterUp
  \/ InitEnterFail \/ InitEnterOk \/ InitHandleRetry \/ InitHandleOk
  \/ RegisterEnterFail \/ RegisterEnterOk \/ RegisterHandle
  \/ CheckMemoryCreateTime \/ FaultHandle

\* The binlog-sync state runs the check periodically; an unreachable master
\* comes back.
Spec == Init /\ [][Next]_vars
        /\ WF_vars(CheckMemoryCreateTime) /\ WF_vars(MasterUp)

-----------------------------------------------------------------------------
TypeOK ==
  /\ cur \in States /\ entered \in BOOLEAN
  /\ configs \in 0 .. MaxConfigs
  /\ masterCtime \in {-1} \cup 1 .. MaxCtime
  /\ masterMem \in 1 .. MaxCtime /\ memAtCheck \in 1 .. MaxCtime
  /\ masterUp \in BOOLEAN /\ outages \in 0 .. MaxOutages
  /\ verdict \in {"none", "same", "changed"}

\* The comment on CheckMemoryCreateTime: once Regist has recorded the
\* master's creation time, the check returns 0 only when the master's memory
\* still has that creation time.
SameMeansUnchanged ==
  (verdict = "same" /\ masterCtime > 0) => memAtCheck = masterCtime

\* Once Regist has recorded a creation time and the master's memory is
\* rebuilt during binlog sync, a later CheckMemoryCreateTime reports it.
RebuildDetected ==
  (cur = "binlog_sync" /\ masterCtime > 0 /\ masterMem # masterCtime)
    ~> verdict = "changed"
=============================================================================

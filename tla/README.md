# TLA+ models of DTC

This directory holds TLA+ specifications of parts of DTC, the TLC
configurations that model-check them, and TLAPS proofs about them.
Everything here is written from the code under `src/`. Code that `src/`
only declares, whose bodies live in headers that are not in `src/`, is
modelled from `spec.md` and marked `spec_modelled` in `PROJECT.json`.

## The system and its parts

DTC is a shared-memory cache. `src/` contains the following parts.

| Part | Sources | What it does | Status |
|---|---|---|---|
| Hot-backup async file pair | `hwcserver/afile_pos.h`, `hwcserver/async_file.cc` | The hot-backup writer appends length-prefixed records to numbered memory-mapped files, and a reader in another process reads them back. The two share a control file with `WriterPos` and `ReaderPos`, each a `(serial, offset)` pair, and use no lock. | modelled: `AsyncFile` |
| hwc service states | `hwcserver/hwc_*_state.cc`, `hwc_state_base.h` | Init → register → binlog sync, and fault on any error. | modelled: `HwcService` |
| hwc registrar | `hwcserver/registor.h` | Registers with the master and checks whether the master's shared memory was rebuilt. | partly: `HwcService` (`CheckMemoryCreateTime`, `QueryMemoryCreateTime`) |
| Allocator | `core/mem/*.h` | Handle-based bins and coalescing. Only declarations are in `src/`. | not yet |
| NodeGroup and NodeID index | `core/nodegroup/ng_info.h`, `core/node/*.h` | Slabs of 256 nodes, and the 8/16/8-bit radix index. | not yet |
| Hash index | `core/algorithm/hash.h` | Modulo for 1/2/4-byte keys, a PJW hash otherwise. | not yet |
| Pond | `core/buffer/buffer_pond.h`, `core/misc/purge_processor.h` | Dirty, clean and empty LRU tiers, and purge. | not yet |
| Record layouts | `core/raw`, `core/tree`, `core/data` | Payload encoding, which is opaque to the core. | out of scope |
| Watchdog | `daemons/daemons.cc` | A self-pipe woken by SIGCHLD, and a bounded stop loop. | modelled: `WatchDog` |
| Alarm reporter | `libs/stat/stat_alarm_reporter.cc` | Reloads its configuration when the file's mtime changes. | modelled: `StatAlarm` |
| Compression, SQL rules, agent array | `libs/common/algorithm`, `rule/rule.cc`, `agent/` | Sequential utilities and string processing. | out of scope |

`PROJECT.json` lists every part, with the reason for each one that is not
modelled. It also lists the hazards: the places where the code can go wrong
in ways a unit test would hardly reach. Each hazard names the property that
covers it, or says why none does yet.

## AsyncFile: the hot-backup async file pair

### State

| Variable | Code |
|---|---|
| `data[s][o]` | Byte offset `o` of async file `s`. It holds a record id (the record's length prefix), `EndFlag`, or `Zero` for bytes that were never written. Only the offset where a record starts is tracked. |
| `made` | The files that exist on disk. `OpenForWriter` creates a file (`O_CREAT`), and the reader's `O_RDONLY` mount fails without one. |
| `wpos`, `rpos` | `WriterPos` and `ReaderPos` in the shared control file. |
| `wloc`, `rloc` | `_pos` of the writer's current file object and of the reader's. |
| `wst`, `rst` | The control point of each process. |
| `proc` | The reader's `_processing` flag. |
| `snap` | The fields of `WriterPos` that the reader has loaded so far. |
| `out` | What `Output` last handed to the caller of `Read`. |
| `nextId` | The number of the next buffer the caller gives to `Write`. |
| `garbled` | History, not a variable of the code: `Output` has handed out bytes from inside a record. |

### Actions

Every store to a shared position is a step of its own. The two stores of
`Shift` (`offset = 0`, then `serial += 1`) are the actions
`WriterSwitchOffset`/`WriterSwitchSerial` and
`ReaderSwitchOffset`/`ReaderSwitchSerial`. Each test the reader makes
(`IsTransient`, `EQ`, `GT` and the `GT` re-check after `usleep`) loads the
writer's serial and its offset in two steps (`LoadSerial`,
`LoadOffsetTest`), because `afile_pos.h` compares field by field.

Program order is assumed. `MEMORY_BARRIER` around each `Front` and `Shift`
keeps the compiler and the CPU from reordering the two stores.

The writer has these actions:

- `WriterOpen` is `CAsyncFileWriter::Open`.
- `OpenForWriter` and `OpenForReader` are `Mount`. The writer's `O_CREAT`
  creates the file. The reader's `O_RDONLY` requires the file to exist.
- `WriteRecord` is `Input` plus the `WriterPos` store in `Write`.
- `WriteEnd` is `Input`'s `WriteEndFlag` branch.
- `WriterOpenNext` and `WriterOpenFail` are the `NEED_SWITCH` branch up to `AddToList`.
- `WriterSwitchOffset` and `WriterSwitchSerial` are `SwitchWriterPos` and the recursive `Write`.

The reader has these actions:

- `ReaderOpen` is `CAsyncFileReader::Open`.
- `ReadStart` is `Commit` at the top of `Read`.
- The load/test steps are the tests listed above.
- `OutputRecord`, `OutputZero` and `OutputGarbage` are `Output` reading a record, a zero length, or payload bytes taken for a length.
- `OutputGarbage` either moves the reader by the garbage length, or faults when that length runs past the mapping.
- `OutputOverrun` is `IsReaderEnd` or the length read falling outside the mapping (`InMap` fails). The reader dies of SIGBUS and
  restarts through `Open`. This takes a mapped file's size to be a multiple of the page size.
- `ReaderOpenNext`, `ReaderSwitchOffset` and `ReaderSwitchSerial` are the reader's `NEED_SWITCH` branch.

A failed `OpenForReader` leaves `_asyncfile` NULL, so the reader stays in
`"logic"`. The Unlink in that branch does nothing, because its body is
commented out.

`WriterCrash` and `ReaderCrash` kill a process at any step. The mapped files
and the control file survive, and the process restarts through `Open`. The
constants `WriterCrashes` and `ReaderCrashes` switch crashes on and off.

### Instance and bounds

`MCAsyncFile` uses files of 16 bytes, four records with payload lengths
8, 4, 0 and 1, and serials 0..2:

- The 8-byte record fills file 0 up to its end flag at offset 12. The next
  two records, one of them empty, go to file 1, and the last one needs
  file 2. Both processes therefore cross every switch path.
- After the switch race the reader can take payload bytes of the 4-byte
  record for a length and land on offset 12 of file 1. That is exactly
  where the writer later puts file 1's end flag, so the garbage jump and
  what follows it are reachable.

The crash run has 27,843 distinct states, and TLC finishes in seconds.

### Runs

| Run | cfg | Expect | What it shows |
|---|---|---|---|
| `asyncfile_crash` | `AsyncFile_crash.cfg` | pass | Both processes may crash anywhere. `TypeOK`: every position stays inside the files. `InFlightUncommitted`: while the caller processes a record, `ReaderPos` is still before it, so a reader crash re-delivers it. `NextFileExists`: whenever `Output` meets an end flag, and the reader has not jumped by a garbage length, the next file already exists. |
| `asyncfile_switch_race` | `AsyncFile_switch_race.cfg` | violation | No crashes. `ReadsOnlyRecords` fails: the reader switches to file s+1 while the writer is between the two stores of its `Shift`. After `usleep`, the `GT` re-check sees the finished switch and `Read` goes on to `Output` without re-testing `EQ`. `Output` then reads the zero length of the empty file as a record. The cfg turns the deadlock check off, because a reader left without a file really stops. |
| `asyncfile_writer_crash` | `AsyncFile_writer_crash.cfg` | violation | `PublishedNeverOverwritten` fails: a writer that dies between `offset = 0` and `serial += 1` restarts at `(s, 0)` and overwrites file s. |
| `asyncfile_reader_crash` | `AsyncFile_reader_crash.cfg` | violation | `CommitNeverRegresses` fails: a reader that dies inside `SwitchReaderPos` restarts at `(s, 0)` and reads a file it had already committed. |

The three violations are recorded as findings in `PROJECT.json`.

`NextFileExists` is stated with `~garbled`. `garbled` is a history
variable, not a variable of the code: it records that `Output` has handed
out bytes from inside a record. After such a jump the reader can land on
the offset where the writer later puts an end flag, while `ReaderPos` is
still in the previous file. Its `NEED_SWITCH` open then targets a file
that does not exist yet, and `Read` returns `ERR_ASYNC_READER_LOGIC` for
good. That is a consequence of the switch race, which is already a finding.

Each property of the passing run has a mutant, a plausible bug that TLC
catches:

| Mutant | Property it breaks |
|---|---|
| `WriteRecordNoEndCheck`: `Input` without the `IsWriterEnd` test | `TypeOK` |
| `OutputRecordCommitNow`: the commit line left commented out in `Read` | `InFlightUncommitted` |
| `WriterOpenNextWrongFile`: `OpenForWriter` given the unshifted position | `NextFileExists` |

### Fairness

`Spec` has weak fairness on three things:

- **The reader's steps.** `Read` is called in a polling loop.
- **The writer's steps inside one `Write` call.** Once `Write` has started, it runs to its end.
- **`WriterOpen`.** The service reopens the writer after a crash.

Starting a new `Write` gets no fairness, because that is up to the writer's
caller. No liveness property is checked: after the switch race a reader
can end in `"logic"`, so "everything is delivered" does not hold.

### Proofs (`AsyncFile_proofs.tla`)

Both theorems hold for every file size, every sequence of record lengths,
every serial bound and every crash setting:

- `THEOREM TypeOKHolds == Spec => []TypeOK`
- `THEOREM InFlightUncommittedHolds == Spec => []InFlightUncommitted`

**`InFlightUncommitted`.** It is not inductive on its own. An `Output`
step sets `_processing` and moves the reader forward, and the proof needs
to know that `ReaderPos` equalled the reader's position just before.
`CursorInv` relates `rpos` and `rloc` at every control point of the
reader:

- they are equal whenever nothing is pending and no switch is under way;
- inside `SwitchReaderPos`, the reader already stands at `Shifted(rpos)`;
- `_processing` is set only at the idle point.

The proof is `Init => CursorInv`, then
`CursorInv /\ [Next]_vars => CursorInv'` with one step per reader action,
then PTL. The writer's steps are handled by `WriterStepKeepsReader`, and
the load/test steps by `LoadStepsKeep`.

**`TypeOK`.** The inductive invariant is

`TypeInv == TypeOK /\ CursorInv /\ RecordsFit /\ WriterRoom /\ SwitchBound`

and the added conjuncts say:

- `RecordsFit`: every record stored in a file fits, with room for an end
  flag after it. `Input` checks `IsWriterEnd` first. This conjunct is
  what keeps the reader inside the file when `OutputRecord` follows a
  length.
- `WriterRoom`: the writer's positions leave room for an end flag, or are
  at the front of a file.
- `SwitchBound`: `SwitchWriterPos` runs only after `OpenForWriter` has
  taken a serial below the bound.
- `CursorInv` is needed as well, because `ReaderSwitchSerial` bumps
  `ReaderPos.serial`, and only `rloc = Shifted(rpos)` shows that the
  result is still a serial.

`OutputGarbage` and `OutputOverrun` need no invariant. A garbage length
is at most what the mapping still holds, or the reader faults. `InMap`
is the guard of every `Output`.

The proof has one lemma per group of actions (`WriterType`,
`ReaderType`) and small record lemmas (`SetField`, `InPos`,
`RoomAfterRecord`, `RecordEndIn`). They are stated before
`USE ConstAssumption`, because the SMT backend does not handle record
`EXCEPT` or arithmetic on `RecLen[...]` in that context. `TypeInv` was
checked with TLC on the crash instance (27,843 states) before it was
proved.

### Proofs (`AsyncFileLayout_proofs.tla`)

`THEOREM NextFileExistsHolds == ~WriterCrashes => (Spec => []NextFileExists)`
holds for every file size, every sequence of record lengths, every
serial bound, and whether or not the reader dies.

**Why the writer must not die.** The hypothesis `~WriterCrashes` is
needed for the layout invariant below. A writer that dies inside
`SwitchWriterPos` restarts at `(s, 0)` of a full file and rewrites it
(the `asyncfile_writer_crash` finding), so the files are no longer tiled
by records below the writer. With writer crashes, `NextFileExists` is
only model-checked, by `asyncfile_crash`.

**The argument.** The argument centres on `WLog`, the position the
writer has logically reached. It is `wpos`, or `Shifted(wpos)` while the
writer is between the two stores of its `Shift`. The inductive invariant
is

`IInv == TypeOK /\ CursorInv /\ WriterInv /\ Layout /\ ReaderInv`

and its conjuncts say:

- **`WriterInv`** relates the writer's private position `_pos` to
  `WriterPos` at each control point of `Write`, and places the next file's
  creation before its end flag.
- **`Layout`** describes the data files below `WLog`:
  - every started file begins with a record (`Starts`);
  - every record fits the file, and is followed by a record, an end flag or
    `WLog` (`Records`);
  - nothing is written past `WLog` (`Beyond`);
  - an end flag stands only where the next file exists (`Flags`).
- **`ReaderInv`** says where the reader may stand. `RP(p)` holds when p is
  `WLog`, or a record boundary, end flag or record interior before it, or
  the place `Write` will retry at. It also records what the snapshot loads
  of `Read`'s `EQ`/`GT` tests may have seen.

`IInv` does not survive a garbage jump, because the reader then stands
at an offset no record starts at. So the proof shows that
`J == garbled \/ IInv` is inductive:

- `GarbledStays`: once `garbled` is set, it stays set.
- `IInvStep`: every step that leaves `garbled` false keeps `IInv`.
- `IInvNextFile`: `IInv` implies `NextFileExists`, through
  `EndFlagAhead`. When the reader is in `Output` at an end flag, it
  stands at `ReaderPos`, before `WLog`, and the next file exists.

There is one lemma per action. Two lemmas carry the framing arguments:

- `BelowKept`: a store at `WLog` leaves every cell below it unchanged.
- `ReaderKeepsLayout`: reader steps never write the data.

Before it was proved, `IInv` was checked as a TLC invariant, with reader
crashes and without writer crashes.

**What stays with TLC.** All liveness, and anything involving `ENABLED`,
is beyond TLAPS.

## StatAlarm: the alarm reporter

`src/libs/stat/stat_alarm_reporter.cc`. The statistics tool calls
`init_alarm_cfg` again and again. It reloads the file only when `stat()`
returns an `st_mtime` other than the one it keeps in `modify_time_`.
`report_alarm` compares the configured items with their thresholds once per
statistics checkpoint. The tool calls both from one loop, so `report_alarm`
never runs while a reload has the file open.

### State and actions

| Variable | Code |
|---|---|
| `fLines`, `fMtime`, `readable` | The alarm lines in the file, in order; its `st_mtime` (one-second resolution); and whether `open(O_RDONLY)` succeeds. |
| `writing`, `target` | An edit that has truncated the file and not yet written all of it. |
| `modTime`, `alarmCfg` | `modify_time_` and `alarm_Cfg_`. |
| `reading`, `roff` | A reload has the file open, and how many lines its reads have reached so far. |
| `overlapped` | History, not a variable of the code: an edit has written the file since the open reload opened it. |
| `statCp`, `chkpt`, `checked` | The statistics checkpoint, `report_alarm`'s static `chkpt`, and the items it last compared. |

`std::getline` reads through a stream buffer that `read(2)` refills. So a
reload is not one step. It is an open, one step per `read(2)` (any number
of further lines), and the read that meets the end. The operator can write
the file between any two of them. The reporter has these actions:

- `ReloadUnchanged`: the mtime is unchanged, and `init_alarm_cfg` returns.
- `ReloadOpenFail`: the mtime changed, `modify_time_` is already updated,
  and `open` fails.
- `ReloadOpen`: the file opens, and `alarm_Cfg_` is cleared.
- `ReloadRead`: the next lines the stream gets are split, and those that
  `parse_alarm_cfg` accepts are appended (none when `is_dtc_server`).
- `ReloadEOF`: `getline` meets the end of the file, and the file is
  closed.
- `ReportAlarm` is `report_alarm` on a new checkpoint.

The environment has these actions:

- `Tick`: the clock advances one second.
- `EditStart` and `EditFinish`: the operator edits the file. With
  `PartialWrites`, an edit first leaves a prefix of the new lines in the
  file. With `EditsApart`, each of the two writes lands in a new second.
- `Chmod`: the file becomes unreadable or readable again. It is enabled only
  when `OpenFailures` is set.
- `NewCheckpoint`: the statistics writer moves to a new checkpoint.

URL and cellphone lines are left out, because no property is about them.
A file that `stat` cannot see is not modelled either. In that case
`is_alarm_cfg_file_modify` returns true without touching `modify_time_`,
and the open then fails as in `ReloadOpenFail`.

### Properties

- `QuietReloadExact` (action property): a reload that no edit overlapped
  ends, at `ReloadEOF`, with `alarm_Cfg_` equal to the accepted lines of
  the file. It holds with every fault enabled.
- `EventuallyCurrent` (liveness): once editing stops and the file stays
  readable, `alarm_Cfg_` comes to hold the file's accepted lines, and
  keeps them.

A reload that an edit overlaps can end with a torn configuration: the
first lines of the old file and the rest of the new one, or only the
prefix a partial write had left. That is the atomicity hazard in
`PROJECT.json`. Whether it heals depends on the mtime check. In
`alarm_reload` every write lands in a new second, so the next reload
loads the whole file again. A write in the reload's own second hides the
change for good, which is the `alarm_same_second` finding.

An earlier version of this project had `AlarmConfig`, an abstract
specification in which a reload was one atomic snapshot of the file.
Once reads are steps of their own, the torn read shows that the code
does not implement it, so the abstract module was removed.

### Runs

| Run | cfg | Expect | What it shows |
|---|---|---|---|
| `alarm_reload` | `StatAlarm_reload.cfg` | pass (39,231 states) | Every write lands in a later second, and partial writes are on. `EventuallyCurrent` holds even after a reload has read a torn or half-written file. |
| `alarm_faults` | `StatAlarm_faults.cfg` | pass (206,172 states) | Same-second edits, unreadable files and partial writes are all on. `TypeOK` holds, and so does `QuietReloadExact`. |
| `alarm_same_second` | `StatAlarm_same_second.cfg` | violation | Two edits within one second leave `st_mtime` unchanged, so the second edit is never loaded. |
| `alarm_open_fail` | `StatAlarm_open_fail.cfg` | violation | `modify_time_` is updated before `open`. A failed open therefore makes the edit look loaded, and it is never retried. |

The mutants are:

- `ReloadEOFEarly`, which ends the read loop before the last line, breaks
  `EventuallyCurrent`.
- `ReloadOpenNoClear`, where `clear()` is dropped, breaks
  `QuietReloadExact`.
- `ReportAlarmOffByOne` breaks `TypeOK`.

The instance has three lines, one of which does not parse, and three
files: `<<"i1">>`, `<<"i2", "bad">>` and `<<"i1", "i2">>`. It has four
seconds and two edits. Two-line files can be read in one `read(2)` or in
two, and an edit can fall between them. That is enough for two edits in
one second, an edit across a reload, a torn read, and a reload of a
half-written file.

### Fairness

Both `Reload` and `ReportAlarm` get weak fairness, because the tool calls
both in its main loop on every cycle. The environment gets no fairness.

## HwcService: the hot-backup service states and the registrar check

The sources are `src/hwcserver/hwc_init_state.cc`, `hwc_register_state.cc`,
`hwc_fault_state.cc` and `registor.h`. `HwcStateManager` and the
binlog-sync state are not in `src/`. The model therefore assumes that a
state's `Enter` runs once after `ChangeState`, and that its `HandleEvent`
then runs repeatedly.

`Regist` is not in `src/` either. Its result is any of the three outcomes,
and the creation time it records is whatever `QueryMemoryCreateTime`
returns at that moment.

| Variable | Code |
|---|---|
| `cur`, `entered` | The current state, and whether its `Enter` has run. |
| `configs` | The `DTCConfig` objects that `InitState::HandleEvent` allocates and never frees. |
| `masterCtime` | `CRegistor::_master_ctime`. |
| `masterMem`, `masterUp`, `outages` | The master's memory creation time, and whether the master answers. |
| `verdict`, `memAtCheck` | The last result of `CheckMemoryCreateTime`, and the master's real creation time when that check ran. |

`MasterRebuild`, `MasterDown` and `MasterUp` are the master's actions.

The service's actions:

- `InitEnter*`, `InitHandle*`, `RegisterEnter*` and `RegisterHandle` are
  the error branches and the success branches of the state classes.
- `CheckMemoryCreateTime` is the registrar's check.
- `FaultHandle` is `exit(0)`.

### Runs

| Run | cfg | Expect | What it shows |
|---|---|---|---|
| `hwc_detect` | `HwcService_detect.cfg` | pass (861 states) | `RebuildDetected`: if the master's memory is rebuilt during binlog sync, a later check reports it. This needs fairness for `MasterUp`, because the master comes back. Mutant: `CheckMemoryCreateTimeInverted`. |
| `hwc_same_unreachable` | `HwcService_same.cfg` | violation | `SameMeansUnchanged` is what the comment on the check promises. It fails: a check that runs while the master is unreachable returns 0 ("same") after a rebuild. |

## WatchDog: the watchdog daemon loop

`src/daemons/daemons.cc`. `sighdlr` writes one byte to a non-blocking
self-pipe, and `run_loop` polls that pipe, drains it and calls
`check_watchdog`. After a stop request the daemon runs these steps:

1. It force-kills the children.
2. It loops, polling for one second at a time.
3. Every 5 s it re-signals the children, at most 6 times.
4. It exits.

`check_watchdog` and the stop handler are not in `src/` (they are
spec_modelled). `check_watchdog` reaps every exited child. The stop handler
sets `stop` and interrupts a `poll` that is already blocked.

| Variable | Code |
|---|---|
| `child[c]` | One of: running, signalled, zombie, reaped. |
| `sigPending` | A pending SIGCHLD. Pending SIGCHLDs coalesce. |
| `pipe` | The bytes in the pipe, up to `PipeCap`. A write to a full pipe is lost. |
| `pc` | The point `run_loop` has reached. |
| `revents`, `intr` | `POLLIN` when `poll` returned, and whether a stop signal interrupted a blocked `poll`. |
| `stop`, `stopretry` | The stop flag and the retry counter. |

### Runs

| Run | cfg | Expect | What it shows |
|---|---|---|---|
| `watchdog_run` | `WatchDog_run.cfg` | pass (2,596 states) | `NoZombieWhileIdle`: `run_loop` never blocks in `poll` with nothing pending while a zombie is unreaped, even with lost wake bytes and coalesced signals. `StopTerminates`: a stop request always ends in `exit(0)`, even when a child never dies. The run assumes that `poll`'s timeout eventually fires. Mutants: `CheckWatchdogOne` (one `waitpid` per call) and `StopRetryNoCount`. |
| `watchdog_stop_race` | `WatchDog_stop_race.cfg` | violation | Without the timeout, a stop that arrives between `if (stop)` and `poll` is not seen until `poll` returns on its own. That can take up to an hour. |

The instance has three children and a pipe of one byte. A full pipe, and
so a lost wake byte, happens after the second exit.

The fairness is as follows:

- `MainStep` gets weak fairness. The loop runs whenever it is not blocked.
- `Sighdlr` gets weak fairness. Signals are delivered.
- The `PollTimeout` fairness is added only in `SpecTimeout`.

## Proofs

### `StatAlarm_proofs.tla`

- `TypeOKHolds == Spec => []TypeOK`. `TypeOK` is inductive as it stands.
  The proof has one step per action. The environment's steps are handled
  by `EnvKeepsType`, and `EditStartKeepsType` shows that a partial write
  leaves a prefix of a file of `Configs` (`SubSeqProperties`).
- `QuietReloadExactHolds == Spec => QuietReloadExact` holds for every set
  of lines, every clock bound and every fault setting. The inductive
  invariant is `IInv == TypeOK /\ ReadInv`. `ReadInv` says that during a
  reload that no edit has overlapped, `roff` is within the file, and
  `alarm_Cfg_` holds exactly the accepted lines among the first `roff`
  lines (`ReadSoFar(roff)`). `ReadInv` was checked with TLC before it was
  proved. `ReadExtends` shows that a read of more lines extends
  `ReadSoFar`. `QuietStep` shows that at `ReloadEOF`, where
  `roff >= Len(fLines)`, `ReadSoFar(roff)` is `Expected`.

### `WatchDog_proofs.tla`

`NoZombieWhileIdleHolds == Spec => []NoZombieWhileIdle` holds for every set
of children and every pipe capacity. `NoZombieWhileIdle` is not inductive,
because `EnterPoll` moves the loop to `poll` without testing anything. The
proof strengthens it to `IdleInv`, which states the same thing at the top of
the loop and before `poll` as well. `IdleInv` is preserved for these
reasons:

- A child exit sets `sigPending`.
- `Sighdlr` leaves at least one byte in the pipe. Either it writes one, or
  the pipe is already full.
- `Check` reaps every zombie (lemma `CheckWatchdogReaps`).
- Nothing else at those points empties the pipe.

`TypeOKHolds` comes from the same induction. The proofs use only
`PipeCap \in Nat \ {0}`.

## Not modelled, and why

- `CAsyncFileChecker::Check`, a start-up check, is not modelled. Its only
  caller in `src/` is the unit-test `main`. Checking it by hand against
  the crash run's states shows how it meets the writer-crash finding:
  - It refuses the state when the reader is ahead of the rewound writer
    in the same file and the writer's offset is not 0, because
    `GT(ReaderPos, WriterPos)` then holds.
  - It misses the rewind while `WriterPos` is `(s, 0)`, because `GT`
    reads a zero offset as "switching files".
- The pond, NodeGroup, hash index and allocator are the core that `spec.md`
  describes. `src/` holds their headers but few of their bodies. They are
  planned as spec-modelled modules, with the inline code that is in the
  headers (`inc_empty_node`, `max_node_id`, `hash_slot`, `OFFSET1/2/3`)
  translated from the source.
- In the hwc service: the binlog-sync state, `HwcStateManager` and
  `Regist` are not in `src/` and are abstracted as described above.
  `InitState::HandleEvent`'s `DTCConfig` leak is bounded by `MaxConfigs`.
  It is listed as a hazard with no property, because the model does not
  track memory.
- In the watchdog: `check_watchdog`, `force_kill_allwatchdog` and the stop
  handler are modelled from their contract, not their bodies, which are
  not in `src/`.
- In the alarm reporter: the url and cellphone lines, and a failing
  `stat()`, are not modelled. A failing `stat()` makes
  `is_alarm_cfg_file_modify` return true without updating
  `modify_time_`. The open that follows fails too, which `ReloadOpenFail`
  covers, apart from the untouched `modify_time_`.
- The record layouts, SQL rules, compression and agent utilities are
  encoding and string processing, with no interaction to check.

# A verification project for NTFC

NTFC (NuttX Test Framework for Community) runs pytest tests on NuttX devices: a
simulator or QEMU process, a Renode machine, a board on a serial port. This
directory holds TLA+ models of its core logic, the TLC runs that check them on
small instances and TLAPS proofs for instances of any size.

Paths below are relative to the repository, except that `src/ntfc/` is the
Python package.

## 1. Inventory

The program is one process. Its main thread runs pytest; a heartbeat thread per
core, a reader thread per GDB controller and, in multi-session mode, a thread
per session run beside it. `run_parallel` maps short calls over cores and
products with a thread pool. Locks exist in the state manager, in the GDB
controller and around the resources of sessions; **no lock covers a device**.

| component | state it keeps | operations | interacts with | what makes it correct |
|---|---|---|---|---|
| state manager (`device/state.py`) | health (NORMAL, BUSY_LOOP, CRASHED, UNHEALTHY), crash type, time of last output | set_*, reset_all_states, update_activity, mark_command, check_busy_loop_timeout, check_crash | every reader of the device, the heartbeat, the pytest plugin | a fault stays until a reset; a crash has a type |
| heartbeat (`device/heartbeat.py`) | in-command flag, failure count, thread, stop event | enable, disable, the loop, the probe | sends commands on the same device as the main thread | probes only an idle device; declares a busy loop on the threshold; ends when disabled |
| device I/O (`device/common.py`) | log buffer, flood tail | send_command, send_cmd_read_until_pattern, _read_all, reboot | the transports, the state manager | every call returns; an answer goes to its command; no crash is overlooked |
| transports (`host.py`, `serial.py`, `renode.py`, flavours) | process or port, open cores | start, stop, reboot, read, write, kill | operating system | a stopped device is gone; a reboot begins with a clean record |
| core, cores, product(s) (`core.py`, `command_builder.py`, `cores.py`, `product*.py`, `parallel.py`) | list of cores, cached command list | sendCommand, switch_core, reboot, flags, start/stop | devices, in parallel | the status of a command tells crash, busy loop and timeout apart |
| test session (`pytest/mypytest.py`, `runner.py`, `collector.py`) | products, result directory, plugins | collect, runner, the loops, session finish | everything below it | starts before it uses, ends clean |
| verdict and recovery (`pytest/configure.py`) | recovery-failed flag, mark of failed items | runtest_setup, makereport, _device_reboot | product flags, debug setup | a faulty device fails the test and is recovered before the next |
| coredumps (`pytest/coredump_plugin.py`, `debug/coredump/*`) | prefixes, count, handlers | collect | GDB, ymodem, fastboot, log files | a failed test is dumped once, into a file of its own |
| GDB (`debug/gdb/*`, `debug/getdebug.py`) | process, reader thread, events, pending request | start, stop, setup, wait, restart_controllers | the device's process | talks to the present process; an answer goes to its request |
| multi-session (`multi.py`) | lock per resource, failure flag, build cache, results | sequential, parallel, merge | builder, sessions | sessions do not disturb each other; no deadlock; fail-fast |
| builder (`builder.py`) | build directories, boards | configure, tweak, build, flash | cmake, kconfig-tweak, tools | tests run the image of their configuration, whatever an earlier run left |
| logs and reports (`log/*`) | session directories, report files | new_session_dir, cleanup, split, summary, merge | runner, multi-session | counts agree with the verdicts; cleanup removes no more than its limits ask |
| signals (`pytest/signal_plugin.py`) | previous handlers | SIGUSR1, SIGTERM... | the running device | a diagnostic does not disturb a test |
| configuration, filters, CLI (`*config.py`, `testfilter.py`, `commands/*`) | the configuration | load, check options and commands, select tests | build directories | a test runs only where it can |
| test binaries' parsers (`parsers/*`, `pytest/parsers.py`, `pytest/gtest_plugin.py`) | caches of lists and results | discover, run | core | results are of this device |
| libraries | none | ELF, ymodem, fastboot, statistics | | agree with their formats |

What is hard: two threads on one device with only a flag between them; faults
that are noticed by whoever reads; a read-compute-mark sequence outside any
lock; recovery in the middle of pytest's own protocol, whose hook order decides
what each plugin sees; GDB sessions that outlive the process they are attached
to; build directories and boards that outlive the process and are shared by
sessions; bounded waits everywhere. `PROJECT.json` lists each such place under
`hazards`, with the properties that watch it or why none does yet.

## 2. Modules

| module | models | kind |
|---|---|---|
| `DeviceState` | the record of `DeviceStateManager` with the heartbeat's counters in it; one operator per method | state and operators |
| `DeviceMonitor` | the main thread and the heartbeat threads on one device: command stages, probes, reboot, enable and disable, the device and the clock | main specification |
| `DeviceHealth` | what the health record promises | abstract specification, implemented by `DeviceMonitor` |
| `HeartbeatHistory` | `DeviceMonitor` with a count of the probes missed in a row | history variable |
| `DeviceMonitorProofs` | theorems about `DeviceMonitor` and `DeviceHealth` | proofs |
| `TestSession` | one `ntfc test` on all its products: lifecycle, pytest protocol, verdict, coredumps, recovery, GDB attachment | main specification |
| `MCTestSession` | a coredump limit for each product | model checking |
| `TestSessionProofs` | theorems about `TestSession` | proofs |
| `MultiSession` | the sessions of a manifest in one process, sequential or in worker threads: locks, fail-fast, shared attributes, exit code | main specification |
| `MultiSessionProofs` | theorems about `MultiSession` | proofs |
| `GdbSession` | a GDB controller, the GDB processes it starts one after the other, the in-GDB plugin and the reader threads | main specification |
| `MCGdbSession` | the symmetry of the crash breakpoints | model checking |
| `GdbSessionProofs` | theorems about the types and the attachment of `GdbSession` | proofs |
| `GdbCoresProofs` | theorems about its corefiles | proofs |
| `DeviceLine` | the console of one device as a stream of tokens and the thread that talks over it: reads, patterns, status, the three kinds of transport, start, stop, reboot | main specification |
| `MCDeviceLine` | which callers use which operations | model checking |
| `DeviceLineProofs` | theorems about `DeviceLine` | proofs |
| `ImageBuild` | `NuttXBuilder` on directories that outlive the process: a step per external command | state and actions, used by `Campaign` |
| `Reports` | JUnit reports, their split and counts, the retention rules | operators, used by `Campaign` |
| `Campaign` | the invocations of ntfc on one host, one after the other, each of which builds, flashes, filters, runs, reports, or is killed | main specification, composes the two above |
| `MCCampaign` | the commands, configurations and result histories | model checking |
| `CampaignProofs` | theorems about what `Campaign` builds, flashes and tests | proofs |
| `ReportProofs` | theorems about what it reports and which results it keeps | proofs |

### DeviceMonitor

A thread's control state `pc` names the stage of the code it is at. A command
goes `write -> read (drain) -> loop -> check -> ... -> end`, where each poll of
`_read_all` is a step of its own (`PollText`, `PollEmpty`, `PollSilent`,
`PollCrash`), the classification is a local `verdict`, and recording it
(`Declare`) is a *later* step, because the code takes the state lock only there.
A probe is `wait -> health -> (the same command stages) -> outcome -> declare ->
clear`; `MonitorWakes` evaluates `_should_check_heartbeat` under the lock,
`MonitorProbes` sets the flag after it. The main thread starts commands, and
start, stop and reboot, which are `stop -> poweroff command -> kill -> reset ->
spawn -> wait for the prompt`. The operators of `DeviceState` are the critical
sections.

Abstractions. Output is a set of owed answers and at most one crash banner,
not characters. Time is four flags: recent activity, an expired read deadline,
an expired boot deadline, expired silence; the clock may set each at any moment
it could expire. A probe interval is left to chance. A second `_read_all` inside
one poll is folded into the poll. Locals that are dead at the end of a command,
and a deadline of a thread that has none, are reset there. Callbacks of a transition only log, and are left out.

### DeviceHealth

Two variables, the state and the crash type, and three steps: a crash, another
fault, a recovery. `HealthRefined` says that every step of `DeviceMonitor` is one
of these or changes neither; the mapping is the identity on
`currentState, crashType`. The content is in what the threads could do wrong: a
reset that keeps a type, a late verdict that overwrites the type of a crash.

### TestSession

The main thread's `stage` walks the code: `start` (`_device_start`), `collecting`,
`stop`, again `start`, `attach`, then for each test `setup`, `call`, `teardown`,
after each of which its report passes two hook wrappers in the order pytest
gives them: `report` and `dump` are CoredumpPlugin, `judge`, `reboot` and
`reattach` PytestConfigPlugin. A product has a fault, a liveness flag and a GDB
that is off, current or stale. `Rebootable` separates the devices whose reboot
works from serial devices without a reboot command, which answer False to a
caller (`ProductsHandler.reboot`) that does not listen.

`Finish` disables the heartbeats. `_stop_monitor_thread` joins each thread for five
seconds and then forgets it, and a probe lasts longer (its timeout of ten, and the
drain): such a thread is in `straggling`, may go on finding its device at fault while GDB is
detached and the device is stopped, and is over at `StragglerEnds`. A GDB that cannot be killed
(one run by `sudo`) makes `stop` raise: `ReattachRaises` costs the recovery an attempt,
`DetachRaises` leaves the devices as they are, and `NoSession` is an exception of the first
attachment, or a command line that pytest refuses: no test runs and no
`pytest_sessionfinish`, `mode` is `broken`, but the `finally` clause of `runner` runs all
the same.

Abstractions. The four fault flags of a product are read at one moment (the code
reads them one after the other). pytest's `runtestprotocol` is external: setup,
call if the setup's report passed, teardown. `-x` and the session timeout are the
freedom of `LastTest` to come early. `attempt` and `outcome` are reset where
the code's locals go out of scope. Tests have distinct names and none is marked
xfail. pytest-timeout firing inside a recovery is not modelled, nor that the ymodem
handler may restart the device of the product it dumps. `faultSeen` and
`rebootedByTest` are auxiliary: no guard reads them.

### MultiSession

The main thread's `phase` is that of `MultiSessionRunner.run`. A session goes
`waiting -> locking -> check -> init -> start -> test -> stop -> mark -> unlock ->
done`: `Begin` is its turn in `_run_sequential` or its worker's start, `Acquire`
takes one lock of the sorted list and `Release` gives one back in the same order,
`CheckFailFast` to `MarkFailure` are `_run_session`, and the middle of it is
`MyPytest.runner`. A set-up or start that raises goes straight to the locks, a run that
raises first to `StopDevices`, both past `MarkFailure`, as the code does. `owner`
is the one shared attribute that is kept, `pytest.products`: `InitPytest` assigns
it, everything after it reads it. Every manifest (options and the resources of
each session) is an initial state.

A session is four steps here, `TestSession` in detail: its faults, verdicts and
recoveries decide only whether it passes, fails or raises. The build phase is one
step that succeeds or not. `pytest.result_dir`, `pytest.task` and the other shared
attributes go the way of `products`; the moment between a worker's assignment of
`result_dir` and its reading it back (`mypytest.py:368-376`) is left out, as are
the merge of the reports and the printed summary. Without workers the resources
are ignored, as in the code. Locks are numbered in the order of their `id()`.

### GdbSession

Three kinds of actors. The *caller* is the main thread in `DebugSetup` and
`GdbHandler`: `pc` is `down`, then `ready` and `attach` (the two waits of `start`),
`up`, and from there `gcore` (`generate_coredump`), `harvest` (`wait_corefile`), or
`quit` and `join` (`stop`). *GDB* executes the commands in `stdin` in order and
prints lines to `stdout[gen]`; while the target runs it reads no command, and
`BreakpointHit` is `AutoBp.stop` at a crash with the stop event after it, and
`LeakBreakpointHit` the same at `reboot_notifier_call_chain`, where `ntfcmmleak` writes a
corefile if the target is about to go down with a leak. `TargetStops` is a stop the plugin
does not resume from, at a breakpoint of the user's or by a signal. The *reader* of
each GDB takes its lines one by one (`ReadLine`) and at the end sets the three
events one after the other (`ReadEof`). `Spawned` starts the reader of a new GDB
whatever the earlier ones are doing: `stop` waits five seconds for its reader, a
start that times out not at all, and the events, the flag `attached` and the
corefiles are shared by all of them.

Abstractions. A command and a line are records of a kind and what it carries; the
kinds are those the code matches. GDB prints that it is attached only when it is.
A wait may run out whenever its event is not set. A start without a PID and an
attach refused by GDB are both in the model; `setup_cmds` may do anything to
`running` and nothing else. A panic forced by `gdb_handler` is a crash of the
device like any other. The text of the leak report is left out; `Leaky` says under which GDBs
there is one. `crashed` is the device's; the code asks `product.crash`, which is set when
somebody has read the crash. That may be at once, later or never, so `AskHarvest` may
follow a crash, and `AskGcore` is always possible. A corefile is known
by who wrote it, of which boot, and for which request or breakpoint. `clean` (the
earlier readers had ended when this GDB was started), `late` (a request to it timed
out) and `handed` are auxiliary: no guard reads them.

### DeviceLine

`DeviceMonitor` has several threads and no text; `DeviceLine` has one thread and
text. The target is a shell with a queue of lines (`input`), the tokens it has yet
to print (`toPrint`) and those nobody has read (`wire`). The caller's `pc` walks the
code: `drain -> write [-> garbage on a serial line] -> first -> loop -> check ->
.. -> flush` for `send_cmd_read_until_pattern`, `drain -> write -> read` for
`send_command`, `boot` for `_wait_for_boot` around it, `kill`, `open` and `connect` for
the life of the device; `call.phase` says which of these a start or a reboot is in.
A step of a stage is one `_read`, so a chunk ends anywhere. `PatternAt` and
`NotFoundAt` are the patterns of `CommandBuilder`, with the places at which they
match, and `Status` asks which comes first. Transports are `host` (pexpect on the
process: simulator, QEMU), `socket` (a process and a console beside it: Renode) and
`serial`.

Abstractions. A token is a prompt, the prompt of a remote core, an echo, the text of
an answer, "command not found", or one half of a crash signature, and belongs to
the call that is under way or to nobody (`Disown`). A command is known to the target
or not. A caller uses only the operations of one suite (`Suites`); every operation
is in the suite of each transport that implements it in its own way. `since` and the
field `quiet` are auxiliary: no guard reads them. Floods, silence, IO errors and
the heartbeat are `DeviceMonitor`'s. The device log, `get_current_prompt`, fail patterns
and the lookups of `check_cmd` in an ELF or in `help` are left out, and so are
several cores on one device.

### Campaign, ImageBuild, Reports

`phase` is where an invocation is: `key` and `build` for each configuration, then
`collect`, `cleanup`, `mkdir`, and `start`, `run`, `finish` for each session, `merge`. Under
`build` the builder has a `step` per external command, and each may fail (`Fail`); at any moment
the process may be killed. Either leaves build directories, boards and result
directories as they are, and the next `Invoke` finds them. An image is known by its
defconfig, its options and its environment, a `.config` by its defconfig and its
options, of which those switched on by `kconfig-tweak` are `bare` until
`olddefconfig` has added what they unlock: CMake drops such an application.
`BuildKey`, `LookUp` and `Used` are the sharing of builds in a manifest, which hands the
whole configuration of the first session on. `KvCheck` and `CmdChecks` read the build
directory; what runs is on the board (`Running`). `RunTests` gives each test any
outcome; `ResultSummary`, `MergedReport` and `SessionCounts` do with them what the
reporter does.

Assumed of CMake: what it compiles is compiled under the present environment
(`Compile`). `builder.py` passes the environment to `cmake -B` and `cmake --build`, but CMake
keeps a compiler and flags that it took from `CC` and `CFLAGS` when the directory was
configured first; an environment that changes between two invocations may
reach the image only after the directory is removed.

Abstractions. Manifests run in sequential mode (`MultiSession` has the other one).
Loops, the session timeout, `exitonfail`, `nologs`, module order, include and exclude
lists are left out, and the contents of an application image. Result directories
have distinct names, as two that begin in one second do not. A session is one step
that passes, fails or does not start (`TestSession` in detail).

## 3. Runs

| run | instance | shows |
|---|---|---|
| `monitor_safety` | 1 heartbeat thread, 2 crash types, threshold 2 | type correctness, `FlagMeansCommand`, `FailuresBounded`, `VerdictNeedsThreads`, `NoCrashDropped`, refinement `HealthRefined` |
| `monitor_liveness` | 1 heartbeat thread, 1 crash type, threshold 1 | `CallsReturn`, `MonitorsStop` |
| `heartbeat_interference` | as the first, 1 crash type | *violated* `NoAnswerStolen`: a probe eats a command's answer |
| `heartbeat_threshold` | 1 thread, threshold 2 | *violated* `ThresholdHonoured`: two missed probes, no busy loop |
| `session` | 2 products (1 rebootable), 1 test, 2 loops, 1 retry, dump limits 2 and 1 | `TypeOK`, `DumpsFromLiveTarget`, `NoFaultyRunPasses`, `ShutdownQuiet`, `NoBodyAfterFailedRecovery`, `DumpsKept`, `SessionEnds` |
| `session_recovery` | 1 product, 2 tests | *violated* `RemainingSkipped` |
| `session_coredump` | 1 product, 1 test, no heartbeat | *violated* `CrashDumped` |
| `multi_session` | 3 sessions, 2 resources, every manifest | `TypeOK`, `ResourceExclusive`, `CrossUseOnlyIfDisjoint`, `FailFastStopsSharers`, `OkMeansAllPassed`, `NoCircularWait`, `RunEnds` |
| `gdb_session` | 2 GDBs, 2 boots, 2 requests, 2 crash breakpoints (symmetric) and that of the leak check, which finds a leak under the first GDB | `TypeOK`, `HandedOnce`, `AnswerIsOwn`, `StartVerified`, `OneDumpPerCrash`, `HarvestPrefersPresent` |
| `device_line` | 3 transports, 8 suites of calls, chunks of 1 token, 2 tokens on the wire, 1 line ahead | `TypeOK`, `AnswerIsOwn`, `ListingIsTrue`, `RebootIsReal`, `CallsReturn` |
| `campaign` | 9 commands (3 manifests), 3 invocations, 3 directories, 1 board, 3 options, 2 histories | `TypeOK`, `RebuiltMatchesConfig`, `TestsHaveTheirOptions`, `ImageFitsSession`, `VerdictAgreesWithCounts`, `RetentionLeast`, `InvocationEnds` |
| `multi_isolation` | 2 sessions, 1 resource | *violated* `SessionsIsolated`: tests run on another session's products |

Bounds. One heartbeat thread is what the code means to have; a second one, left
behind by a join that timed out, is in the model (`Join` forgets a live thread)
and covered by the theorems, but two exceed a run's time. Two crash types are
needed for "the type of *this* crash", one is enough for a crash beside a probe in the
liveness run. A threshold of two is the least at which
consecutive failures matter, and one the least at which the heartbeat's verdict
is reached at all, so the liveness run takes one. Two products, one of each
kind, are enough for a fault of one to reboot both and leave one behind; two
loops over one item make its mark meet a later loop; the product that reboots may be
dumped in both loops, the other one meets its limit in the second. The only counters of these sessions are
bounded by the code itself (tests times loops, retries, limit), so their runs cut
no behaviour short. `GdbSession` bounds the GDBs started, the boots and the
requests: two GDBs are the least for a reader to outlive its own, two boots
the least for a crash to be stale, two requests the least for a late answer, two
crash breakpoints the least for a sibling. A leak under the first GDB is the least for its
corefile to be kept over a restart, or to be taken for the answer to a request.
`DeviceLine` bounds what the operating system keeps of the output (`MaxWire`) and of the
input (`MaxInput`): beyond it the target waits, or a line is lost. Chunks of one token
part every two tokens at some read; two tokens on the wire are the least for a
drain to leave one behind, and a crash dump of one signature has two tokens.
`Campaign` bounds the invocations (`MaxRuns`): the first one may leave something behind,
the second may fail over it, the third recovers. Its commands differ where the
properties look: overrides that a core adds or takes back, an option without what
it depends on, a manifest that shares a build, a board or a directory, images built
elsewhere, `rebuild` and `flash` on and off. One history meets all three retention rules, the other
none at first.
Two resources are the least for a cycle of locks, and a third session the least
for one that overlaps with both of two disjoint ones.
`CHECK_DEADLOCK FALSE` is used for `TestSession` and `MultiSession`, which end, and
for `GdbSession` and `Campaign`, which stop at their bounds.

Fairness. `DeviceMonitor`'s `Fairness` gives weak fairness to the steps of each
thread and to the clock: the operating system schedules runnable threads, every
wait in the code has a timeout, and time passes. Nothing is assumed of the
device. `TestSession`'s `FairSpec` is weak fairness of the main thread's step:
test bodies end because NTFC always passes `--timeout` to pytest, and the calls
to a device return, which is what `monitor_liveness` checks. `MultiSession`'s
`FairSpec` is weak fairness of the main thread and of each worker: threads are
scheduled, a session ends (`SessionEnds`), and a lock that is asked for stays
enabled while it is free. A lock need not be fair: each is given back for good
after one session, so nobody is overtaken for ever. `DeviceLine`'s `FairSpec` is
weak fairness of the thread, of each read's end (its timeout) and of the clock; the
target owes nothing. `Campaign`'s is weak fairness of the program's own steps: external
commands and sessions end, well or not; nobody need type another command.

### What the passing runs say

Beside what their names say, some of these properties have conditions, and each condition
is a place where the code gives less than one would expect:

* `AnswerIsOwn` is about a *quiet* line: nothing under way when the command is sent, and no more
  to read than the drain before it takes. Otherwise the prompt that a timed-out
  command prints late ends the next command at once. On a serial line the read that drops the
  echo may drop the answer, so a success there may come with an empty output.
* `ListingIsTrue` is about a listing asked for on a quiet line *of a simulator or a socket
  transport* (`Listing` sets `quiet` on these only): from a stale prompt an empty listing is cached
  for good, and on a serial port also from a quiet line, since the read that drops the echo may take
  the names with it.
* `CallsReturn` of `DeviceMonitor` is about calls that print without end, crash, fall silent or lose
  their process, on the main thread and on the heartbeat's.
* `ShutdownQuiet` is about a run whose session took place. The collection leaves the heartbeat enabled
  while it stops the devices, and so does a run that never got to its session (`broken`):
  only `pytest_sessionfinish` disables it. It says that the heartbeat is disabled and no GDB attached; of the
  probes it says what the code gives: a device that is down is found faulty only by one
  that was under way at the end of the tests and outlived its join (`heartbeat.py:194-201`).
* `AnswerIsOwn` of `GdbSession` lets `generate_coredump` answer with a corefile that GDB wrote by
  itself, at a crash or for a leak: the reader takes every "Saved corefile" for the answer
  (`controller.py:442-447`). For the same reason a harvest after a crash may
  hand out the corefile of a leak. Neither is ever that of another request.
* `RebootIsReal` says that a restarted emulator has booted whenever `reboot()` answers True. Of a
  soft reboot, and of the reset of a board, it says less, as the code does: on a line that is not quiet
  the shell that is about to go may answer; on a quiet one the prompt is a new one, but
  of a boot only if the command did something. `reboot(hard=False)` ignores the response to its
  command (`common.py:532-535`), and nobody looks at what a reset command did to the board
  (`serial.py:205`): a shell that says "command not found", or refuses (`TargetRefuses`), prompts
  again, and the caller reads True, which the docstring calls "the reboot was
  successful". `since` tells the three cases apart.
* `RebuiltMatchesConfig` asks for `rebuild`: without it any image that is there is taken. A
  `.config` left half tweaked by a killed invocation is built as it is when the next one
  has no overrides.
* `ImageFitsSession` and `TestsHaveTheirOptions` except sessions whose builds go to one directory
  or board, where the last one wins for all, and what the cores of a shared build set.
* `VerdictAgreesWithCounts` says `passes = errors + ...`: the summaries count a test with an
  error as passed *and* as an error. It says nothing of the merged report, which is always
  empty: the summary of each session has removed the `report.xml` that the merge looks for.
* `RetentionLeast` is stated of the cleanup; the directory made right after it may exceed the count
  by one.

### What the violations say

* **The heartbeat threshold is never reached.** `usage.rst` promises BUSY_LOOP
  after `threshold` failures in a row. The probe is sent through
  `send_cmd_read_until_pattern`, whose `mark_command` wrapper ends with
  `_heartbeat_failures = 0`; then one is added. With the default threshold of
  three the heartbeat never declares anything. `VerdictNeedsThreads` is the
  exact positive statement, checked and proved.
* **A probe can run inside a command.** `_check_heartbeat` sets the flag after it
  has released the lock under which it looked at it.
* **Remaining tests fail instead of being skipped** after a failed recovery, and
  each costs a new round of reboots: the skipped setup is judged while the
  device is still faulty.
* **A crash under a passing body is not dumped.** The coredump plugin sees the
  report before the verdict plugin turns it into a failure, and then the device
  is rebooted.
* **Parallel sessions run on each other's products.** `multi-session.rst` promises
  that sessions without resources run fully in parallel, but they are threads
  that share the attributes of the `pytest` module. `CrossUseOnlyIfDisjoint` is
  the bound of the harm: never in sequential mode, never between sessions that
  share a resource.

## 4. Proofs

Every theorem is for all values of the constants under the `ASSUME`s of the
module: sets are finite, numbers natural, `Runner` is not a monitor, model values
that stand for different things differ.

`DeviceMonitorProofs`.
* `TypeCorrect`: one lemma per actor (`CommandTypeOK`, `MonitorTypeOK`,
  `RunnerTypeOK`, `EnvironmentTypeOK`), control by `MoveOK`.
* `HeartbeatInvariant` is inductive: type correctness, `FlagMeansCommand`, and
  `FailureBudget`. `FailuresBounded` alone is not inductive. The budget says who
  owns each counted failure: a monitor between the end of its probe's command
  and its next reset. A thread counts only after its own `EndCommand` cleared the
  count, so the owners are different threads and the count is at most their
  number. `FlagIsReleased`, `FailuresStayBounded`, `HeartbeatNeverDeclares`
  follow.
* `CrashesAreKept`: only the steps of `HealthAction` touch the record
  (`HealthFrame`), and each keeps the signature with its thread until recorded.
* `HealthIsRefined`: the step simulation of `DeviceHealth`, with type correctness
  as the invariant it needs; `KindFollowsHealth` is proved of the abstract record
  and transferred.

`TestSessionProofs`.
* `SessionTypeCorrect`: by groups of actions; `ItemOK` is the arithmetic of the
  loops.
* `FaultsFailTheSession` from `VerdictInv`: a marked item has failed the session.
* `FailedRecoveryStopsBodies` from `RecoveryInv`, which follows the report of a
  failed recovery through the rest of pytest's protocol: a failed setup or call
  never leads to a call, and every later setup is skipped, whatever the judgement
  makes of it.
* `DumpsAskLiveTargets` from `GdbInv` and `RecoveryInv`: a stale GDB means a
  recovery is under way or failed, and after a failed one nothing is dumped.
* `ShutdownIsQuiet`, an action property, from `ShutdownInv` (in a run whose session took place the
  heartbeat is disabled before the detachment and no GDB is attached after it) and `ShutdownFaults`: in these stages only a device that is up or
  `Probed` changes its fault, and with the heartbeat disabled the latter is a straggler's.
* `DumpsAreKept` from `DumpInv`: the prefixes of an item grow, so the file about
  to be written is new; the counting is `DumpAddsOne`.

`MultiSessionProofs`, for every number of sessions and resources and every
manifest.
* `MultiTypeCorrect`.
* `ResourcesExclude` and `LocksNeverCircular` from `LockInv`: a lock has one
  holder, a session past its acquisition holds all it needs, and while it acquires
  every lock it holds is less than every lock it lacks. Were all sessions waiting,
  the greatest lock waited for would have a holder, which waits for a greater one.
  `GreatestLock` supplies the greatest one, from the well-foundedness of `<`.
* `UseOfOthers` from `UseInv`, with `LockInv` for the parallel and `OrderInv` for
  the sequential mode: when `InitPytest` takes the attributes over, whoever is
  under way holds disjoint locks, or nobody is.
* `FailureStopsSharers` from `FailInv`: the event is set before the first lock is
  given back, so a sharer that gets its locks finds it set.
* `SuccessMeansAllPassed` from `ExitInv` and `OrderInv`: a report covers all
  sessions or the failure that ended the loop, and nobody is under way then.

`GdbSessionProofs`, for every number of GDBs, boots, requests and breakpoints.
* `GdbTypeCorrect`: the state in five parts, each step by the parts it disturbs.
* `StartsAreVerified` from `AttachInv`. The flag that `start` trusts is set by a line
  of any GDB, so the invariant is about lines and readers: if the earlier readers
  had ended, only the present GDB's lines are read (`EarlierEnded`, `LaterSilent`),
  such a line is unread only if GDB is attached (`LinesTrue`), and neither the flag
  nor the caller says more (`FlagTrue`, `UpAttached`).

`GdbCoresProofs`, for the same. A corefile is written, then a line nobody has read,
then an entry of `corefiles`, then handed out; the invariants follow it.
* `CrashesDumpOnce` from `CoreInv`: while the breakpoints of a GDB are armed, or may
  still be, nothing written is of a crash breakpoint of this GDB, and as long as the one
  of the leak check is, nothing of that one (`ArmedOnce`, per breakpoint: one is `Spent` when it has
  fired); a GDB runs `setup` once. So the property holds without its condition on the boot.
* `CoresAreHandedOnce` from `HandedInv`: what was handed out is `consumed`, and what a
  caller is about to take is kept and not consumed.
* `AnswersAreOwn` from `AnswerInv`. All that is of requests, in the input and the output of
  GDB, is of the one outstanding, and its end comes after its corefile (`InOrder`); a request
  that timed out breaks this, which is what `late` remembers.
* `HarvestsPreferPresent`, an action property, from `PresentLast`: with no reader beside its own,
  the corefiles of the present GDB are the latest ones, so the search from the end meets
  them first.
They rest on `SpecAssumption`: a request, a crash breakpoint and the one of the leak check are told
apart.

`DeviceLineProofs`, for every chunk and buffer size, every number of signatures, and
every suite of calls, also those that use all operations at once.
* `LineTypeCorrect` from `TypeOK` and `Shape`, which says where a call can be (`PhaseOK`) and which
  of the texts are empty there. Neither is inductive alone: what a reboot spawns depends on
  its phase.
* `RebootsAreReal` from `RebootInv`: as long as the target has not booted, no prompt is on
  its way that the drain will not take (`Clear`), and the target does nothing before it
  reads the command to reboot (`Mute`); so the prompt that `_wait_for_boot` meets is of a
  new boot, or follows a command that was ignored. `Heeded` adds that an emulator's restart is not.
* `AnswersAreOwn` and `ListingsAreTrue` from `AskInv`: of a command given on a quiet line, every
  token that is kept, on the wire or yet to be printed is its own, but those that the
  drain takes (`TargetOurs`); and but on a serial line the word that tells whether the
  command is known comes before any prompt of its own in all of them together
  (`AnswerInOrder`). The second part is over the concatenation, since a read moves
  tokens from one text to the next at any place.

`CampaignProofs`, for every set of commands (any configurations, overrides and manifests),
and any number of directories, boards, options, tests and invocations.
* `CampaignTypeCorrect` from `TypeOK` and `Shape`, by builder command. `Shape` says where the
  builder can be and what the directory it works in holds at each step (`WorkOK`): from
  the first configure on a `.config` of the core's defconfig, complete after
  `olddefconfig`, with the applications registered after the second configure.
* `RebuildsMatch` from `MatchInv`, over the cores built so far (`Ready`). A directory may be
  rebuilt for another core of the invocation: while the builder works in it only a
  `.config` is promised, and between the tweaks and `olddefconfig` not even that it is complete.
* `ImagesFitSessions` from `FitInv`, `BoardInv` and `KeyInv`: an image fits the core it was built for, a
  board has the image of the core it was flashed for, each unless another core of the
  invocation uses the directory or board (`Separate`, by what is `Handled`: the cores of all
  builds, those built elsewhere and flashed here too), and a session uses a build with its own key.
* `TestsAreSupported` from `MatchInv`, `BoardInv` and `CollectInv`: nothing is built between the
  look into the build directory and the test.
They rest on the types of the commands and configurations (`TestAssumption`, `KconfigAssumption`,
`PrebuiltAssumption`) and on `NoneAssumption`. That options depend on each other, and how, is of no
importance to them.

`ReportProofs`, for the same, any number of modules and any limits.
* What the totals are made of, `MapThenSumSet`, is a recursive function over subsets. `SumsExist`
  shows that there is one, by the size of the subsets; the rest is about any function with the
  equation of the partial sums (`Sums`): sums are natural and zero only if all terms are (`SumsNat`), add up
  (`SumsPlus`), grow with the set (`SumsMore`), and depend neither on the element that is taken first (`SumsAny`)
  nor on the names of the terms (`SumsRenamed`). Each is an induction on the size of a set, made by
  taking the least size that fails (`LeastNat`).
* `VerdictsAgree` from `VerdictInv`: what a result directory holds are the results of one run of tests
  and the verdict on them, or nothing (`Reported`), and the loop over the sessions stopped early only
  after a failure. `SplitCounts` is what splitting a report by module keeps of its counts.
* `CleanupIsLeast`, an action property, from `DirsInv`, the order of age. Every rule removes the oldest
  directories up to some one (`RemovalsFirst`; for the sizes because sums grow), so their union does, and the last
  one removed violates the limit of the rule that removed it (`LimitsMet`).
They rest also on `IsFiniteSet(Tests)` and on `HistoryAssumption`, that the directories are in order of age.

Only model-checked: the liveness properties (`CallsReturn`, `MonitorsStop`, `SessionEnds`, `RunEnds`,
`InvocationEnds`), which rest on fairness and ENABLED. Every other property of a passing run is
the statement of a theorem. The violations are TLC's.

## 5. Plan

Done: `DeviceMonitor`, `TestSession`, `MultiSession`, `GdbSession`, `DeviceLine` and `Campaign`, each with
its proofs. Open, in this order:

1. `TestBinaries`: the parsers of test binaries over `DeviceLine`, with the caches that
   outlive a session.
2. Several cores on one device: the threads of `run_parallel` over `DeviceLine`.

### Not modelled, and why

* The constant tables of operating systems and simulators: they are the CONSTANTS and the
  tokens of the models.
* `LogHandler`, the device log and its pending events, the text of reports and pages, option
  parsing, collected items and formatters: text.
* The signal handlers: SIGUSR1 calls `sendCommand` inside whatever call the main thread is
  in, which needs a control stack in `DeviceMonitor`; the others print.
* The ymodem, fastboot, log file and system log coredump handlers, and the ELF, ymodem, fastboot and
  performance libraries: external tools and pure functions, without shared state.
* `run_parallel` over the cores of a product, and cores that share a device.

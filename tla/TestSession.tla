---------------------------- MODULE TestSession ----------------------------
(***************************************************************************)
(* One `ntfc test`: MyPytest.collect and then MyPytest.runner on the same   *)
(* products, the pytest protocol of every test with the hooks ntfc puts     *)
(* into it (PytestConfigPlugin, CoredumpPlugin, RunnerPlugin), the recovery *)
(* of a faulty device and the lifecycle of the GDB controllers.            *)
(*                                                                         *)
(*   start -> collecting -> stop -> start -> attach ->                     *)
(*     (setup | call | teardown -> report -> [dump] -> judge -> [reboot ->  *)
(*      reattach] -> next)* -> finish -> detach -> stop -> ended           *)
(*                                                                         *)
(* The main thread takes every step but those of the environment: a device  *)
(* may be marked faulty whenever somebody reads its output (the main thread *)
(* in a stage that talks to it, the heartbeat thread at any time), and may  *)
(* exit at any time.  How a fault is detected is DeviceMonitor's business.  *)
(***************************************************************************)
EXTENDS Naturals, FiniteSets

CONSTANTS
    Products,       \* the products of the session, each with one core
    Rebootable,     \* those whose reboot does something: a serial device
                    \* without a reboot command answers False and is left alone
    Items,          \* number of collected tests
    Loops,          \* config.loops
    MaxRetries,     \* recovery.max_retries
    DumpLimit,      \* debug.coredump.limit of each product
    Heartbeat       \* heartbeat.enabled

ASSUME ProductAssumption == IsFiniteSet(Products) /\ Rebootable \subseteq Products
ASSUME NumberAssumption ==
    /\ Items \in Nat \ {0} /\ Loops \in Nat \ {0}
    /\ MaxRetries \in Nat \ {0} /\ DumpLimit \in [Products -> Nat]
ASSUME SwitchAssumption == Heartbeat \in BOOLEAN

VARIABLES
    mode,           \* collect, run, or broken: a run without a session
    stage,          \* what the main thread is about to do
    pending,        \* products still to start, to dump or to stop
    turn,           \* how many tests have begun, over all loops
    when, outcome,  \* phase and outcome of the current report, if any
    marked,         \* items with the attribute _setup_call_failed
    anyFailed,      \* session.testsfailed > 0
    recoveryFailed, \* PytestConfigPlugin._recovery_failed
    attempt,        \* attempts of the current recovery that have begun
    fault, alive,   \* of each product, as its state manager and process say
    beating,        \* heartbeat is enabled, and its threads run
    straggling,     \* products whose heartbeat thread outlived disable_heartbeat
    gdb,            \* controller of each product: off, current or stale
    prefixes,       \* CoredumpPlugin._prefix_counts
    dumps,          \* CoredumpManager._count
    files,          \* coredump files written
    rebootedByTest, \* auxiliary: rebooted by a test body, GDB not restarted
    faultSeen       \* auxiliary: some device was faulty when a report was judged

tallyVars  == <<marked, anyFailed, faultSeen>>
posVars    == <<mode, stage, pending, turn, when>>
resultVars == <<outcome, tallyVars>>
recVars    == <<recoveryFailed, attempt>>
deviceVars == <<fault, alive>>
dumpVars   == <<prefixes, dumps, files>>
gdbVars    == <<gdb, rebootedByTest>>
heartVars  == <<beating, straggling>>
vars == <<posVars, resultVars, recVars, deviceVars, heartVars, gdbVars, dumpVars>>

FaultKinds == {"crash", "busy_loop", "flood"}
Phases     == {"setup", "call", "teardown"}
Stages     == Phases \cup {"start", "collecting", "attach", "report", "dump",
                 "judge", "reboot", "reattach", "next", "finish", "detach",
                 "stop", "ended", "raised"}
ItemSet    == 1..Items
Item       == ((turn - 1) % Items) + 1

TypeOK ==
    /\ mode \in {"collect", "run", "broken"}
    /\ stage \in Stages
    /\ pending \subseteq Products
    /\ turn \in 1..(Items * Loops)
    /\ when \in Phases
    /\ outcome \in {"passed", "failed", "skipped"}
    /\ marked \subseteq ItemSet
    /\ anyFailed \in BOOLEAN /\ recoveryFailed \in BOOLEAN
    /\ attempt \in 0..MaxRetries
    /\ fault \in [Products -> FaultKinds \cup {"none"}]
    /\ alive \in [Products -> BOOLEAN]
    /\ beating \in BOOLEAN /\ straggling \subseteq Products
    /\ gdb \in [Products -> {"off", "current", "stale"}]
    /\ prefixes \in [ItemSet -> Nat]
    /\ dumps \in [Products -> Nat] /\ \A p \in Products : dumps[p] <= DumpLimit[p]
    /\ files \subseteq (Products \X ItemSet \X Nat)
    /\ rebootedByTest \subseteq Products
    /\ faultSeen \in BOOLEAN

Init ==
    /\ mode = "collect"
    /\ stage = "start"
    /\ pending = Products
    /\ turn = 1
    /\ when = "setup"
    /\ outcome = "passed"
    /\ marked = {}
    /\ anyFailed = FALSE /\ recoveryFailed = FALSE
    /\ attempt = 0
    /\ fault = [p \in Products |-> "none"]
    /\ alive = [p \in Products |-> FALSE]
    /\ beating = FALSE /\ straggling = {}
    /\ gdb = [p \in Products |-> "off"]
    /\ prefixes = [i \in ItemSet |-> 0]
    /\ dumps = [p \in Products |-> 0]
    /\ files = {}
    /\ rebootedByTest = {}
    /\ faultSeen = FALSE

Crashed  == {p \in Products : fault[p] = "crash"}
Faulty   == {p \in Products : fault[p] # "none" \/ ~alive[p]}

-----------------------------------------------------------------------------
(* Starting and stopping the devices. *)

\* A start clears the faults of the device unless it cannot be rebooted.
StartProduct(p) ==
    /\ stage = "start"
    /\ p \in pending
    /\ pending' = pending \ {p}
    /\ \/ alive[p] /\ UNCHANGED deviceVars
       \/ /\ ~alive[p]
          /\ p \in Rebootable \/ fault[p] = "none"
          /\ alive' = [alive EXCEPT ![p] = TRUE]
          /\ fault' = [fault EXCEPT ![p] = "none"]
    /\ UNCHANGED <<mode, stage, turn, when, resultVars, recVars, heartVars,
                   gdbVars, dumpVars>>

(* The device cannot be opened, does not boot, or its init() raises: the    *)
(* exception leaves runner() and collect(), whose finally clauses begin     *)
(* only after the start.                                                   *)
StartRaises(p) ==
    /\ stage = "start"
    /\ p \in pending
    /\ ~alive[p]
    /\ stage' = "raised"
    /\ \E up \in BOOLEAN : alive' = [alive EXCEPT ![p] = up]
    /\ UNCHANGED <<mode, pending, turn, when, resultVars, recVars, fault,
                   heartVars, gdbVars, dumpVars>>

StartDone ==
    /\ stage = "start"
    /\ pending = {}
    /\ beating' = (beating \/ Heartbeat) /\ UNCHANGED straggling
    /\ stage' = IF mode = "collect" THEN "collecting" ELSE "attach"
    /\ UNCHANGED <<mode, pending, turn, when, resultVars, recVars, deviceVars,
                   gdbVars, dumpVars>>

\* The collection is over; nothing of it disables the heartbeat.
CollectionDone ==
    /\ stage = "collecting"
    /\ stage' = "stop"
    /\ pending' = Products
    /\ UNCHANGED <<mode, turn, when, resultVars, recVars, deviceVars, heartVars,
                   gdbVars, dumpVars>>

\* DebugSetup.start and restart_all_controllers: some may fail to attach.
AttachAll ==
    /\ gdb' \in [Products -> {"off", "current"}]
    /\ rebootedByTest' = {}

Attach ==
    /\ stage = "attach"
    /\ AttachAll
    /\ stage' = "setup"
    /\ UNCHANGED <<mode, pending, turn, when, resultVars, recVars, deviceVars,
                   heartVars, dumpVars>>

(* A controller that can be neither started nor killed makes DebugSetup     *)
(* raise (a GDB run by sudo), or pytest refuses its command line: no        *)
(* session, and no pytest_sessionfinish.                                   *)
NoSession ==
    /\ stage = "attach"
    /\ gdb' \in [Products -> {"off", "current"}]
    /\ mode' = "broken"
    /\ stage' = "detach"
    /\ UNCHANGED <<pending, turn, when, resultVars, recVars, deviceVars,
                   heartVars, rebootedByTest, dumpVars>>

\* Mutant: the heartbeat is disabled only if no test has failed.
FinishIfPassed ==
    /\ stage = "finish"
    /\ beating' = (beating /\ anyFailed) /\ UNCHANGED straggling
    /\ stage' = "detach"
    /\ UNCHANGED <<mode, pending, turn, when, resultVars, recVars, deviceVars,
                   gdbVars, dumpVars>>

(* RunnerPlugin.pytest_sessionfinish.  A thread in the middle of a probe    *)
(* may outlive the join and is forgotten (_stop_monitor_thread).           *)
Finish ==
    /\ stage = "finish"
    /\ beating' = FALSE
    /\ straggling' \in IF beating THEN SUBSET Products ELSE {{}}
    /\ stage' = "detach"
    /\ UNCHANGED <<mode, pending, turn, when, resultVars, recVars, deviceVars,
                   gdbVars, dumpVars>>

Detach ==
    /\ stage = "detach"
    /\ gdb' = [p \in Products |-> "off"]
    /\ stage' = "stop"
    /\ pending' = Products
    /\ UNCHANGED <<mode, turn, when, resultVars, recVars, deviceVars, heartVars,
                   rebootedByTest, dumpVars>>

\* debug.stop() raises, and the devices are not stopped at all.
DetachRaises ==
    /\ stage = "detach"
    /\ gdb' \in [Products -> {"off", "current", "stale"}]
    /\ \A p \in Products : gdb'[p] \in {gdb[p], "off"}
    /\ stage' = "raised"
    /\ UNCHANGED <<mode, pending, turn, when, resultVars, recVars, deviceVars,
                   heartVars, rebootedByTest, dumpVars>>

\* An exception of stop() is logged and the device left as it is.
StopDevice(p) ==
    /\ stage = "stop"
    /\ p \in pending
    /\ pending' = pending \ {p}
    /\ \E up \in {FALSE, alive[p]} : alive' = [alive EXCEPT ![p] = up]
    /\ UNCHANGED <<mode, stage, turn, when, resultVars, recVars, fault, heartVars,
                   gdbVars, dumpVars>>

StopDone ==
    /\ stage = "stop"
    /\ pending = {}
    /\ \/ /\ mode = "collect"
          /\ mode' = "run"
          /\ stage' = "start"
          /\ pending' = Products
       \/ /\ mode # "collect"
          /\ stage' = IF mode = "run" THEN "ended" ELSE "raised"
          /\ UNCHANGED <<mode, pending>>
    /\ UNCHANGED <<turn, when, resultVars, recVars, deviceVars, heartVars,
                   gdbVars, dumpVars>>

-----------------------------------------------------------------------------
(* One phase of one test and its report. *)

\* Mutant: the failed recovery is not looked at before a test.
PhaseEndsUnasked ==
    /\ stage \in Phases
    /\ outcome' \in {"passed", "failed", "skipped"}
    /\ when' = stage
    /\ stage' = "report"
    /\ UNCHANGED <<mode, pending, turn, marked, anyFailed, faultSeen, recVars,
                   deviceVars, heartVars, gdbVars, dumpVars>>

(* pytest_runtest_setup skips a test after a failed recovery.              *)
PhaseEnds ==
    /\ stage \in Phases
    /\ outcome' \in IF stage = "setup" /\ recoveryFailed
                      THEN {"skipped"} ELSE {"passed", "failed", "skipped"}
    /\ when' = stage
    /\ stage' = "report"
    /\ UNCHANGED <<mode, pending, turn, marked, anyFailed, faultSeen, recVars,
                   deviceVars, heartVars, gdbVars, dumpVars>>

(* A reboot of all products at once.  A product that cannot be rebooted is  *)
(* left alone; the others are new devices, on which faults may have been    *)
(* recorded again while they booted.                                       *)
RebootProducts ==
    /\ fault' \in [Products -> FaultKinds \cup {"none"}]
    /\ alive' \in [Products -> BOOLEAN]
    /\ \A p \in Products \ Rebootable :
            fault'[p] = fault[p] /\ alive'[p] = alive[p]
    /\ \A p \in Products :
            gdb'[p] = IF p \in Rebootable /\ gdb[p] = "current"
                        THEN "stale" ELSE gdb[p]

\* pytest.product.reboot() in a test body.
BodyReboots ==
    /\ stage = "call"
    /\ gdb' \in [Products -> {"off", "current", "stale"}]
    /\ RebootProducts
    /\ rebootedByTest' = rebootedByTest \cup Rebootable
    /\ UNCHANGED <<posVars, resultVars, recVars, heartVars, dumpVars>>

(* The inner hook wrapper, CoredumpPlugin's, sees the report first, with    *)
(* the outcome of the test itself.                                         *)
Managers == LET unhealthy == {p \in Products :
                                fault[p] \in {"crash", "busy_loop"} \/ ~alive[p]}
            IN IF unhealthy = {} THEN Products ELSE unhealthy

NothingToDump ==
    /\ stage = "report"
    /\ when # "call" \/ outcome # "failed"
    /\ stage' = "judge"
    /\ UNCHANGED <<mode, pending, turn, when, resultVars, recVars, deviceVars,
                   heartVars, gdbVars, dumpVars>>

\* Mutant: every failure of a test is given the same prefix.
TestFailedSamePrefix ==
    /\ stage = "report"
    /\ when = "call" /\ outcome = "failed"
    /\ prefixes' = [prefixes EXCEPT ![Item] = 1]
    /\ pending' = Managers
    /\ stage' = "dump"
    /\ UNCHANGED <<mode, turn, when, resultVars, recVars, deviceVars, heartVars,
                   gdbVars, dumps, files>>

TestFailed ==
    /\ stage = "report"
    /\ when = "call" /\ outcome = "failed"
    /\ prefixes' = [prefixes EXCEPT ![Item] = @ + 1]
    /\ pending' = Managers
    /\ stage' = "dump"
    /\ UNCHANGED <<mode, turn, when, resultVars, recVars, deviceVars, heartVars,
                   gdbVars, dumps, files>>

\* Mutant: the limit may be passed by one.
DumpOneMore(p) ==
    /\ stage = "dump"
    /\ p \in pending
    /\ pending' = pending \ {p}
    /\ dumps[p] <= DumpLimit[p]
    /\ dumps' = [dumps EXCEPT ![p] = @ + 1]
    /\ files' = files \cup {<<p, Item, prefixes[Item]>>}
    /\ UNCHANGED <<mode, stage, turn, when, resultVars, recVars, deviceVars,
                   heartVars, gdbVars, prefixes>>

(* CoredumpManager.collect: up to the limit, and if a handler succeeds.    *)
Dump(p) ==
    /\ stage = "dump"
    /\ p \in pending
    /\ pending' = pending \ {p}
    /\ \/ UNCHANGED <<dumps, files>>
       \/ /\ dumps[p] < DumpLimit[p]
          /\ dumps' = [dumps EXCEPT ![p] = @ + 1]
          /\ files' = files \cup {<<p, Item, prefixes[Item]>>}
    /\ UNCHANGED <<mode, stage, turn, when, resultVars, recVars, deviceVars,
                   heartVars, gdbVars, prefixes>>

DumpsDone ==
    /\ stage = "dump"
    /\ pending = {}
    /\ stage' = "judge"
    /\ UNCHANGED <<mode, pending, turn, when, resultVars, recVars, deviceVars,
                   heartVars, gdbVars, dumpVars>>

\* A teardown is not judged if the setup or call of that item ever failed so.
CrashCheckPhase == when # "teardown" \/ Item \notin marked

\* Mutant: only the call is checked for faults.
JudgeCallOnly ==
    /\ stage = "judge"
    /\ faultSeen' = (faultSeen \/ Faulty # {})
    /\ LET failure == Faulty # {} /\ when = "call"
       IN /\ outcome' = IF failure THEN "failed" ELSE outcome
          /\ marked' = IF failure THEN marked \cup {Item} ELSE marked
          /\ stage' = IF failure THEN "reboot" ELSE "next"
    /\ anyFailed' = (anyFailed \/ outcome' = "failed")
    /\ UNCHANGED <<mode, pending, turn, when, recVars, deviceVars, heartVars,
                   gdbVars, dumpVars>>

(* The outer wrapper, PytestConfigPlugin's: a fault of any product fails    *)
(* the phase and has every product rebooted.                               *)
Judge ==
    /\ stage = "judge"
    /\ faultSeen' = (faultSeen \/ Faulty # {})
    /\ LET failure == Faulty # {} /\ CrashCheckPhase
       IN /\ outcome' = IF failure THEN "failed" ELSE outcome
          /\ marked' = IF failure /\ when # "teardown"
                         THEN marked \cup {Item} ELSE marked
          /\ stage' = IF failure THEN "reboot" ELSE "next"
    /\ anyFailed' = (anyFailed \/ outcome' = "failed")
    /\ UNCHANGED <<mode, pending, turn, when, recVars, deviceVars, heartVars,
                   gdbVars, dumpVars>>

(* _device_reboot: ProductsHandler.reboot() is True whatever the cores      *)
(* answer, so an attempt fails only by an exception, here or in Reattach.  *)
RebootSucceeds ==
    /\ stage = "reboot"
    /\ attempt < MaxRetries
    /\ gdb' \in [Products -> {"off", "current", "stale"}]
    /\ RebootProducts
    /\ \A p \in Rebootable : alive'[p]
    /\ attempt' = attempt + 1
    /\ stage' = "reattach"
    /\ UNCHANGED <<mode, pending, turn, when, resultVars, recoveryFailed,
                   heartVars, rebootedByTest, dumpVars>>

\* Mutant: an attempt that raised is not counted.
RebootRaisesUncounted ==
    /\ stage = "reboot"
    /\ attempt < MaxRetries
    /\ Rebootable # {}
    /\ gdb' \in [Products -> {"off", "current", "stale"}]
    /\ RebootProducts
    /\ UNCHANGED <<posVars, resultVars, recVars, heartVars, rebootedByTest,
                   dumpVars>>

RebootRaises ==
    /\ stage = "reboot"
    /\ attempt < MaxRetries
    /\ Rebootable # {}
    /\ gdb' \in [Products -> {"off", "current", "stale"}]
    /\ RebootProducts
    /\ attempt' = attempt + 1
    /\ UNCHANGED <<posVars, resultVars, recoveryFailed, heartVars,
                   rebootedByTest, dumpVars>>

\* Mutant: the last attempt that failed is taken for a recovery.
RecoveryFailsSilently ==
    /\ stage = "reboot"
    /\ attempt = MaxRetries
    /\ attempt' = 0
    /\ stage' = "next"
    /\ UNCHANGED <<mode, pending, turn, when, resultVars, recoveryFailed,
                   deviceVars, heartVars, gdbVars, dumpVars>>

RecoveryFails ==
    /\ stage = "reboot"
    /\ attempt = MaxRetries
    /\ recoveryFailed' = TRUE
    /\ attempt' = 0
    /\ stage' = "next"
    /\ UNCHANGED <<mode, pending, turn, when, resultVars, deviceVars, heartVars,
                   gdbVars, dumpVars>>

Reattach ==
    /\ stage = "reattach"
    /\ AttachAll
    /\ attempt' = 0
    /\ stage' = "next"
    /\ UNCHANGED <<mode, pending, turn, when, resultVars, recoveryFailed,
                   deviceVars, heartVars, dumpVars>>

\* A controller that cannot be restarted costs the attempt, as a reboot does.
ReattachRaises ==
    /\ stage = "reattach"
    /\ gdb' \in [Products -> {"off", "current", "stale"}]
    /\ \A p \in Products : gdb'[p] \in {gdb[p], "off", "current"}
    /\ stage' = "reboot"
    /\ UNCHANGED <<mode, pending, turn, when, resultVars, recVars, deviceVars,
                   heartVars, rebootedByTest, dumpVars>>

(* runtestprotocol: the body runs if the report of the setup passed; then   *)
(* the teardown, the next test of this or the next loop, or the end.        *)
NextPhase ==
    /\ stage = "next"
    /\ when # "teardown"
    /\ stage' = IF when = "setup" /\ outcome = "passed" THEN "call"
                                                        ELSE "teardown"
    /\ outcome' = "passed"
    /\ UNCHANGED <<mode, pending, turn, when, tallyVars, recVars, deviceVars,
                   heartVars, gdbVars, dumpVars>>

NextTest ==
    /\ stage = "next"
    /\ when = "teardown"
    /\ turn < Items * Loops
    /\ turn' = turn + 1
    /\ stage' = "setup"
    /\ outcome' = "passed"
    /\ UNCHANGED <<mode, pending, when, tallyVars, recVars, deviceVars,
                   heartVars, gdbVars, dumpVars>>

\* The tests are through, or --session-timeout or -x ends the session.
LastTest ==
    /\ stage = "next"
    /\ when = "teardown"
    /\ stage' = "finish"
    /\ outcome' = "passed"
    /\ UNCHANGED <<mode, pending, turn, when, tallyVars, recVars, deviceVars,
                   heartVars, gdbVars, dumpVars>>

-----------------------------------------------------------------------------
(* The devices. *)

Talking == {"start", "collecting", "dump", "reboot", "stop"} \cup Phases
Probed(p) == beating \/ p \in straggling

\* A stopped device answers no probe: that too is a verdict of the heartbeat.
DeviceFault(p) ==
    /\ stage \notin {"ended", "raised"}
    /\ \/ alive[p] /\ (Probed(p) \/ stage \in Talking)
          /\ \E kind \in FaultKinds \ {fault[p]} : fault' = [fault EXCEPT ![p] = kind]
       \/ Probed(p) /\ fault[p] = "none" /\ fault' = [fault EXCEPT ![p] = "busy_loop"]
    /\ UNCHANGED <<posVars, resultVars, recVars, alive, heartVars, gdbVars,
                   dumpVars>>

DeviceExits(p) ==
    /\ stage \notin {"ended", "raised"}
    /\ alive[p]
    /\ alive' = [alive EXCEPT ![p] = FALSE]
    /\ UNCHANGED <<posVars, resultVars, recVars, fault, heartVars, gdbVars,
                   dumpVars>>

\* The last probe of a forgotten thread is over.
StragglerEnds(p) ==
    /\ p \in straggling
    /\ straggling' = straggling \ {p}
    /\ UNCHANGED <<posVars, resultVars, recVars, deviceVars, beating, gdbVars,
                   dumpVars>>

SessionStep ==
    \/ \E p \in Products : \/ StartProduct(p) \/ StartRaises(p)
                           \/ StopDevice(p) \/ Dump(p)
    \/ StartDone \/ CollectionDone \/ Attach \/ NoSession
    \/ PhaseEnds
    \/ NothingToDump \/ TestFailed \/ DumpsDone
    \/ Judge \/ RebootSucceeds \/ RebootRaises \/ RecoveryFails
    \/ Reattach \/ ReattachRaises
    \/ NextPhase \/ NextTest \/ LastTest
    \/ Finish \/ Detach \/ DetachRaises \/ StopDone

Environment == \E p \in Products :
    DeviceFault(p) \/ DeviceExits(p) \/ StragglerEnds(p)

Next == SessionStep \/ BodyReboots \/ Environment

Spec == Init /\ [][Next]_vars

(* The main thread runs on; a phase that hangs is ended by --timeout.       *)
FairSpec == Spec /\ WF_vars(SessionStep)

-----------------------------------------------------------------------------
(* Properties. *)

(* A coredump is never asked of a GDB that is attached to a device that has *)
(* been rebooted since (restart_all_controllers), however many attempts the *)
(* recoveries took and whether they succeeded, unless the test itself       *)
(* rebooted it.                                                            *)
DumpsFromLiveTarget ==
    stage = "dump" =>
        \A p \in Products \ rebootedByTest : gdb[p] # "stale"

(* A session in which a device was faulty at the end of any phase of any    *)
(* test, in any loop, does not end as passed (makereport,                   *)
(* _is_crash_check_phase).                                                 *)
NoFaultyRunPasses == stage = "ended" /\ faultSeen => anyFailed

(* Every coredump the manager counts is a file of its own: no later failure *)
(* of the same test, in this loop or the next, overwrites it                *)
(* (_unique_prefix, CoredumpManager.collect).                              *)
DumpsKept ==
    \A p \in Products : dumps[p] = Cardinality({f \in files : f[1] = p})

(* While the devices of a test session are being stopped, and after it, the *)
(* heartbeat is off and no GDB is attached to them, whatever failed before  *)
(* (pytest_sessionfinish, runner's finally clause); and a device that is    *)
(* down already is found faulty only by a probe that was under way when the *)
(* heartbeat was disabled and took longer than the join (heartbeat.py:194). *)
ShutdownQuiet ==
    [][ mode' = "run" /\ stage' \in {"stop", "ended"} =>
          /\ ~beating'
          /\ \A p \in Products :
                /\ gdb'[p] = "off"
                /\ fault'[p] # fault[p] => alive[p] \/ p \in straggling ]_vars

(* Once a recovery has failed no test body runs any more, although later    *)
(* phases go on rebooting the device and may succeed (pytest_runtest_setup).*)
NoBodyAfterFailedRecovery == recoveryFailed => stage # "call"

(* The session ends, whatever the devices do.                              *)
SessionEnds == <>(stage \in {"ended", "raised"})

(* "Remaining tests are skipped if all retries fail"                        *)
(* (Documentation/usage.rst, recovery).                                     *)
RemainingSkipped ==
    [][ Judge /\ recoveryFailed /\ when = "setup" => outcome' = "skipped" ]_vars

(* "When a test fails, ntfc picks a device that looks unhealthy ... and asks *)
(* a backend to pull a coredump from it" (Documentation/debug/coredump.rst): *)
(* a test that fails because a device crashed under its body had failed     *)
(* already when CoredumpPlugin saw the report, and so was dumped.           *)
CrashDumped ==
    [][ Judge /\ when = "call" /\ Crashed # {} => outcome = "failed" ]_vars
=============================================================================

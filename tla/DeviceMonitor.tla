--------------------------- MODULE DeviceMonitor ---------------------------
(***************************************************************************)
(* One device shared by the thread that runs the tests and by the heartbeat *)
(* monitor threads: ntfc.device.common.DeviceCommon, .state, .heartbeat and *)
(* the reboot of .host.                                                    *)
(*                                                                         *)
(* The Runner is the main thread: it sends commands, reboots the device,   *)
(* and enables and disables the heartbeat.  A monitor thread wakes up,     *)
(* decides whether to probe, and sends a probe through the very method the *)
(* Runner uses.  Both go through the stages of one command:                *)
(*                                                                         *)
(*   drain -> write -> loop <-> check -> flood -> flooding -> end          *)
(*                  \-> read ----------------------------------^           *)
(*                                                                         *)
(* A step is what one critical section or one poll of the device does.     *)
(* Deadlines are flags the clock raises at any moment.  The device is the  *)
(* environment: it answers, stays mute, floods, crashes or exits.          *)
(***************************************************************************)
EXTENDS DeviceState, FiniteSets

CONSTANTS
    Runner,         \* the main thread
    Monitors,       \* identities for heartbeat threads (a bound on live ones)
    Threshold       \* heartbeat.threshold of the configuration

ASSUME VerdictAssumption == {"none", "silent"} \cap CrashTypes = {}
ASSUME ThreadAssumption == Runner \notin Monitors /\ IsFiniteSet(Monitors)
ASSUME ThresholdAssumption == Threshold \in Nat \ {0}

Threads == Monitors \cup {Runner}

VARIABLES
    pc,             \* stage of each thread
    verdict,        \* fault a thread has decided on but not yet recorded
    outcome,        \* what a thread's command has come to
    late,           \* threads whose current deadline has passed
    job,            \* what the Runner's command is part of
    bootLate,       \* the boot deadline has passed
    enabled,        \* HeartbeatMonitor._heartbeat_enabled
    stopEvent,      \* HeartbeatMonitor._monitor_stop_event
    attached,       \* HeartbeatMonitor._monitor_thread ({} for None)
    dev,            \* the device: ok, mute, flood or dead
    owed,           \* commands the device has accepted and not answered yet
    banner,         \* crash signatures printed and not read yet
    crashRead       \* auxiliary: a banner was read since the last reset

threadVars == <<pc, verdict, outcome, late>>
runnerVars == <<job, bootLate>>
beatCtl    == <<enabled, stopEvent, attached>>
devVars    == <<dev, owed, banner>>
vars == <<stateVars, threadVars, runnerVars, beatCtl, devVars, crashRead>>

CommandStages == {"drain", "write", "read", "loop", "check",
                  "flood", "flooding", "end"}
RunnerStages  == {"idle", "stop", "kill", "reset", "resetFailures", "spawn",
                  "boot", "join"}
MonitorStages == {"off", "wait", "health", "commit", "outcome", "declare",
                  "clear"}

Stages(t) == CommandStages \cup (IF t = Runner THEN RunnerStages
                                               ELSE MonitorStages)

PcOK ==
    /\ pc \in [Threads -> CommandStages \cup RunnerStages \cup MonitorStages]
    /\ \A t \in Threads : pc[t] \in Stages(t)

TypeOK ==
    /\ StateTypeOK
    /\ PcOK
    /\ verdict \in [Threads -> CrashTypes \cup {"none", "silent"}]
    /\ outcome \in [Threads -> {"waiting", "answered", "failed", "raised"}]
    /\ late \subseteq Threads
    /\ job \in {"test", "poweroff", "boot"}
    /\ bootLate \in BOOLEAN
    /\ enabled \in BOOLEAN
    /\ stopEvent \in BOOLEAN
    /\ attached \subseteq Monitors
    /\ dev \in {"ok", "mute", "flood", "dead"}
    /\ owed \subseteq Threads
    /\ banner \subseteq CrashTypes
    /\ crashRead \in BOOLEAN

Init ==
    /\ StateInit
    /\ pc = [t \in Threads |-> IF t = Runner THEN "idle" ELSE "off"]
    /\ verdict = [t \in Threads |-> "none"]
    /\ outcome = [t \in Threads |-> "waiting"]
    /\ late = {}
    /\ job = "test"
    /\ bootLate = FALSE
    /\ enabled = FALSE
    /\ stopEvent = FALSE
    /\ attached = {}
    /\ dev = "dead"
    /\ owed = {}
    /\ banner = {}
    /\ crashRead = FALSE

Executing(t) == pc[t] \in CommandStages
Deciding(t)  == verdict[t] # "none"
GoTo(t, stage) == pc' = [pc EXCEPT ![t] = stage]

\* dev_is_health(): the process or port is usable and no fault is recorded.
DevIsHealth == Healthy /\ dev # "dead"

-----------------------------------------------------------------------------
(* A command: the wrapper of mark_command around send_command and          *)
(* send_cmd_read_until_pattern.                                            *)

BeginCommand(t) ==
    /\ MarkCommandStart
    /\ GoTo(t, "drain")
    /\ UNCHANGED <<healthVars, activity, failures, verdict, outcome, late,
                   devVars, beatCtl, crashRead>>

(* What the next _read can return.  A host device is not read at all once  *)
(* dev_is_health() fails; a flooding device always has something to read.  *)
NothingToRead == ~DevIsHealth \/ (banner = {} /\ dev # "flood")
SomethingToRead == DevIsHealth /\ banner = {} /\ dev \in {"ok", "flood"}

(* The stage _read_all returns to, by whether the chunk was empty and      *)
(* whether a fault made it break off.                                      *)
AfterPoll(t, empty, fault) ==
    {next \in CommandStages :
        \/ pc[t] = "drain" /\ next = "write"
        \/ pc[t] = "read" /\ (next = "end" \/ (next = "read" /\ ~fault))
        \/ pc[t] = "loop" /\ next = "check"
        \/ pc[t] \in {"flood", "flooding"} /\ empty /\ next = "end"
        \/ pc[t] \in {"flood", "flooding"} /\ ~empty /\ next = "flooding"}

Polling(t) ==
    /\ ~Deciding(t)
    /\ \/ pc[t] \in {"drain", "loop", "flood"}
       \/ pc[t] \in {"read", "flooding"} /\ t \notin late

\* The answers in the chunk; what a drain reads is dropped.
Receive(t, answers) ==
    /\ owed' = owed \ answers
    /\ outcome' = IF t \in answers /\ pc[t] \in {"read", "loop"}
                    THEN [outcome EXCEPT ![t] = "answered"]
                    ELSE outcome

PollText(t) ==
    /\ Polling(t)
    /\ SomethingToRead
    /\ \E answers \in SUBSET owed : Receive(t, answers)
    /\ UpdateActivity
    /\ \E next \in AfterPoll(t, FALSE, FALSE) : GoTo(t, next)
    /\ UNCHANGED <<healthVars, inCommand, verdict, late, runnerVars, beatCtl,
                   dev, banner, crashRead>>

PollEmpty(t) ==
    /\ Polling(t)
    /\ NothingToRead
    /\ currentState = "BUSY_LOOP" \/ ~SilentTooLong
    /\ \E next \in AfterPoll(t, TRUE, FALSE) : GoTo(t, next)
    /\ UNCHANGED <<stateVars, verdict, outcome, late, runnerVars, beatCtl,
                   devVars, crashRead>>

(* check_busy_loop_timeout finds the silence too long; set_busy_loop comes *)
(* in a later critical section.                                            *)
PollSilent(t) ==
    /\ Polling(t)
    /\ NothingToRead
    /\ currentState # "BUSY_LOOP"
    /\ SilentTooLong
    /\ verdict' = [verdict EXCEPT ![t] = "silent"]
    /\ \E next \in AfterPoll(t, TRUE, TRUE) : GoTo(t, next)
    /\ UNCHANGED <<stateVars, outcome, late, runnerVars, beatCtl, devVars,
                   crashRead>>

\* Mutant: the drain before a command uses a bare _read and looks at nothing.
PollCrashUnlessDraining(t) ==
    /\ Polling(t)
    /\ DevIsHealth
    /\ \E type \in banner : verdict' = IF pc[t] = "drain" THEN verdict
                                        ELSE [verdict EXCEPT ![t] = type]
    /\ \E answers \in SUBSET owed : Receive(t, answers)
    /\ banner' = {}
    /\ crashRead' = TRUE
    /\ \E next \in AfterPoll(t, FALSE, TRUE) : GoTo(t, next)
    /\ UNCHANGED <<stateVars, late, runnerVars, beatCtl, dev>>

(* check_crash finds a signature; set_crashed comes later.  The loop breaks *)
(* off before update_activity.                                             *)
PollCrash(t) ==
    /\ Polling(t)
    /\ DevIsHealth
    /\ \E type \in banner : verdict' = [verdict EXCEPT ![t] = type]
    /\ \E answers \in SUBSET owed : Receive(t, answers)
    /\ banner' = {}
    /\ crashRead' = TRUE
    /\ \E next \in AfterPoll(t, FALSE, TRUE) : GoTo(t, next)
    /\ UNCHANGED <<stateVars, late, runnerVars, beatCtl, dev>>

\* Mutant: every verdict of a read is taken for a crash.
DeclareAnyAsCrash(t) ==
    /\ Deciding(t)
    /\ SetCrashed(verdict[t])
    /\ verdict' = [verdict EXCEPT ![t] = "none"]
    /\ UNCHANGED <<activity, beatVars, pc, outcome, late, runnerVars, beatCtl,
                   devVars, crashRead>>

Declare(t) ==
    /\ Deciding(t)
    /\ IF verdict[t] = "silent"
         THEN SetBusyLoop
         ELSE SetCrashed(verdict[t])
    /\ verdict' = [verdict EXCEPT ![t] = "none"]
    /\ UNCHANGED <<activity, beatVars, pc, outcome, late, runnerVars, beatCtl,
                   devVars, crashRead>>

(* _write is silently skipped on an unhealthy device. *)
Write(t) ==
    /\ pc[t] = "write"
    /\ ~Deciding(t)
    /\ owed' = IF Healthy /\ dev = "ok" THEN owed \cup {t} ELSE owed
    /\ GoTo(t, IF t = Runner /\ job # "test" THEN "read" ELSE "loop")
    /\ UNCHANGED <<stateVars, verdict, outcome, late, runnerVars, beatCtl,
                   dev, banner, crashRead>>

\* _read_all(timeout) of send_command runs out.
ReadDone(t) ==
    /\ pc[t] = "read"
    /\ ~Deciding(t)
    /\ t \in late
    /\ GoTo(t, "end")
    /\ late' = late \ {t}
    /\ UNCHANGED <<stateVars, verdict, outcome, runnerVars, beatCtl, devVars,
                   crashRead>>

(* The three exits of _read_until_pattern_loop, in the order of the code:  *)
(* the answer, the deadline, the health of the device.  Only a test gives  *)
(* a fail pattern.                                                         *)
CheckAnswered(t) ==
    /\ pc[t] = "check"
    /\ ~Deciding(t)
    /\ outcome[t] = "answered"
    /\ \/ UNCHANGED outcome
       \/ t = Runner /\ outcome' = [outcome EXCEPT ![t] = "failed"]
    /\ GoTo(t, "end")
    /\ late' = late \ {t}
    /\ UNCHANGED <<stateVars, verdict, runnerVars, beatCtl, devVars,
                   crashRead>>

\* Mutant: the pattern loop gives up on an unhealthy device alone.
CheckGivesUpOnFaultOnly(t) ==
    /\ pc[t] = "check"
    /\ ~Deciding(t)
    /\ outcome[t] # "answered"
    /\ ~DevIsHealth
    /\ GoTo(t, "flood")
    /\ late' = late \ {t}
    /\ UNCHANGED <<stateVars, verdict, outcome, runnerVars, beatCtl, devVars,
                   crashRead>>

CheckGivesUp(t) ==
    /\ pc[t] = "check"
    /\ ~Deciding(t)
    /\ outcome[t] # "answered"
    /\ t \in late \/ ~DevIsHealth
    /\ GoTo(t, "flood")
    /\ late' = late \ {t}
    /\ UNCHANGED <<stateVars, verdict, outcome, runnerVars, beatCtl, devVars,
                   crashRead>>

CheckAgain(t) ==
    /\ pc[t] = "check"
    /\ ~Deciding(t)
    /\ outcome[t] # "answered"
    /\ t \notin late /\ DevIsHealth
    /\ GoTo(t, "loop")
    /\ UNCHANGED <<stateVars, verdict, outcome, late, runnerVars, beatCtl,
                   devVars, crashRead>>

(* The flood window closes and no poll in it came back empty: the verdict  *)
(* overwrites whatever fault is recorded by then.                          *)
FloodVerdict(t) ==
    /\ pc[t] = "flooding"
    /\ ~Deciding(t)
    /\ t \in late
    /\ SetUnhealthy
    /\ GoTo(t, "end")
    /\ late' = late \ {t}
    /\ UNCHANGED <<activity, beatVars, verdict, outcome, runnerVars, beatCtl,
                   devVars, crashRead>>

\* Mutant: mark_command without its finally clause.
IOErrorSkipsFinally(t) ==
    /\ pc[t] \in {"drain", "write", "read", "loop", "flood", "flooding"}
    /\ ~Deciding(t)
    /\ Healthy
    /\ outcome' = [outcome EXCEPT ![t] = "raised"]
    /\ GoTo(t, IF t \in Monitors THEN "outcome" ELSE "idle")
    /\ UNCHANGED <<stateVars, verdict, late, runnerVars, beatCtl, devVars,
                   crashRead>>

(* The transport raises while the command talks to the device. *)
IOError(t) ==
    /\ pc[t] \in {"drain", "write", "read", "loop", "flood", "flooding"}
    /\ ~Deciding(t)
    /\ Healthy
    /\ outcome' = [outcome EXCEPT ![t] = "raised"]
    /\ GoTo(t, "end")
    /\ late' = late \ {t}
    /\ UNCHANGED <<stateVars, verdict, runnerVars, beatCtl, devVars,
                   crashRead>>

(* The finally clause of mark_command: also after an exception.  The locals  *)
(* of the call are gone, and an answer nobody waits for is mere text.      *)
AfterCommand(t) ==
    {next \in Stages(t) :
        \/ t \in Monitors /\ next = "outcome"
        \/ /\ t = Runner
           /\ \/ (job = "test" \/ outcome[t] = "raised") /\ next = "idle"
              \/ job = "poweroff" /\ outcome[t] # "raised" /\ next = "kill"
              \/ job = "boot" /\ outcome[t] # "raised" /\ next = "boot"
              \/ job = "boot" /\ outcome[t] = "answered" /\ next = "idle"}

EndCommand(t) ==
    /\ pc[t] = "end"
    /\ ~Deciding(t)
    /\ MarkCommandEnd
    /\ \E next \in AfterCommand(t) :
         /\ GoTo(t, next)
         /\ IF next = "idle" THEN job' = "test" /\ bootLate' = FALSE
                              ELSE UNCHANGED runnerVars
    /\ outcome' = IF t \in Monitors THEN outcome
                                   ELSE [outcome EXCEPT ![t] = "waiting"]
    /\ late' = late \ {t}
    /\ owed' = owed \ {t}
    /\ UNCHANGED <<healthVars, verdict, beatCtl, dev, banner, crashRead>>

CommandStep(t) ==
    \/ PollText(t) \/ PollEmpty(t) \/ PollSilent(t) \/ PollCrash(t)
    \/ Declare(t)
    \/ Write(t) \/ ReadDone(t)
    \/ CheckAnswered(t) \/ CheckGivesUp(t) \/ CheckAgain(t)
    \/ FloodVerdict(t)
    \/ IOError(t)
    \/ EndCommand(t)

-----------------------------------------------------------------------------
(* The monitor thread. *)

(* The loop head and the locked half of _should_check_heartbeat.  That the *)
(* interval has elapsed is left to chance.                                 *)
MonitorWakes(m) ==
    /\ pc[m] = "wait"
    /\ ~stopEvent /\ enabled
    /\ ~inCommand
    /\ GoTo(m, "health")
    /\ UNCHANGED <<stateVars, verdict, outcome, late, runnerVars, beatCtl,
                   devVars, crashRead>>

\* Mutant: the stop event is looked at only while the heartbeat is enabled.
MonitorExitsIfEnabled(m) ==
    /\ pc[m] = "wait"
    /\ stopEvent /\ enabled
    /\ GoTo(m, "off")
    /\ UNCHANGED <<stateVars, verdict, outcome, late, runnerVars, beatCtl,
                   devVars, crashRead>>

MonitorExits(m) ==
    /\ pc[m] = "wait"
    /\ stopEvent \/ ~enabled
    /\ GoTo(m, "off")
    /\ UNCHANGED <<stateVars, verdict, outcome, late, runnerVars, beatCtl,
                   devVars, crashRead>>

\* The unlocked half: the device must be healthy.
MonitorChecksHealth(m) ==
    /\ pc[m] = "health"
    /\ GoTo(m, IF Healthy THEN "commit" ELSE "wait")
    /\ UNCHANGED <<stateVars, verdict, outcome, late, runnerVars, beatCtl,
                   devVars, crashRead>>

(* _check_heartbeat marks the command and sends the probe, whose own       *)
(* wrapper marks it again.                                                 *)
MonitorProbes(m) ==
    /\ pc[m] = "commit"
    /\ BeginCommand(m)
    /\ UNCHANGED runnerVars

ProbePassed(m) ==
    /\ pc[m] = "outcome"
    /\ outcome[m] = "answered"
    /\ ResetFailures
    /\ outcome' = [outcome EXCEPT ![m] = "waiting"]
    /\ GoTo(m, "clear")
    /\ UNCHANGED <<healthVars, activity, inCommand, verdict, late, runnerVars,
                   beatCtl, devVars, crashRead>>

\* _handle_heartbeat_failure: a timeout or an exception.
ProbeFailed(m) ==
    /\ pc[m] = "outcome"
    /\ outcome[m] # "answered"
    /\ failures' = failures + 1
    /\ outcome' = [outcome EXCEPT ![m] = "waiting"]
    /\ GoTo(m, IF failures + 1 >= Threshold THEN "declare" ELSE "clear")
    /\ UNCHANGED <<healthVars, activity, inCommand, verdict, late, runnerVars,
                   beatCtl, devVars, crashRead>>

ProbeDeclares(m) ==
    /\ pc[m] = "declare"
    /\ SetBusyLoop
    /\ GoTo(m, "clear")
    /\ UNCHANGED <<activity, beatVars, verdict, outcome, late, runnerVars,
                   beatCtl, devVars, crashRead>>

\* The finally clause of _check_heartbeat.
ProbeEnds(m) ==
    /\ pc[m] = "clear"
    /\ inCommand' = FALSE
    /\ GoTo(m, "wait")
    /\ UNCHANGED <<healthVars, activity, failures, verdict, outcome, late,
                   runnerVars, beatCtl, devVars, crashRead>>

MonitorStep(m) ==
    \/ MonitorWakes(m) \/ MonitorExits(m) \/ MonitorChecksHealth(m)
    \/ MonitorProbes(m)
    \/ ProbePassed(m) \/ ProbeFailed(m) \/ ProbeDeclares(m) \/ ProbeEnds(m)

-----------------------------------------------------------------------------
(* The Runner. *)

RunTest ==
    /\ pc[Runner] = "idle"
    /\ BeginCommand(Runner)
    /\ job' = "test"
    /\ bootLate' = FALSE

(* start(), stop() and reboot() of a host device.  All begin with           *)
(* _stop_impl: a shell command that powers the device off if it is alive,  *)
(* then a signal to its process group.                                     *)
Reboot ==
    /\ pc[Runner] = "idle"
    /\ GoTo(Runner, "stop")
    /\ UNCHANGED <<stateVars, verdict, outcome, late, runnerVars, beatCtl,
                   devVars, crashRead>>

Poweroff ==
    /\ pc[Runner] = "stop"
    /\ dev # "dead"
    /\ BeginCommand(Runner)
    /\ job' = "poweroff"
    /\ UNCHANGED bootLate

NothingToStop ==
    /\ pc[Runner] = "stop"
    /\ dev = "dead"
    /\ GoTo(Runner, "kill")
    /\ UNCHANGED <<stateVars, verdict, outcome, late, runnerVars, beatCtl,
                   devVars, crashRead>>

\* stop() is over here; start() and reboot() go on to host_open().
Kill ==
    /\ pc[Runner] = "kill"
    /\ dev' = "dead"
    /\ owed' = {}
    /\ banner' = {}
    /\ \E next \in {"reset", "idle"} : GoTo(Runner, next)
    /\ job' = "test"
    /\ UNCHANGED <<stateVars, verdict, outcome, late, bootLate, beatCtl,
                   crashRead>>

ClearFaultFlags ==
    /\ pc[Runner] = "reset"
    /\ ResetState
    /\ crashRead' = FALSE
    /\ GoTo(Runner, "resetFailures")
    /\ UNCHANGED <<beatVars, verdict, outcome, late, runnerVars, beatCtl,
                   devVars>>

ClearFailures ==
    /\ pc[Runner] = "resetFailures"
    /\ ResetFailures
    /\ GoTo(Runner, "spawn")
    /\ UNCHANGED <<healthVars, activity, inCommand, verdict, outcome, late,
                   runnerVars, beatCtl, devVars, crashRead>>

Spawn ==
    /\ pc[Runner] = "spawn"
    /\ dev' = "ok"
    /\ bootLate' = FALSE
    /\ job' = "boot"
    /\ GoTo(Runner, "boot")
    /\ UNCHANGED <<stateVars, verdict, outcome, late, beatCtl, owed, banner,
                   crashRead>>

(* _wait_for_boot: newlines until the prompt comes or the time is up. *)
AskForPrompt ==
    /\ pc[Runner] = "boot"
    /\ ~bootLate
    /\ BeginCommand(Runner)
    /\ UNCHANGED runnerVars

BootTimeout ==
    /\ pc[Runner] = "boot"
    /\ bootLate
    /\ GoTo(Runner, "idle")
    /\ job' = "test"
    /\ bootLate' = FALSE
    /\ UNCHANGED <<stateVars, verdict, outcome, late, beatCtl, devVars,
                   crashRead>>

Alive(m) == pc[m] # "off"

\* enable_heartbeat: a new thread unless the attached one is alive.
EnableHeartbeat ==
    /\ pc[Runner] = "idle"
    /\ enabled' = TRUE
    /\ failures' = 0
    /\ \/ /\ \E m \in attached : Alive(m)
          /\ UNCHANGED <<stopEvent, attached, pc>>
       \/ /\ \A m \in attached : ~Alive(m)
          /\ stopEvent' = FALSE
          /\ \E m \in Monitors : /\ ~Alive(m)
                                 /\ attached' = {m}
                                 /\ GoTo(m, "wait")
    /\ UNCHANGED <<healthVars, activity, inCommand, verdict, outcome, late,
                   runnerVars, devVars, crashRead>>

DisableHeartbeat ==
    /\ pc[Runner] = "idle"
    /\ enabled' = FALSE
    /\ IF \E m \in attached : Alive(m)
         THEN stopEvent' = TRUE /\ GoTo(Runner, "join")
         ELSE UNCHANGED <<stopEvent, pc>>
    /\ UNCHANGED <<stateVars, verdict, outcome, late, runnerVars, attached,
                   devVars, crashRead>>

(* join(timeout=5.0) returns when the thread is gone or after five seconds, *)
(* and the thread is forgotten either way.                                 *)
Join ==
    /\ pc[Runner] = "join"
    /\ attached' = {}
    /\ GoTo(Runner, "idle")
    /\ UNCHANGED <<stateVars, verdict, outcome, late, runnerVars, enabled,
                   stopEvent, devVars, crashRead>>

RunnerCalls == RunTest \/ Reboot \/ EnableHeartbeat \/ DisableHeartbeat

RunnerContinues ==
    \/ Poweroff \/ NothingToStop \/ Kill
    \/ ClearFaultFlags \/ ClearFailures \/ Spawn \/ AskForPrompt \/ BootTimeout
    \/ Join

-----------------------------------------------------------------------------
(* The device and the clock. *)

DeviceHangs ==
    /\ dev = "ok"
    /\ dev' \in {"mute", "flood"}
    /\ owed' = {}
    /\ UNCHANGED <<stateVars, threadVars, runnerVars, beatCtl, banner, crashRead>>

DeviceCrashes ==
    /\ dev # "dead"
    /\ dev' = "mute"
    /\ owed' \in {owed, {}}
    /\ \E type \in CrashTypes : banner' = {type}
    /\ UNCHANGED <<stateVars, threadVars, runnerVars, beatCtl, crashRead>>

DeviceExits ==
    /\ dev # "dead"
    /\ dev' = "dead"
    /\ owed' = {}
    /\ banner' = {}
    /\ UNCHANGED <<stateVars, threadVars, runnerVars, beatCtl, crashRead>>

TimePasses(t) ==
    /\ pc[t] \in {"read", "loop", "check", "flood", "flooding"}
    /\ t \notin late
    /\ late' = late \cup {t}
    /\ UNCHANGED <<stateVars, pc, verdict, outcome, runnerVars, beatCtl,
                   devVars, crashRead>>

BootTimePasses ==
    /\ pc[Runner] = "boot" \/ (job = "boot" /\ Executing(Runner))
    /\ ~bootLate
    /\ bootLate' = TRUE
    /\ UNCHANGED <<stateVars, threadVars, job, beatCtl, devVars, crashRead>>

SilencePasses ==
    /\ Silence
    /\ UNCHANGED <<healthVars, beatVars, threadVars, runnerVars, beatCtl,
                   devVars, crashRead>>

Environment ==
    \/ DeviceHangs \/ DeviceCrashes \/ DeviceExits
    \/ (\E t \in Threads : TimePasses(t))
    \/ BootTimePasses \/ SilencePasses

Next ==
    \/ \E t \in Threads : CommandStep(t)
    \/ \E m \in Monitors : MonitorStep(m)
    \/ RunnerCalls \/ RunnerContinues
    \/ Environment

Spec == Init /\ [][Next]_vars

(* The threads are scheduled and time passes.  Nothing is assumed of the   *)
(* device, nor that the Runner makes any further call.                     *)
Fairness ==
    /\ \A t \in Threads : WF_vars(CommandStep(t)) /\ WF_vars(TimePasses(t))
    /\ \A m \in Monitors : WF_vars(MonitorStep(m))
    /\ WF_vars(RunnerContinues)
    /\ WF_vars(BootTimePasses)

FairSpec == Spec /\ Fairness

-----------------------------------------------------------------------------
(* Properties. *)

(* The in-command flag never stays up after the command it stands for:     *)
(* whichever way two overlapping commands end, with an answer, a timeout   *)
(* or an exception, the last one out leaves the heartbeat possible again   *)
(* (mark_command's finally, _check_heartbeat's finally).                   *)
FlagMeansCommand == inCommand => \E t \in Threads : Executing(t)

(* The failure count never exceeds the number of monitor threads, whatever *)
(* the device does: a probe is sent through send_cmd_read_until_pattern,   *)
(* whose wrapper sets the count to zero just before the failed probe adds  *)
(* one to it.                                                              *)
FailuresBounded == failures <= Cardinality(Monitors)

(* A heartbeat verdict needs as many monitor threads as the threshold: the *)
(* one thread the code means to run can declare a busy loop only with a    *)
(* threshold of one.                                                       *)
VerdictNeedsThreads ==
    (\E m \in Monitors : pc[m] = "declare") => Threshold <= Cardinality(Monitors)

(* No crash signature that any thread read, be it in output that is thrown *)
(* away before a command or between a probe and a reboot, is lost: until   *)
(* the next reset the device is marked, or the reader is about to mark it. *)
NoCrashDropped ==
    crashRead => \/ Unhealthy
                 \/ \E t \in Threads : verdict[t] \in CrashTypes

(* Every step of every thread is one the health record promises: no fault  *)
(* is cleared but by the reset of a reboot, and the crash type fits.        *)
Health == INSTANCE DeviceHealth WITH health <- currentState, kind <- crashType

HealthRefined == Health!Spec

(* Every call comes back: a command with or without an answer, from a      *)
(* healthy, mute, flooding, faulty or dead device, a reboot whose device   *)
(* never boots, a probe, and the join of a monitor that does not stop.     *)
CallsReturn ==
    /\ pc[Runner] # "idle" ~> pc[Runner] = "idle"
    /\ \A m \in Monitors : Executing(m) ~> pc[m] = "wait"

(* Once the heartbeat stays disabled every monitor thread ends, the ones   *)
(* that outlived their join(timeout=5.0) included.                         *)
MonitorsStop == <>[]~enabled => <>[](\A m \in Monitors : pc[m] = "off")

(* mark_command "prevents heartbeat checks from interfering with command   *)
(* execution": no thread takes the answer another thread's command is      *)
(* waiting for.                                                            *)
NoAnswerStolen ==
    [][ (Runner \in owed /\ Runner \notin owed' /\ pc[Runner] \in {"loop", "check"})
        => \/ outcome'[Runner] = "answered"
           \/ dev' # "ok" ]_vars
=============================================================================

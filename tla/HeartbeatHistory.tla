-------------------------- MODULE HeartbeatHistory --------------------------
(***************************************************************************)
(* DeviceMonitor with a history variable: how many probes failed in a row   *)
(* on a device that runs and is mute, with nothing in between: no command  *)
(* of the Runner, no output of the device.                                 *)
(***************************************************************************)
EXTENDS DeviceMonitor

VARIABLE missed     \* bounded by Threshold, beyond which nothing is claimed

hvars == <<vars, missed>>

HInit == Init /\ missed = 0

MissProbe ==
    /\ dev = "mute"
    /\ \E m \in Monitors : ProbeFailed(m)
    /\ missed' = IF missed < Threshold THEN missed + 1 ELSE missed

\* The device shows a sign of life, or the Runner uses it.
SignOfLife ==
    /\ \/ \E t \in Threads : PollText(t) \/ PollCrash(t)
       \/ CommandStep(Runner) \/ RunnerCalls \/ RunnerContinues
       \/ \E m \in Monitors : ProbePassed(m)
    /\ missed' = 0

\* The steps of a probe on a device that stays silent, or is not running.
Quiet ==
    /\ \/ \E m \in Monitors :
             \/ PollEmpty(m) \/ PollSilent(m) \/ Declare(m)
             \/ Write(m) \/ CheckGivesUp(m) \/ CheckAgain(m) \/ FloodVerdict(m)
             \/ IOError(m) \/ EndCommand(m)
             \/ MonitorWakes(m) \/ MonitorExits(m) \/ MonitorChecksHealth(m)
             \/ MonitorProbes(m) \/ ProbeDeclares(m) \/ ProbeEnds(m)
             \/ dev # "mute" /\ ProbeFailed(m)
       \/ Environment
    /\ UNCHANGED missed

HNext == MissProbe \/ SignOfLife \/ Quiet

HSpec == HInit /\ [][HNext]_hvars

(* "On threshold consecutive failures the device is marked BUSY_LOOP"       *)
(* (Documentation/usage.rst, heartbeat.threshold): once that many probes    *)
(* have failed in a row the fault is recorded or about to be.               *)
ThresholdHonoured ==
    missed >= Threshold => \/ Unhealthy
                           \/ \E m \in Monitors : pc[m] = "declare"
=============================================================================

------------------------ MODULE DeviceMonitorProofs ------------------------
(***************************************************************************)
(* Theorems about DeviceMonitor, for every set of monitor threads, every    *)
(* threshold and every set of crash types.                                 *)
(***************************************************************************)
EXTENDS DeviceMonitor, FiniteSetTheorems, TLAPS

-----------------------------------------------------------------------------
(* Control. *)

(* A thread that moves to a stage of its own keeps the control well typed. *)
LEMMA MoveOK ==
    ASSUME PcOK, NEW t \in Threads, NEW next \in Stages(t), GoTo(t, next)
    PROVE  PcOK'
BY DEF PcOK, GoTo, Stages

-----------------------------------------------------------------------------
(* Type correctness, one lemma per actor: control by MoveOK, data from the  *)
(* assignments of the action.                                              *)

(* Every step of a command keeps every variable in its type. *)
LEMMA CommandTypeOK ==
    ASSUME TypeOK, NEW t \in Threads, CommandStep(t)
    PROVE  TypeOK'
<1> USE DEF TypeOK, StateTypeOK, healthVars, beatVars, stateVars, runnerVars,
            beatCtl, devVars
<1>0. /\ CommandStages \subseteq Stages(t)
      /\ {"write", "read", "loop", "check", "flood", "flooding", "end"}
            \subseteq CommandStages
  BY DEF Stages, CommandStages
<1>1. CASE PollText(t)
  <2>1. PICK next \in AfterPoll(t, FALSE, FALSE) : GoTo(t, next)
    BY <1>1 DEF PollText
  <2>2. PcOK'
    BY <1>0, <2>1, MoveOK DEF AfterPoll
  <2> QED BY <1>1, <2>2 DEF PollText, UpdateActivity, Receive
<1>2. CASE PollEmpty(t)
  <2>1. PICK next \in AfterPoll(t, TRUE, FALSE) : GoTo(t, next)
    BY <1>2 DEF PollEmpty
  <2>2. PcOK'
    BY <1>0, <2>1, MoveOK DEF AfterPoll
  <2> QED BY <1>2, <2>2 DEF PollEmpty
<1>3. CASE PollSilent(t)
  <2>1. PICK next \in AfterPoll(t, TRUE, TRUE) : GoTo(t, next)
    BY <1>3 DEF PollSilent
  <2>2. PcOK'
    BY <1>0, <2>1, MoveOK DEF AfterPoll
  <2> QED BY <1>3, <2>2 DEF PollSilent
<1>4. CASE PollCrash(t)
  <2>1. PICK next \in AfterPoll(t, FALSE, TRUE) : GoTo(t, next)
    BY <1>4 DEF PollCrash
  <2>2. PcOK'
    BY <1>0, <2>1, MoveOK DEF AfterPoll
  <2> QED BY <1>4, <2>2 DEF PollCrash, Receive
<1>5. CASE Declare(t)
  <2>1. PcOK'
    BY <1>5 DEF Declare, PcOK, Stages
  <2> QED
    BY <1>5, <2>1
    DEF Declare, Deciding, SetBusyLoop, SetCrashed, TransitionTo, DeviceStates
<1>6. CASE Write(t)
  <2>1. PcOK'
    BY <1>0, <1>6, MoveOK DEF Write
  <2> QED BY <1>6, <2>1 DEF Write
<1>7. CASE ReadDone(t)
  <2>1. PcOK'
    BY <1>0, <1>7, MoveOK DEF ReadDone
  <2> QED BY <1>7, <2>1 DEF ReadDone
<1>8. CASE CheckAnswered(t)
  <2>1. PcOK'
    BY <1>0, <1>8, MoveOK DEF CheckAnswered
  <2> QED BY <1>8, <2>1 DEF CheckAnswered
<1>9. CASE CheckGivesUp(t)
  <2>1. PcOK'
    BY <1>0, <1>9, MoveOK DEF CheckGivesUp
  <2> QED BY <1>9, <2>1 DEF CheckGivesUp
<1>10. CASE CheckAgain(t)
  <2>1. PcOK'
    BY <1>0, <1>10, MoveOK DEF CheckAgain
  <2> QED BY <1>10, <2>1 DEF CheckAgain
<1>11. CASE FloodVerdict(t)
  <2>1. PcOK'
    BY <1>0, <1>11, MoveOK DEF FloodVerdict
  <2> QED BY <1>11, <2>1 DEF FloodVerdict, SetUnhealthy, TransitionTo, DeviceStates
<1>12. CASE IOError(t)
  <2>1. PcOK'
    BY <1>0, <1>12, MoveOK DEF IOError
  <2> QED BY <1>12, <2>1 DEF IOError
<1>13. CASE EndCommand(t)
  <2>1. PICK next \in AfterCommand(t) : GoTo(t, next)
    BY <1>13 DEF EndCommand
  <2>2. PcOK'
    BY <2>1, MoveOK DEF AfterCommand
  <2> QED BY <1>13, <2>2 DEF EndCommand, MarkCommandEnd
<1> QED
  BY <1>1, <1>2, <1>3, <1>4, <1>5, <1>6, <1>7, <1>8, <1>9, <1>10, <1>11, <1>12, <1>13
  DEF CommandStep

(* Every step of a monitor thread keeps every variable in its type. *)
LEMMA MonitorTypeOK ==
    ASSUME TypeOK, NEW m \in Monitors, MonitorStep(m)
    PROVE  TypeOK'
<1> USE DEF TypeOK, StateTypeOK, healthVars, beatVars, stateVars, runnerVars,
            beatCtl, devVars
<1>0. /\ m \in Threads
      /\ MonitorStages \subseteq Stages(m)
      /\ "drain" \in Stages(m)
      /\ {"off", "wait", "health", "commit", "outcome", "declare", "clear"}
            \subseteq MonitorStages
  BY ThreadAssumption DEF Threads, Stages, CommandStages, MonitorStages
<1>1. CASE MonitorWakes(m)
  <2>1. PcOK'
    BY <1>0, <1>1, MoveOK DEF MonitorWakes
  <2> QED BY <1>1, <2>1 DEF MonitorWakes
<1>2. CASE MonitorExits(m)
  <2>1. PcOK'
    BY <1>0, <1>2, MoveOK DEF MonitorExits
  <2> QED BY <1>2, <2>1 DEF MonitorExits
<1>3. CASE MonitorChecksHealth(m)
  <2>1. PcOK'
    BY <1>0, <1>3, MoveOK DEF MonitorChecksHealth
  <2> QED BY <1>3, <2>1 DEF MonitorChecksHealth
<1>4. CASE MonitorProbes(m)
  <2>1. PcOK'
    BY <1>0, <1>4, MoveOK DEF MonitorProbes, BeginCommand
  <2> QED BY <1>4, <2>1 DEF MonitorProbes, BeginCommand, MarkCommandStart
<1>5. CASE ProbePassed(m)
  <2>1. PcOK'
    BY <1>0, <1>5, MoveOK DEF ProbePassed
  <2> QED BY <1>5, <2>1 DEF ProbePassed, ResetFailures
<1>6. CASE ProbeFailed(m)
  <2>1. PcOK'
    BY <1>0, <1>6, MoveOK DEF ProbeFailed
  <2>2. failures' \in Nat
    BY <1>6 DEF ProbeFailed
  <2>3. /\ outcome' = [outcome EXCEPT ![m] = "waiting"]
        /\ UNCHANGED <<healthVars, activity, inCommand, verdict, late,
                       runnerVars, beatCtl, devVars, crashRead>>
    BY <1>6 DEF ProbeFailed
  <2> QED BY <2>1, <2>2, <2>3
<1>7. CASE ProbeDeclares(m)
  <2>1. PcOK'
    BY <1>0, <1>7, MoveOK DEF ProbeDeclares
  <2> QED BY <1>7, <2>1 DEF ProbeDeclares, SetBusyLoop, TransitionTo, DeviceStates
<1>8. CASE ProbeEnds(m)
  <2>1. PcOK'
    BY <1>0, <1>8, MoveOK DEF ProbeEnds
  <2> QED BY <1>8, <2>1 DEF ProbeEnds
<1> QED
  BY <1>1, <1>2, <1>3, <1>4, <1>5, <1>6, <1>7, <1>8
  DEF MonitorStep

(* Every call and every later step of the Runner does. *)
LEMMA RunnerTypeOK ==
    ASSUME TypeOK, RunnerCalls \/ RunnerContinues
    PROVE  TypeOK'
<1> USE DEF TypeOK, StateTypeOK, healthVars, beatVars, stateVars, runnerVars,
            beatCtl, devVars
<1>0. /\ Runner \in Threads
      /\ RunnerStages \subseteq Stages(Runner)
      /\ "drain" \in Stages(Runner)
      /\ {"idle", "stop", "kill", "reset", "resetFailures", "spawn", "boot",
          "join"} \subseteq RunnerStages
  BY DEF Threads, Stages, CommandStages, RunnerStages
<1>1. CASE RunTest
  <2>1. PcOK'
    BY <1>0, <1>1, MoveOK DEF RunTest, BeginCommand
  <2> QED BY <1>1, <2>1 DEF RunTest, BeginCommand, MarkCommandStart
<1>2. CASE Reboot
  <2>1. PcOK'
    BY <1>0, <1>2, MoveOK DEF Reboot
  <2> QED BY <1>2, <2>1 DEF Reboot
<1>3. CASE Poweroff
  <2>1. PcOK'
    BY <1>0, <1>3, MoveOK DEF Poweroff, BeginCommand
  <2> QED BY <1>3, <2>1 DEF Poweroff, BeginCommand, MarkCommandStart
<1>4. CASE NothingToStop
  <2>1. PcOK'
    BY <1>0, <1>4, MoveOK DEF NothingToStop
  <2> QED BY <1>4, <2>1 DEF NothingToStop
<1>5. CASE Kill
  <2>1. PcOK'
    BY <1>0, <1>5, MoveOK DEF Kill
  <2> QED BY <1>5, <2>1 DEF Kill
<1>6. CASE ClearFaultFlags
  <2>1. PcOK'
    BY <1>0, <1>6, MoveOK DEF ClearFaultFlags
  <2> QED BY <1>6, <2>1 DEF ClearFaultFlags, ResetState, DeviceStates
<1>7. CASE ClearFailures
  <2>1. PcOK'
    BY <1>0, <1>7, MoveOK DEF ClearFailures
  <2> QED BY <1>7, <2>1 DEF ClearFailures, ResetFailures
<1>8. CASE Spawn
  <2>1. PcOK'
    BY <1>0, <1>8, MoveOK DEF Spawn
  <2> QED BY <1>8, <2>1 DEF Spawn
<1>9. CASE AskForPrompt
  <2>1. PcOK'
    BY <1>0, <1>9, MoveOK DEF AskForPrompt, BeginCommand
  <2> QED BY <1>9, <2>1 DEF AskForPrompt, BeginCommand, MarkCommandStart
<1>10. CASE BootTimeout
  <2>1. PcOK'
    BY <1>0, <1>10, MoveOK DEF BootTimeout
  <2> QED BY <1>10, <2>1 DEF BootTimeout
<1>11. CASE Join
  <2>1. PcOK'
    BY <1>0, <1>11, MoveOK DEF Join
  <2> QED BY <1>11, <2>1 DEF Join
<1>12. CASE EnableHeartbeat
  <2>1. CASE \E m \in attached : Alive(m)
    <3>1. PcOK'
      BY <1>12, <2>1 DEF EnableHeartbeat, PcOK, Stages
    <3> QED BY <1>12, <2>1, <3>1 DEF EnableHeartbeat
  <2>2. CASE \A m \in attached : ~Alive(m)
    <3>1. PICK m \in Monitors : attached' = {m} /\ GoTo(m, "wait")
      BY <1>12, <2>2 DEF EnableHeartbeat
    <3>2. m \in Threads /\ "wait" \in Stages(m)
      BY ThreadAssumption DEF Threads, Stages, MonitorStages
    <3>3. PcOK'
      BY <3>1, <3>2, MoveOK
    <3> QED BY <1>12, <2>2, <3>1, <3>3 DEF EnableHeartbeat
  <2> QED BY <2>1, <2>2
<1>13. CASE DisableHeartbeat
  <2>1. PcOK'
    <3>1. CASE GoTo(Runner, "join")
      BY <1>0, <3>1, MoveOK
    <3>2. CASE UNCHANGED pc
      BY <3>2 DEF PcOK, Stages
    <3> QED BY <1>13, <3>1, <3>2 DEF DisableHeartbeat
  <2> QED BY <1>13, <2>1 DEF DisableHeartbeat
<1> QED
  BY <1>1, <1>2, <1>3, <1>4, <1>5, <1>6, <1>7, <1>8, <1>9, <1>10, <1>11, <1>12, <1>13
  DEF RunnerCalls, RunnerContinues

(* So do the device, the clock and a step in which nothing happens. *)
LEMMA EnvironmentTypeOK ==
    ASSUME TypeOK, Environment \/ UNCHANGED vars
    PROVE  TypeOK'
<1> USE DEF TypeOK, StateTypeOK, healthVars, beatVars, stateVars, runnerVars,
            beatCtl, devVars, threadVars
<1>0. ASSUME UNCHANGED pc PROVE PcOK'
  BY <1>0 DEF PcOK, Stages
<1>1. CASE DeviceHangs
  BY <1>0, <1>1 DEF DeviceHangs
<1>2. CASE DeviceCrashes
  BY <1>0, <1>2 DEF DeviceCrashes
<1>3. CASE DeviceExits
  BY <1>0, <1>3 DEF DeviceExits
<1>4. ASSUME NEW t \in Threads, TimePasses(t) PROVE TypeOK'
  BY <1>0, <1>4 DEF TimePasses
<1>5. CASE BootTimePasses
  BY <1>0, <1>5 DEF BootTimePasses
<1>6. CASE SilencePasses
  BY <1>0, <1>6 DEF SilencePasses, Silence
<1>7. CASE UNCHANGED vars
  BY <1>0, <1>7 DEF vars
<1> HIDE DEF TypeOK
<1> QED
  BY <1>1, <1>2, <1>3, <1>4, <1>5, <1>6, <1>7 DEF Environment

(* A constructed device with no thread and no process behind it. *)
LEMMA InitTypeOK == Init => TypeOK
<1> SUFFICES ASSUME Init PROVE TypeOK
  OBVIOUS
<1>1. StateTypeOK
  BY DEF Init, StateInit, StateTypeOK, DeviceStates
<1>2. PcOK
  <2>1. pc = [t \in Threads |-> IF t = Runner THEN "idle" ELSE "off"]
    BY DEF Init
  <2>2. "idle" \in RunnerStages /\ "off" \in MonitorStages
    BY DEF RunnerStages, MonitorStages
  <2> QED BY <2>1, <2>2 DEF PcOK, Stages
<1>3. /\ verdict \in [Threads -> CrashTypes \cup {"none", "silent"}]
      /\ outcome \in [Threads -> {"waiting", "answered", "failed", "raised"}]
  BY DEF Init
<1> QED BY <1>1, <1>2, <1>3 DEF Init, TypeOK

(* TypeOK holds in every reachable state. *)
THEOREM TypeCorrect == Spec => []TypeOK
<1>1. Init => TypeOK
  BY InitTypeOK
<1>2. TypeOK /\ [Next]_vars => TypeOK'
  BY CommandTypeOK, MonitorTypeOK, RunnerTypeOK, EnvironmentTypeOK DEF Next
<1> QED BY <1>1, <1>2, PTL DEF Spec

-----------------------------------------------------------------------------
(* What the steps of each actor do to the stages, the in-command flag and  *)
(* the failure count.                                                      *)

(* A thread that moves leaves the others where they are. *)
LEMMA OthersStay ==
    ASSUME PcOK, NEW t \in Threads, NEW next, GoTo(t, next)
    PROVE  /\ pc'[t] = next
           /\ \A u \in Threads \ {t} : pc'[u] = pc[u]
BY DEF PcOK, GoTo

(* Inside a command only its end touches the flag, and nothing raises the  *)
(* failure count.                                                          *)
LEMMA CommandShape ==
    ASSUME TypeOK, NEW t \in Threads, CommandStep(t)
    PROVE  \/ UNCHANGED <<pc, inCommand, failures>>
           \/ /\ Executing(t)'
              /\ \A u \in Threads \ {t} : pc'[u] = pc[u]
              /\ inCommand' = inCommand
              /\ failures' \in {failures, 0}
           \/ EndCommand(t)
<1> USE DEF stateVars, healthVars, beatVars
<1>0. PcOK /\ {"read", "loop", "flood", "end"} \subseteq CommandStages
  BY DEF TypeOK, CommandStages
<1>1. ASSUME PollText(t) \/ PollEmpty(t) \/ PollSilent(t) \/ PollCrash(t)
      PROVE  /\ \E next \in CommandStages : GoTo(t, next)
             /\ inCommand' = inCommand
             /\ failures' \in {failures, 0}
  BY <1>1
  DEF PollText, PollEmpty, PollSilent, PollCrash, AfterPoll, UpdateActivity
<1>2. ASSUME Write(t) \/ ReadDone(t) \/ CheckAnswered(t) \/ CheckGivesUp(t)
             \/ CheckAgain(t) \/ FloodVerdict(t) \/ IOError(t)
      PROVE  /\ \E next \in CommandStages : GoTo(t, next)
             /\ inCommand' = inCommand
             /\ failures' = failures
  BY <1>0, <1>2
  DEF Write, ReadDone, CheckAnswered, CheckGivesUp, CheckAgain, FloodVerdict,
      IOError
<1>3. CASE Declare(t)
  BY <1>3 DEF Declare
<1>4. ASSUME \E next \in CommandStages : GoTo(t, next)
      PROVE  Executing(t)' /\ \A u \in Threads \ {t} : pc'[u] = pc[u]
  BY <1>0, <1>4, OthersStay DEF Executing
<1> QED BY <1>1, <1>2, <1>3, <1>4 DEF CommandStep

(* A monitor thread outside a command leaves the flag to those inside one, *)
(* and raises the failure count only on a failed probe.                    *)
LEMMA MonitorShape ==
    ASSUME TypeOK, NEW m \in Monitors, MonitorStep(m)
    PROVE  /\ ~Executing(m)
           /\ \A u \in Threads \ {m} : pc'[u] = pc[u]
           /\ pc'[m] # "outcome"
           /\ inCommand' => inCommand \/ Executing(m)'
           /\ failures' \in {failures, 0} \/ ProbeFailed(m)
<1> USE DEF stateVars, healthVars, beatVars
<1>0. m \in Threads /\ PcOK
  BY DEF TypeOK, Threads
<1>1. /\ ~Executing(m)
      /\ \E next \in MonitorStages \cup {"drain"} :
            next # "outcome" /\ GoTo(m, next)
  BY DEF MonitorStep, MonitorWakes, MonitorExits, MonitorChecksHealth,
         MonitorProbes, BeginCommand, ProbePassed, ProbeFailed, ProbeDeclares,
         ProbeEnds, Executing, CommandStages, MonitorStages
<1>2. inCommand' => inCommand \/ Executing(m)'
  <2>1. CASE MonitorProbes(m)
    BY <1>0, <2>1, OthersStay
    DEF MonitorProbes, BeginCommand, Executing, CommandStages
  <2>2. CASE ~MonitorProbes(m)
    BY <2>2
    DEF MonitorStep, MonitorWakes, MonitorExits, MonitorChecksHealth,
        ProbePassed, ProbeFailed, ProbeDeclares, ProbeEnds
  <2> QED BY <2>1, <2>2
<1>3. failures' \in {failures, 0} \/ ProbeFailed(m)
  BY DEF MonitorStep, MonitorWakes, MonitorExits, MonitorChecksHealth,
         MonitorProbes, BeginCommand, ProbePassed, ProbeDeclares, ProbeEnds,
         ResetFailures
<1> QED BY <1>0, <1>1, <1>2, <1>3, OthersStay

(* The Runner outside a command: at most a monitor thread is born.         *)
LEMMA RunnerShape ==
    ASSUME TypeOK, RunnerCalls \/ RunnerContinues
    PROVE  /\ ~Executing(Runner)
           /\ \A m \in Monitors :
                 pc'[m] = pc[m] \/ (pc[m] = "off" /\ pc'[m] = "wait")
           /\ inCommand' => inCommand \/ Executing(Runner)'
           /\ failures' \in {failures, 0}
<1> USE DEF stateVars, healthVars, beatVars
<1>0. Runner \in Threads /\ PcOK /\ Runner \notin Monitors
  BY ThreadAssumption DEF TypeOK, Threads
<1>1. ~Executing(Runner)
  BY DEF RunnerCalls, RunnerContinues, RunTest, Reboot, Poweroff,
         NothingToStop, Kill, ClearFaultFlags, ClearFailures, Spawn,
         AskForPrompt, BootTimeout, EnableHeartbeat, DisableHeartbeat, Join,
         Executing, CommandStages
<1>2. \A m \in Monitors :
         pc'[m] = pc[m] \/ (pc[m] = "off" /\ pc'[m] = "wait")
  <2>1. CASE EnableHeartbeat
    <3>1. CASE UNCHANGED pc
      BY <3>1
    <3>2. ASSUME NEW n \in Monitors, ~Alive(n), GoTo(n, "wait")
          PROVE  \A m \in Monitors :
                    pc'[m] = pc[m] \/ (pc[m] = "off" /\ pc'[m] = "wait")
      BY <1>0, <3>2, OthersStay DEF Threads, Alive
    <3> QED BY <2>1, <3>1, <3>2 DEF EnableHeartbeat
  <2>2. CASE ~EnableHeartbeat
    <3>1. UNCHANGED pc \/ \E next \in RunnerStages \cup {"drain"} : GoTo(Runner, next)
      BY <2>2
      DEF RunnerCalls, RunnerContinues, RunTest, Reboot, Poweroff,
          NothingToStop, Kill, ClearFaultFlags, ClearFailures, Spawn,
          AskForPrompt, BootTimeout, DisableHeartbeat, Join, BeginCommand,
          RunnerStages
    <3> QED BY <1>0, <3>1, OthersStay DEF Threads
  <2> QED BY <2>1, <2>2
<1>3. inCommand' => inCommand \/ Executing(Runner)'
  <2>1. CASE RunTest \/ Poweroff \/ AskForPrompt
    BY <1>0, <2>1, OthersStay
    DEF RunTest, Poweroff, AskForPrompt, BeginCommand, Executing, CommandStages
  <2>2. CASE ~(RunTest \/ Poweroff \/ AskForPrompt)
    BY <2>2
    DEF RunnerCalls, RunnerContinues, Reboot, NothingToStop, Kill,
        ClearFaultFlags, ClearFailures, Spawn, BootTimeout, EnableHeartbeat,
        DisableHeartbeat, Join
  <2> QED BY <2>1, <2>2
<1>4. failures' \in {failures, 0}
  BY DEF RunnerCalls, RunnerContinues, RunTest, Reboot, Poweroff,
         NothingToStop, Kill, ClearFaultFlags, ClearFailures, ResetFailures,
         Spawn, AskForPrompt, BootTimeout, EnableHeartbeat, DisableHeartbeat,
         Join, BeginCommand
<1> QED BY <1>1, <1>2, <1>3, <1>4

(* The device and the clock touch none of it. *)
LEMMA EnvironmentShape ==
    ASSUME Environment \/ UNCHANGED vars
    PROVE  UNCHANGED <<pc, inCommand, failures>>
BY DEF Environment, DeviceHangs, DeviceCrashes, DeviceExits, TimePasses,
       BootTimePasses, SilencePasses, Silence, vars, stateVars, healthVars,
       beatVars, threadVars

-----------------------------------------------------------------------------
(* The in-command flag and the failure count. *)

(* The monitors that may still add their failure to the count: all but     *)
(* those between the end of their probe and its outcome.                   *)
Counted == {m \in Monitors : pc[m] # "outcome"}

(* Strengthens FailuresBounded into an inductive invariant: a monitor is    *)
(* only at "outcome" after its own EndCommand has set the count to zero,   *)
(* so each failure in the count stands for another counted monitor.        *)
FailureBudget == failures <= Cardinality(Counted)

(* The bound is a number that grows with the set. *)
LEMMA CountedFinite ==
    /\ IsFiniteSet(Counted)
    /\ Cardinality(Counted) \in Nat
    /\ Cardinality(Counted) <= Cardinality(Monitors)
    /\ Cardinality(Monitors) \in Nat
<1>1. Counted \subseteq Monitors
  BY DEF Counted
<1>2. IsFiniteSet(Monitors)
  BY ThreadAssumption
<1> QED BY <1>1, <1>2, FS_Subset, FS_CardinalityType

(* In-command is raised by a thread that starts a command and lowered by   *)
(* any thread that ends one.                                               *)
LEMMA FlagStep ==
    ASSUME TypeOK, FlagMeansCommand, [Next]_vars
    PROVE  FlagMeansCommand'
<1> SUFFICES ASSUME inCommand' PROVE (\E t \in Threads : Executing(t))'
  BY DEF FlagMeansCommand
<1>1. ASSUME UNCHANGED <<pc, inCommand>> PROVE (\E t \in Threads : Executing(t))'
  BY <1>1 DEF FlagMeansCommand, Executing
<1>2. ASSUME NEW t \in Threads, CommandStep(t)
      PROVE  (\E u \in Threads : Executing(u))'
  <2>1. ~EndCommand(t)
    BY DEF EndCommand, MarkCommandEnd
  <2> QED BY <1>1, <1>2, <2>1, CommandShape
<1>3. ASSUME NEW m \in Monitors, MonitorStep(m)
      PROVE  (\E u \in Threads : Executing(u))'
  <2>1. m \in Threads
    BY DEF Threads
  <2>2. CASE Executing(m)'
    BY <2>1, <2>2
  <2>3. CASE ~Executing(m)'
    <3>1. PICK u \in Threads : Executing(u)
      BY <1>3, <2>3, MonitorShape DEF FlagMeansCommand
    <3>2. u # m /\ pc'[u] = pc[u]
      BY <1>3, <3>1, MonitorShape
    <3> QED BY <3>1, <3>2 DEF Executing
  <2> QED BY <2>2, <2>3
<1>4. CASE RunnerCalls \/ RunnerContinues
  <2>1. Runner \in Threads
    BY DEF Threads
  <2>2. CASE Executing(Runner)'
    BY <2>1, <2>2
  <2>3. CASE ~Executing(Runner)'
    <3>1. PICK u \in Threads : Executing(u)
      BY <1>4, <2>3, RunnerShape DEF FlagMeansCommand
    <3>2. u \in Monitors
      BY <1>4, <3>1, RunnerShape DEF Threads
    <3>3. pc'[u] = pc[u]
      BY <1>4, <3>1, <3>2, RunnerShape DEF Executing, CommandStages
    <3> QED BY <3>1, <3>3 DEF Executing
  <2> QED BY <2>2, <2>3
<1>5. CASE Environment \/ UNCHANGED vars
  BY <1>1, <1>5, EnvironmentShape
<1> QED BY <1>2, <1>3, <1>4, <1>5 DEF Next

(* A step that raises no failure and brings no monitor to its outcome keeps *)
(* the budget.                                                             *)
LEMMA BudgetKept ==
    ASSUME TypeOK, FailureBudget, failures' \in {failures, 0},
           \A m \in Monitors : pc'[m] = "outcome" => pc[m] = "outcome"
    PROVE  FailureBudget'
<1>1. Counted \subseteq Counted'
  BY DEF Counted
<1>2. IsFiniteSet(Counted')
  BY ThreadAssumption, FS_Subset DEF Counted
<1>3. Cardinality(Counted) <= Cardinality(Counted')
  BY <1>1, <1>2, FS_Subset
<1>4. Cardinality(Counted') \in Nat
  BY <1>2, FS_CardinalityType
<1>5. failures \in Nat
  BY DEF TypeOK, StateTypeOK
<1> QED BY <1>3, <1>4, <1>5, CountedFinite DEF FailureBudget

(* The end of a probe clears the count; its failure adds one to the count  *)
(* and its monitor to the counted ones.                                    *)
LEMMA BudgetStep ==
    ASSUME TypeOK, FailureBudget, [Next]_vars
    PROVE  FailureBudget'
<1>1. ASSUME NEW t \in Threads, CommandStep(t) PROVE FailureBudget'
  <2>1. CASE EndCommand(t)
    <3>1. failures' = 0
      BY <2>1 DEF EndCommand, MarkCommandEnd
    <3>2. IsFiniteSet(Counted') /\ Cardinality(Counted') \in Nat
      BY ThreadAssumption, FS_Subset, FS_CardinalityType DEF Counted
    <3> QED BY <3>1, <3>2 DEF FailureBudget
  <2>2. CASE UNCHANGED <<pc, inCommand, failures>>
    BY <2>2, BudgetKept
  <2>3. CASE /\ Executing(t)'
             /\ \A u \in Threads \ {t} : pc'[u] = pc[u]
             /\ failures' \in {failures, 0}
    <3>1. \A m \in Monitors : pc'[m] = "outcome" => pc[m] = "outcome"
      BY <2>3 DEF Executing, CommandStages, Threads
    <3> QED BY <2>3, <3>1, BudgetKept
  <2> QED BY <1>1, <2>1, <2>2, <2>3, CommandShape
<1>2. ASSUME NEW m \in Monitors, MonitorStep(m) PROVE FailureBudget'
  <2>1. \A u \in Monitors : pc'[u] = "outcome" => pc[u] = "outcome"
    BY <1>2, MonitorShape DEF Threads
  <2>2. CASE failures' \in {failures, 0}
    BY <2>1, <2>2, BudgetKept
  <2>3. CASE ProbeFailed(m)
    <3>1. /\ pc[m] = "outcome" /\ pc'[m] # "outcome"
          /\ failures' = failures + 1
      BY <1>2, <2>3, MonitorShape DEF ProbeFailed
    <3>2. Counted' = Counted \cup {m} /\ m \notin Counted
      BY <1>2, <3>1, MonitorShape DEF Counted, Threads
    <3>3. Cardinality(Counted') = Cardinality(Counted) + 1
      BY <3>2, CountedFinite, FS_AddElement
    <3>4. failures \in Nat
      BY DEF TypeOK, StateTypeOK
    <3> QED BY <3>1, <3>3, <3>4, CountedFinite DEF FailureBudget
  <2> QED BY <1>2, <2>2, <2>3, MonitorShape
<1>3. CASE RunnerCalls \/ RunnerContinues
  <2>1. failures' \in {failures, 0}
    BY <1>3, RunnerShape
  <2>2. \A m \in Monitors : pc'[m] = "outcome" => pc[m] = "outcome"
    BY <1>3, RunnerShape
  <2> QED BY <2>1, <2>2, BudgetKept
<1>4. CASE Environment \/ UNCHANGED vars
  BY <1>4, EnvironmentShape, BudgetKept
<1> QED BY <1>1, <1>2, <1>3, <1>4 DEF Next

(* No probe declares a busy loop unless the count could reach the          *)
(* threshold.                                                              *)
LEMMA VerdictStep ==
    ASSUME TypeOK, FailureBudget, VerdictNeedsThreads, [Next]_vars
    PROVE  VerdictNeedsThreads'
<1> SUFFICES ASSUME NEW m \in Monitors, pc'[m] = "declare", pc[m] # "declare"
             PROVE  Threshold <= Cardinality(Monitors)
  BY DEF VerdictNeedsThreads
<1>1. CASE ProbeFailed(m)
  <2>1. failures' = failures + 1 /\ failures + 1 >= Threshold
    <3>1. GoTo(m, IF failures + 1 >= Threshold THEN "declare" ELSE "clear")
      BY <1>1 DEF ProbeFailed
    <3>2. m \in Threads /\ PcOK
      BY DEF Threads, TypeOK
    <3>3. pc'[m] = IF failures + 1 >= Threshold THEN "declare" ELSE "clear"
      BY <3>1, <3>2 DEF GoTo, PcOK
    <3> QED BY <1>1, <3>3 DEF ProbeFailed
  <2>2. failures' <= Cardinality(Counted')
    BY BudgetStep DEF FailureBudget
  <2>3. Cardinality(Counted') <= Cardinality(Monitors) /\ Cardinality(Counted') \in Nat
    BY ThreadAssumption, FS_Subset, FS_CardinalityType DEF Counted
  <2>4. failures \in Nat /\ Threshold \in Nat /\ Cardinality(Monitors) \in Nat
    BY ThresholdAssumption, CountedFinite DEF TypeOK, StateTypeOK
  <2> QED BY <2>1, <2>2, <2>3, <2>4
<1>2. ASSUME ~ProbeFailed(m) PROVE FALSE
  <2>0. m \in Threads /\ PcOK
    BY DEF Threads, TypeOK
  <2>1. ASSUME NEW t \in Threads, CommandStep(t) PROVE FALSE
    <3>1. CASE EndCommand(t)
      <4>1. PICK next \in AfterCommand(t) : GoTo(t, next)
        BY <3>1 DEF EndCommand
      <4>2. next # "declare"
        BY DEF AfterCommand
      <4> QED BY <2>0, <4>1, <4>2, OthersStay
    <3> QED
      BY <2>0, <2>1, <3>1, CommandShape DEF Executing, CommandStages
  <2>2. ASSUME NEW n \in Monitors, MonitorStep(n) PROVE FALSE
    <3>1. n = m
      BY <2>0, <2>2, MonitorShape
    <3> QED
      BY <1>2, <2>0, <2>2, <3>1
      DEF MonitorStep, MonitorWakes, MonitorExits, MonitorChecksHealth,
          MonitorProbes, BeginCommand, ProbePassed, ProbeDeclares, ProbeEnds,
          GoTo, PcOK
  <2>3. CASE RunnerCalls \/ RunnerContinues
    BY <2>3, RunnerShape
  <2>4. CASE Environment \/ UNCHANGED vars
    BY <2>4, EnvironmentShape
  <2> QED BY <2>1, <2>2, <2>3, <2>4 DEF Next
<1> QED BY <1>1, <1>2

(* Type correctness, the flag, the failure count and its consequence: the  *)
(* inductive invariant of the heartbeat.                                   *)
HeartbeatInv == TypeOK /\ FlagMeansCommand /\ FailureBudget /\ VerdictNeedsThreads

(* HeartbeatInv holds in every reachable state. *)
THEOREM HeartbeatInvariant == Spec => []HeartbeatInv
<1>1. Init => HeartbeatInv
  <2> SUFFICES ASSUME Init PROVE HeartbeatInv
    OBVIOUS
  <2>1. inCommand = FALSE /\ failures = 0
    BY DEF Init, StateInit
  <2>2. \A m \in Monitors : pc[m] # "declare"
    BY ThreadAssumption DEF Init, Threads
  <2> QED
    BY <2>1, <2>2, InitTypeOK, CountedFinite
    DEF HeartbeatInv, FlagMeansCommand, FailureBudget, VerdictNeedsThreads
<1>2. HeartbeatInv /\ [Next]_vars => HeartbeatInv'
  <2> SUFFICES ASSUME HeartbeatInv, [Next]_vars PROVE HeartbeatInv'
    OBVIOUS
  <2>1. TypeOK'
    BY CommandTypeOK, MonitorTypeOK, RunnerTypeOK, EnvironmentTypeOK
    DEF HeartbeatInv, Next
  <2> QED BY <2>1, FlagStep, BudgetStep, VerdictStep DEF HeartbeatInv
<1> QED BY <1>1, <1>2, PTL DEF Spec

(* The in-command flag is never left up by a command that is over, however  *)
(* commands of different threads overlap and end (mark_command).           *)
THEOREM FlagIsReleased == Spec => []FlagMeansCommand
<1>1. HeartbeatInv => FlagMeansCommand
  BY DEF HeartbeatInv
<1> QED BY <1>1, HeartbeatInvariant, PTL

(* The heartbeat's failure count never exceeds the number of its threads,  *)
(* which the code means to be one (_heartbeat_failures).                   *)
THEOREM FailuresStayBounded == Spec => []FailuresBounded
<1>1. HeartbeatInv => FailuresBounded
  BY CountedFinite DEF HeartbeatInv, FailureBudget, FailuresBounded, TypeOK, StateTypeOK
<1> QED BY <1>1, HeartbeatInvariant, PTL

(* A threshold above the number of heartbeat threads is never reached: the *)
(* default of three never declares a busy loop (_handle_heartbeat_failure). *)
THEOREM HeartbeatNeverDeclares == Spec => []VerdictNeedsThreads
<1>1. HeartbeatInv => VerdictNeedsThreads
  BY DEF HeartbeatInv
<1> QED BY <1>1, HeartbeatInvariant, PTL

-----------------------------------------------------------------------------
(* The health record. *)

\* The steps that touch the health record or the verdicts about it.
HealthAction ==
    \/ \E t \in Threads :
          PollSilent(t) \/ PollCrash(t) \/ Declare(t) \/ FloodVerdict(t)
    \/ \E m \in Monitors : ProbeDeclares(m)
    \/ ClearFaultFlags

(* All other steps leave them alone. *)
LEMMA HealthFrame ==
    ASSUME [Next]_vars, ~HealthAction
    PROVE  UNCHANGED <<currentState, crashType, verdict, crashRead>>
<1> USE DEF HealthAction, stateVars, healthVars, threadVars
<1>1. ASSUME NEW t \in Threads, CommandStep(t)
      PROVE  UNCHANGED <<currentState, crashType, verdict, crashRead>>
  BY <1>1
  DEF CommandStep, PollText, PollEmpty, Write, ReadDone, CheckAnswered,
      CheckGivesUp, CheckAgain, IOError, EndCommand
<1>2. ASSUME NEW m \in Monitors, MonitorStep(m)
      PROVE  UNCHANGED <<currentState, crashType, verdict, crashRead>>
  BY <1>2
  DEF MonitorStep, MonitorWakes, MonitorExits, MonitorChecksHealth,
      MonitorProbes, BeginCommand, ProbePassed, ProbeFailed, ProbeEnds
<1>3. CASE RunnerCalls \/ RunnerContinues
  BY <1>3
  DEF RunnerCalls, RunnerContinues, RunTest, Reboot, Poweroff, NothingToStop,
      Kill, ClearFailures, Spawn, AskForPrompt, BootTimeout, EnableHeartbeat,
      DisableHeartbeat, Join, BeginCommand
<1>4. CASE Environment \/ UNCHANGED vars
  BY <1>4
  DEF Environment, DeviceHangs, DeviceCrashes, DeviceExits, TimePasses,
      BootTimePasses, SilencePasses, vars
<1> QED BY <1>1, <1>2, <1>3, <1>4 DEF Next

(* The signature a poll finds stays with its thread until it is recorded,  *)
(* and once recorded only the reset makes the device healthy.              *)
LEMMA CrashStep ==
    ASSUME TypeOK, NoCrashDropped, [Next]_vars
    PROVE  NoCrashDropped'
<1> USE DEF NoCrashDropped, Unhealthy, Faults, DeviceStates, TypeOK,
            StateTypeOK
<1>1. CASE ~HealthAction
  BY <1>1, HealthFrame
<1>2. ASSUME NEW t \in Threads, PollSilent(t) PROVE NoCrashDropped'
  <2>1. /\ UNCHANGED <<currentState, crashRead>>
        /\ verdict' = [verdict EXCEPT ![t] = "silent"]
        /\ verdict[t] = "none"
    BY <1>2 DEF PollSilent, Polling, Deciding, stateVars
  <2>2. \A u \in Threads : verdict[u] \in CrashTypes => verdict'[u] = verdict[u]
    BY <2>1, VerdictAssumption
  <2> QED BY <2>1, <2>2
<1>3. ASSUME NEW t \in Threads, PollCrash(t) PROVE NoCrashDropped'
  BY <1>3 DEF PollCrash
<1>4. ASSUME NEW t \in Threads, Declare(t) PROVE NoCrashDropped'
  BY <1>4 DEF Declare, SetBusyLoop, SetCrashed, TransitionTo
<1>5. ASSUME NEW t \in Threads, FloodVerdict(t) PROVE NoCrashDropped'
  BY <1>5 DEF FloodVerdict, SetUnhealthy, TransitionTo
<1>6. ASSUME NEW m \in Monitors, ProbeDeclares(m) PROVE NoCrashDropped'
  BY <1>6 DEF ProbeDeclares, SetBusyLoop, TransitionTo
<1>7. CASE ClearFaultFlags
  BY <1>7 DEF ClearFaultFlags
<1> QED BY <1>1, <1>2, <1>3, <1>4, <1>5, <1>6, <1>7 DEF HealthAction

(* A crash signature that was read is never lost: the device is marked, or  *)
(* the thread that read it is about to mark it (_read_all, check_crash).   *)
THEOREM CrashesAreKept == Spec => []NoCrashDropped
<1>1. Init => NoCrashDropped
  BY DEF Init, NoCrashDropped
<1>2. TypeOK /\ NoCrashDropped /\ [Next]_vars => NoCrashDropped'
  BY CrashStep
<1> QED BY <1>1, <1>2, TypeCorrect, PTL DEF Spec

(* Every step of DeviceMonitor is a step of the health record or leaves it  *)
(* alone.                                                                  *)
LEMMA HealthStep ==
    ASSUME TypeOK, [Next]_vars
    PROVE  [Health!Next]_(Health!hvars)
<1> USE DEF Health!Next, Health!Crash, Health!OtherFault, Health!Recover,
            Health!hvars
<1>1. CASE ~HealthAction
  BY <1>1, HealthFrame
<1>2. ASSUME NEW t \in Threads, PollSilent(t) \/ PollCrash(t)
      PROVE  UNCHANGED <<currentState, crashType>>
  BY <1>2 DEF PollSilent, PollCrash, stateVars
<1>3. ASSUME NEW t \in Threads, Declare(t)
      PROVE  [Health!Next]_(Health!hvars)
  <2>1. verdict[t] = "silent" \/ verdict[t] \in CrashTypes
    BY <1>3 DEF Declare, Deciding, TypeOK
  <2>2. CASE verdict[t] = "silent"
    <3>1. currentState' = "BUSY_LOOP" /\ UNCHANGED crashType
      BY <1>3, <2>2 DEF Declare, SetBusyLoop, TransitionTo
    <3> QED BY <3>1
  <2>3. CASE verdict[t] # "silent" /\ verdict[t] \in CrashTypes
    <3>1. /\ currentState' = "CRASHED"
          /\ crashType' = IF currentState = "CRASHED" THEN crashType ELSE verdict[t]
      BY <1>3, <2>3 DEF Declare, SetCrashed
    <3> QED BY <2>3, <3>1
  <2> QED BY <2>1, <2>2, <2>3
<1>4. ASSUME NEW t \in Threads, FloodVerdict(t)
      PROVE  [Health!Next]_(Health!hvars)
  BY <1>4 DEF FloodVerdict, SetUnhealthy, TransitionTo
<1>5. ASSUME NEW m \in Monitors, ProbeDeclares(m)
      PROVE  [Health!Next]_(Health!hvars)
  BY <1>5 DEF ProbeDeclares, SetBusyLoop, TransitionTo
<1>6. CASE ClearFaultFlags
  BY <1>6 DEF ClearFaultFlags, ResetState
<1> QED BY <1>1, <1>2, <1>3, <1>4, <1>5, <1>6 DEF HealthAction

(* DeviceMonitor implements DeviceHealth: whatever the threads do, a fault  *)
(* is cleared only by a recovery that clears the crash type with it.       *)
THEOREM HealthIsRefined == Spec => HealthRefined
<1>1. Init => Health!Init
  BY DEF Init, StateInit, Health!Init
<1>2. TypeOK /\ [Next]_vars => [Health!Next]_(Health!hvars)
  BY HealthStep
<1> QED BY <1>1, <1>2, TypeCorrect, PTL DEF Spec, HealthRefined, Health!Spec

(* get_crash_type never answers for a device without a fault, nor UNKNOWN   *)
(* for a crashed one, at any moment of any interleaving: a property of the  *)
(* abstract record that its implementation inherits.                       *)
THEOREM KindFollowsHealth == Spec => []Health!KindMatchesHealth
<1> USE DEF Health!KindMatchesHealth
<1>1. Health!Init => Health!KindMatchesHealth
  BY DEF Health!Init
<1>2. Health!KindMatchesHealth /\ [Health!Next]_(Health!hvars)
        => Health!KindMatchesHealth'
  BY DEF Health!Next, Health!Crash, Health!OtherFault, Health!Recover,
         Health!hvars
<1>3. Health!Spec => []Health!KindMatchesHealth
  BY <1>1, <1>2, PTL DEF Health!Spec
<1> QED BY <1>3, HealthIsRefined DEF HealthRefined
=============================================================================

------------------------- MODULE TestSessionProofs -------------------------
(***************************************************************************)
(* Theorems about TestSession, for every number of products, tests, loops,  *)
(* recovery attempts and coredumps.                                        *)
(***************************************************************************)
EXTENDS TestSession, FiniteSetTheorems, TLAPS

-----------------------------------------------------------------------------
(* Type correctness. *)

(* The item of a turn is one of the collected items (pytest_runtestloop).   *)
LEMMA ItemOK ==
    ASSUME turn \in 1..(Items * Loops)
    PROVE  Item \in ItemSet
<1>1. Items \in Nat \ {0} /\ Loops \in Nat \ {0} /\ Items * Loops \in Nat
  BY NumberAssumption
<1>2. turn - 1 \in Nat
  BY <1>1
<1>3. (turn - 1) % Items \in 0..(Items - 1)
  BY <1>1, <1>2
<1> QED BY <1>1, <1>3 DEF Item, ItemSet

(* The initial state is well typed. *)
LEMMA InitTypeOK == Init => TypeOK
<1> SUFFICES ASSUME Init PROVE TypeOK
  OBVIOUS
<1>1. turn \in 1..(Items * Loops)
  BY NumberAssumption DEF Init
<1>2. attempt \in 0..MaxRetries /\ dumps \in [Products -> Nat]
      /\ \A p \in Products : dumps[p] <= DumpLimit[p]
  BY NumberAssumption DEF Init
<1>3. prefixes \in [ItemSet -> Nat]
  BY DEF Init
<1> QED BY <1>1, <1>2, <1>3 DEF Init, TypeOK, Stages, Phases, FaultKinds

(* Starting, attaching and stopping keep every variable in its type. *)
LEMMA LifecycleTypeOK ==
    ASSUME TypeOK,
           \/ \E p \in Products : StartProduct(p) \/ StartRaises(p) \/ StopDevice(p)
           \/ StartDone \/ CollectionDone \/ Attach \/ NoSession
           \/ Finish \/ Detach \/ DetachRaises \/ StopDone
    PROVE  TypeOK'
<1> USE DEF TypeOK, Stages, Phases, FaultKinds, posVars, resultVars, tallyVars,
            recVars, deviceVars, dumpVars, gdbVars, heartVars
<1>1. ASSUME NEW p \in Products, StartProduct(p) PROVE TypeOK'
  BY <1>1 DEF StartProduct
<1>2. ASSUME NEW p \in Products, StartRaises(p) PROVE TypeOK'
  BY <1>2 DEF StartRaises
<1>3. ASSUME NEW p \in Products, StopDevice(p) PROVE TypeOK'
  BY <1>3 DEF StopDevice
<1>4. CASE StartDone
  BY <1>4, SwitchAssumption DEF StartDone
<1>5. CASE CollectionDone
  BY <1>5 DEF CollectionDone
<1>6. CASE Attach
  BY <1>6 DEF Attach, AttachAll
<1>7. CASE Finish
  BY <1>7 DEF Finish
<1>8. CASE Detach
  BY <1>8 DEF Detach
<1>9. CASE StopDone
  BY <1>9 DEF StopDone
<1>10. CASE NoSession
  BY <1>10 DEF NoSession
<1>11. CASE DetachRaises
  BY <1>11 DEF DetachRaises
<1> QED BY <1>1, <1>2, <1>3, <1>4, <1>5, <1>6, <1>7, <1>8, <1>9, <1>10, <1>11

(* A phase, its report, its coredumps and its recovery keep every variable  *)
(* in its type.                                                            *)
LEMMA PhaseTypeOK ==
    ASSUME TypeOK,
           \/ \E p \in Products : Dump(p)
           \/ PhaseEnds \/ NothingToDump \/ TestFailed \/ DumpsDone \/ Judge
           \/ RebootSucceeds \/ RebootRaises \/ RecoveryFails
           \/ Reattach \/ ReattachRaises
           \/ NextPhase \/ NextTest \/ LastTest
    PROVE  TypeOK'
<1> USE DEF TypeOK, Stages, Phases, FaultKinds, posVars, resultVars, tallyVars,
            recVars, deviceVars, dumpVars, gdbVars, heartVars
<1>0. Item \in ItemSet
  BY ItemOK
<1>1. ASSUME NEW p \in Products, Dump(p) PROVE TypeOK'
  <2>1. dumps' \in [Products -> Nat] /\ \A q \in Products : dumps'[q] <= DumpLimit[q]
    BY <1>1, NumberAssumption DEF Dump
  <2>2. files' \subseteq (Products \X ItemSet \X Nat)
    BY <1>0, <1>1 DEF Dump
  <2> QED BY <1>1, <2>1, <2>2 DEF Dump
<1>2. CASE PhaseEnds
  BY <1>2 DEF PhaseEnds
<1>3. CASE NothingToDump
  BY <1>3 DEF NothingToDump
<1>4. CASE TestFailed
  <2>1. Managers \subseteq Products
    BY DEF Managers
  <2>2. prefixes' \in [ItemSet -> Nat]
    BY <1>0, <1>4 DEF TestFailed
  <2> QED BY <1>4, <2>1, <2>2 DEF TestFailed
<1>5. CASE DumpsDone
  BY <1>5 DEF DumpsDone
<1>6. CASE Judge
  BY <1>0, <1>6 DEF Judge
<1>7. CASE RebootSucceeds
  BY <1>7, NumberAssumption DEF RebootSucceeds, RebootProducts
<1>8. CASE RebootRaises
  BY <1>8, NumberAssumption DEF RebootRaises, RebootProducts
<1>9. CASE RecoveryFails
  BY <1>9, NumberAssumption DEF RecoveryFails
<1>10. CASE Reattach
  BY <1>10, NumberAssumption DEF Reattach, AttachAll
<1>11. CASE NextPhase
  BY <1>11 DEF NextPhase
<1>12. CASE NextTest
  BY <1>12, NumberAssumption DEF NextTest
<1>13. CASE LastTest
  BY <1>13 DEF LastTest
<1>14. CASE ReattachRaises
  BY <1>14 DEF ReattachRaises
<1> QED BY <1>1, <1>2, <1>3, <1>4, <1>5, <1>6, <1>7, <1>8, <1>9, <1>10,
           <1>11, <1>12, <1>13, <1>14

(* What a test body and the devices do keeps every variable in its type. *)
LEMMA OutsideTypeOK ==
    ASSUME TypeOK, BodyReboots \/ Environment \/ UNCHANGED vars
    PROVE  TypeOK'
<1> USE DEF TypeOK, Stages, Phases, FaultKinds, posVars, resultVars, tallyVars,
            recVars, deviceVars, dumpVars, gdbVars, heartVars
<1>1. CASE BodyReboots
  BY <1>1, ProductAssumption DEF BodyReboots, RebootProducts
<1>2. ASSUME NEW p \in Products, DeviceFault(p) PROVE TypeOK'
  BY <1>2 DEF DeviceFault
<1>3. ASSUME NEW p \in Products, DeviceExits(p) PROVE TypeOK'
  BY <1>3 DEF DeviceExits
<1>4. CASE UNCHANGED vars
  BY <1>4 DEF vars
<1>5. ASSUME NEW p \in Products, StragglerEnds(p) PROVE TypeOK'
  BY <1>5 DEF StragglerEnds
<1> QED BY <1>1, <1>2, <1>3, <1>4, <1>5 DEF Environment

(* A session is well typed whatever the products, tests, loops and limits:  *)
(* no product is dumped more often than coredump.limit allows and no        *)
(* recovery takes more than max_retries attempts.                          *)
THEOREM SessionTypeCorrect == Spec => []TypeOK
<1>1. TypeOK /\ [Next]_vars => TypeOK'
  BY LifecycleTypeOK, PhaseTypeOK, OutsideTypeOK DEF Next, SessionStep
<1> QED BY <1>1, InitTypeOK, PTL DEF Spec

-----------------------------------------------------------------------------
(* The verdict of the session. *)

\* An item marked by the setup or the call of some loop has failed the session.
VerdictInv ==
    /\ faultSeen => anyFailed
    /\ marked # {} => anyFailed

\* Steps other than the judgement leave the tally alone.
LEMMA TallyFrame ==
    ASSUME [Next]_vars, ~Judge
    PROVE  UNCHANGED tallyVars
<1> USE DEF resultVars
<1>1. ASSUME NEW p \in Products,
             StartProduct(p) \/ StartRaises(p) \/ StopDevice(p) \/ Dump(p)
      PROVE  UNCHANGED tallyVars
  BY <1>1 DEF StartProduct, StartRaises, StopDevice, Dump
<1>2. CASE \/ StartDone \/ CollectionDone \/ Attach \/ NoSession
           \/ Finish \/ Detach \/ DetachRaises \/ StopDone
  BY <1>2 DEF StartDone, CollectionDone, Attach, NoSession, Finish, Detach,
              DetachRaises, StopDone
<1>3. CASE PhaseEnds \/ NothingToDump \/ TestFailed \/ DumpsDone
  BY <1>3 DEF PhaseEnds, NothingToDump, TestFailed, DumpsDone, tallyVars
<1>4. CASE \/ RebootSucceeds \/ RebootRaises \/ RecoveryFails
           \/ Reattach \/ ReattachRaises
  BY <1>4 DEF RebootSucceeds, RebootRaises, RecoveryFails, Reattach,
              ReattachRaises
<1>5. CASE NextPhase \/ NextTest \/ LastTest
  BY <1>5 DEF NextPhase, NextTest, LastTest
<1>6. CASE BodyReboots \/ Environment \/ UNCHANGED vars
  BY <1>6 DEF BodyReboots, Environment, DeviceFault, DeviceExits,
              StragglerEnds, vars
<1> QED BY <1>1, <1>2, <1>3, <1>4, <1>5, <1>6 DEF Next, SessionStep

(* A fault that is not judged, in a teardown, belongs to an item that some  *)
(* earlier phase, perhaps of an earlier loop, has already failed.          *)
LEMMA VerdictStep ==
    ASSUME TypeOK, VerdictInv, [Next]_vars
    PROVE  VerdictInv'
<1> USE DEF VerdictInv
<1>1. CASE ~Judge
  BY <1>1, TallyFrame DEF tallyVars
<1>2. CASE Judge
  <2>1. CASE Faulty # {} /\ CrashCheckPhase
    BY <1>2, <2>1 DEF Judge, TypeOK
  <2>2. CASE Faulty # {} /\ ~CrashCheckPhase
    <3>1. Item \in marked
      BY <2>2 DEF CrashCheckPhase
    <3> QED BY <1>2, <2>2, <3>1 DEF Judge, TypeOK
  <2>3. CASE Faulty = {}
    BY <1>2, <2>3 DEF Judge, TypeOK
  <2> QED BY <2>1, <2>2, <2>3
<1> QED BY <1>1, <1>2

(* A session in which some device was faulty at the end of some phase is    *)
(* never reported as passed (pytest_runtest_makereport).                   *)
THEOREM FaultsFailTheSession == Spec => []NoFaultyRunPasses
<1>1. Init => VerdictInv
  BY DEF Init, VerdictInv
<1>2. TypeOK /\ VerdictInv /\ [Next]_vars => VerdictInv'
  BY VerdictStep
<1>3. VerdictInv => NoFaultyRunPasses
  BY DEF VerdictInv, NoFaultyRunPasses
<1> QED BY <1>1, <1>2, <1>3, SessionTypeCorrect, PTL DEF Spec

-----------------------------------------------------------------------------
(* The recovery and the controllers. *)

\* A failed recovery lets no test body begin and no failed call be reported.
RecoveryInv ==
    /\ stage \in {"reboot", "reattach"} => outcome = "failed"
    /\ stage = "dump" => when = "call"
    /\ recoveryFailed =>
          /\ stage \notin {"call", "dump"}
          /\ stage = "report" => when # "call"
          /\ when = "setup" /\ stage \in {"report", "judge", "next"}
                => outcome # "passed"

\* A controller is stale only between a reboot and what follows it.
GdbInv ==
    \A p \in Products \ rebootedByTest :
        gdb[p] = "stale" => recoveryFailed \/ stage \in {"reboot", "reattach"}

\* The heartbeat and the controllers are gone before the devices.
ShutdownInv ==
    /\ stage = "collecting" => mode = "collect"
    /\ stage = "detach" => ~beating \/ mode = "broken"
    /\ mode = "run" /\ stage \in {"stop", "ended"} =>
          ~beating /\ \A p \in Products : gdb[p] = "off"

(* Every step that moves the main thread keeps the invariant: the only step *)
(* that raises recoveryFailed leaves a failed report, and from then on a    *)
(* setup is skipped, so that no later report lets its body begin.          *)
LEMMA RecoveryStep ==
    ASSUME TypeOK, RecoveryInv, [Next]_vars
    PROVE  RecoveryInv'
<1> USE DEF RecoveryInv, posVars, resultVars, recVars, Phases
<1>1. ASSUME NEW p \in Products,
             StartProduct(p) \/ StartRaises(p) \/ StopDevice(p) \/ Dump(p)
      PROVE  RecoveryInv'
  BY <1>1 DEF StartProduct, StartRaises, StopDevice, Dump
<1>2. CASE \/ StartDone \/ CollectionDone \/ Attach \/ NoSession
           \/ Finish \/ Detach \/ DetachRaises \/ StopDone
  BY <1>2 DEF StartDone, CollectionDone, Attach, NoSession, Finish, Detach,
              DetachRaises, StopDone
<1>3. CASE PhaseEnds
  BY <1>3 DEF PhaseEnds
<1>4. CASE NothingToDump \/ TestFailed \/ DumpsDone
  BY <1>4 DEF NothingToDump, TestFailed, DumpsDone
<1>5. CASE Judge
  BY <1>5 DEF Judge, CrashCheckPhase
<1>6. CASE \/ RebootSucceeds \/ RebootRaises \/ RecoveryFails
           \/ Reattach \/ ReattachRaises
  BY <1>6 DEF RebootSucceeds, RebootRaises, RecoveryFails, Reattach,
              ReattachRaises
<1>7. CASE NextPhase \/ NextTest \/ LastTest
  BY <1>7 DEF NextPhase, NextTest, LastTest
<1>8. CASE BodyReboots \/ Environment \/ UNCHANGED vars
  BY <1>8 DEF BodyReboots, Environment, DeviceFault, DeviceExits,
              StragglerEnds, vars
<1> QED BY <1>1, <1>2, <1>3, <1>4, <1>5, <1>6, <1>7, <1>8 DEF Next, SessionStep

(* The recovery invariant holds of every session. *)
LEMMA RecoveryInvariant == Spec => []RecoveryInv
<1>1. Init => RecoveryInv
  BY DEF Init, RecoveryInv
<1>2. TypeOK /\ RecoveryInv /\ [Next]_vars => RecoveryInv'
  BY RecoveryStep
<1> QED BY <1>1, <1>2, SessionTypeCorrect, PTL DEF Spec

(* After a failed recovery no test body runs, for any number of retries     *)
(* (pytest_runtest_setup).                                                 *)
THEOREM FailedRecoveryStopsBodies == Spec => []NoBodyAfterFailedRecovery
<1>1. RecoveryInv => NoBodyAfterFailedRecovery
  BY DEF RecoveryInv, NoBodyAfterFailedRecovery
<1> QED BY <1>1, RecoveryInvariant, PTL

(* A controller becomes stale by a reboot of the recovery, which ends in a  *)
(* new attachment or a failed recovery, or of the test, which is recorded.  *)
LEMMA GdbStep ==
    ASSUME TypeOK, GdbInv, [Next]_vars
    PROVE  GdbInv'
<1> USE DEF GdbInv, gdbVars, posVars, recVars, TypeOK
<1>1. ASSUME NEW p \in Products,
             StartProduct(p) \/ StartRaises(p) \/ StopDevice(p) \/ Dump(p)
      PROVE  GdbInv'
  BY <1>1 DEF StartProduct, StartRaises, StopDevice, Dump
<1>2. CASE StartDone \/ CollectionDone \/ Finish \/ StopDone
  BY <1>2 DEF StartDone, CollectionDone, Finish, StopDone
<1>3. CASE Attach \/ NoSession \/ Reattach
  BY <1>3 DEF Attach, NoSession, Reattach, AttachAll
<1>4. CASE Detach \/ DetachRaises
  BY <1>4 DEF Detach, DetachRaises
<1>5. CASE PhaseEnds \/ NothingToDump \/ TestFailed \/ DumpsDone \/ Judge
  BY <1>5 DEF PhaseEnds, NothingToDump, TestFailed, DumpsDone, Judge, Phases
<1>6. CASE RebootSucceeds \/ RebootRaises \/ ReattachRaises
  BY <1>6 DEF RebootSucceeds, RebootRaises, ReattachRaises
<1>7. CASE RecoveryFails
  BY <1>7 DEF RecoveryFails
<1>8. CASE NextPhase \/ NextTest \/ LastTest
  BY <1>8 DEF NextPhase, NextTest, LastTest
<1>9. CASE BodyReboots
  BY <1>9 DEF BodyReboots, RebootProducts
<1>10. CASE Environment \/ UNCHANGED vars
  BY <1>10 DEF Environment, DeviceFault, DeviceExits, StragglerEnds, vars
<1> QED BY <1>1, <1>2, <1>3, <1>4, <1>5, <1>6, <1>7, <1>8, <1>9, <1>10
        DEF Next, SessionStep

(* A coredump is never asked of a controller left stale by a recovery       *)
(* (restart_all_controllers, _device_reboot).                              *)
THEOREM DumpsAskLiveTargets == Spec => []DumpsFromLiveTarget
<1>1. Init => GdbInv
  BY DEF Init, GdbInv
<1>2. TypeOK /\ GdbInv /\ [Next]_vars => GdbInv'
  BY GdbStep
<1>3. GdbInv /\ RecoveryInv => DumpsFromLiveTarget
  BY DEF GdbInv, RecoveryInv, DumpsFromLiveTarget
<1> QED BY <1>1, <1>2, <1>3, SessionTypeCorrect, RecoveryInvariant, PTL DEF Spec

(* The devices of a test run are stopped only after the heartbeat and the   *)
(* controllers are.                                                        *)
LEMMA ShutdownStep ==
    ASSUME TypeOK, ShutdownInv, [Next]_vars
    PROVE  ShutdownInv'
<1> USE DEF ShutdownInv, posVars, gdbVars, heartVars, Phases, TypeOK
<1>1. ASSUME NEW p \in Products,
             StartProduct(p) \/ StartRaises(p) \/ StopDevice(p) \/ Dump(p)
      PROVE  ShutdownInv'
  BY <1>1 DEF StartProduct, StartRaises, StopDevice, Dump
<1>2. CASE StartDone \/ CollectionDone \/ Attach \/ NoSession
  BY <1>2 DEF StartDone, CollectionDone, Attach, NoSession
<1>3. CASE Finish
  BY <1>3 DEF Finish
<1>4. CASE Detach \/ DetachRaises
  BY <1>4 DEF Detach, DetachRaises
<1>5. CASE StopDone
  BY <1>5 DEF StopDone
<1>6. CASE PhaseEnds \/ NothingToDump \/ TestFailed \/ DumpsDone \/ Judge
  BY <1>6 DEF PhaseEnds, NothingToDump, TestFailed, DumpsDone, Judge
<1>7. CASE \/ RebootSucceeds \/ RebootRaises \/ RecoveryFails
           \/ Reattach \/ ReattachRaises
  BY <1>7 DEF RebootSucceeds, RebootRaises, RecoveryFails, Reattach,
              ReattachRaises
<1>8. CASE NextPhase \/ NextTest \/ LastTest
  BY <1>8 DEF NextPhase, NextTest, LastTest
<1>9. CASE BodyReboots \/ Environment \/ UNCHANGED vars
  BY <1>9 DEF BodyReboots, Environment, DeviceFault, DeviceExits,
              StragglerEnds, vars
<1> QED BY <1>1, <1>2, <1>3, <1>4, <1>5, <1>6, <1>7, <1>8, <1>9
        DEF Next, SessionStep

(* In the shutdown of a test run only a probe under way finds a fault of a  *)
(* device that is down: the heartbeat is off and no reboot takes place.     *)
LEMMA ShutdownFaults ==
    ASSUME TypeOK, ShutdownInv, [Next]_vars,
           mode' = "run", stage' \in {"stop", "ended"},
           NEW q \in Products, fault'[q] # fault[q]
    PROVE  alive[q] \/ q \in straggling
<1> DEFINE Goal == alive[q] \/ q \in straggling
<1> USE DEF posVars, deviceVars, Phases, TypeOK
<1>1. ASSUME NEW p \in Products,
             StartProduct(p) \/ StartRaises(p) \/ StopDevice(p) \/ Dump(p)
      PROVE  Goal
  BY <1>1 DEF StartProduct, StartRaises, StopDevice, Dump
<1>2. CASE \/ StartDone \/ CollectionDone \/ Attach \/ NoSession
           \/ Finish \/ Detach \/ DetachRaises \/ StopDone
  BY <1>2 DEF StartDone, CollectionDone, Attach, NoSession, Finish, Detach,
              DetachRaises, StopDone
<1>3. CASE PhaseEnds \/ NothingToDump \/ TestFailed \/ DumpsDone \/ Judge
  BY <1>3 DEF PhaseEnds, NothingToDump, TestFailed, DumpsDone, Judge
<1>4. CASE \/ RebootSucceeds \/ RebootRaises \/ RecoveryFails
           \/ Reattach \/ ReattachRaises
  BY <1>4 DEF RebootSucceeds, RebootRaises, RecoveryFails, Reattach,
              ReattachRaises
<1>5. CASE NextPhase \/ NextTest \/ LastTest
  BY <1>5 DEF NextPhase, NextTest, LastTest
<1>6. CASE BodyReboots
  BY <1>6 DEF BodyReboots
<1>7. ASSUME NEW p \in Products, DeviceFault(p) PROVE Goal
  <2>1. p = q /\ ~beating
    BY <1>7 DEF DeviceFault, ShutdownInv
  <2> QED BY <1>7, <2>1 DEF DeviceFault, Probed
<1>8. ASSUME NEW p \in Products, DeviceExits(p) \/ StragglerEnds(p) PROVE Goal
  BY <1>8 DEF DeviceExits, StragglerEnds
<1>9. CASE UNCHANGED vars
  BY <1>9 DEF vars
<1> QED BY <1>1, <1>2, <1>3, <1>4, <1>5, <1>6, <1>7, <1>8, <1>9
        DEF Next, SessionStep, Environment

(* When the devices are stopped after a test run the heartbeat is disabled  *)
(* and no GDB holds them; what is still found wrong with a device that is   *)
(* down is the last word of a probe that outlived the join                  *)
(* (pytest_sessionfinish, _stop_monitor_thread, MyPytest.runner).          *)
THEOREM ShutdownIsQuiet == Spec => ShutdownQuiet
<1>1. Init => ShutdownInv
  BY DEF Init, ShutdownInv
<1>2. TypeOK /\ ShutdownInv /\ [Next]_vars => ShutdownInv'
  BY ShutdownStep
<1>3. TypeOK /\ ShutdownInv /\ ShutdownInv' /\ [Next]_vars =>
        [ mode' = "run" /\ stage' \in {"stop", "ended"} =>
            /\ ~beating'
            /\ \A p \in Products :
                  /\ gdb'[p] = "off"
                  /\ fault'[p] # fault[p] => alive[p] \/ p \in straggling ]_vars
  BY ShutdownFaults DEF ShutdownInv
<1> QED BY <1>1, <1>2, <1>3, SessionTypeCorrect, PTL DEF Spec, ShutdownQuiet

-----------------------------------------------------------------------------
(* The coredumps. *)

\* The current prefix of an item has served no manager still to be asked.
DumpInv ==
    /\ IsFiniteSet(files)
    /\ \A f \in files : f[3] <= prefixes[f[2]]
    /\ stage = "dump" =>
          \A p \in pending : <<p, Item, prefixes[Item]>> \notin files
    /\ DumpsKept

(* All steps but the start of a collection and its dumps leave what a      *)
(* collection works with alone.                                            *)
LEMMA DumpFrame ==
    ASSUME [Next]_vars, ~TestFailed, \A p \in Products : ~Dump(p)
    PROVE  /\ UNCHANGED dumpVars
           /\ stage' = "dump" => stage = "dump" /\ UNCHANGED <<pending, turn>>
<1> DEFINE Kept == /\ UNCHANGED dumpVars
                   /\ stage' = "dump" => /\ stage = "dump"
                                         /\ UNCHANGED <<pending, turn>>
<1> USE DEF posVars, Phases
<1>1. ASSUME NEW p \in Products,
             StartProduct(p) \/ StartRaises(p) \/ StopDevice(p)
      PROVE  Kept
  BY <1>1 DEF StartProduct, StartRaises, StopDevice
<1>2. CASE \/ StartDone \/ CollectionDone \/ Attach \/ NoSession
           \/ Finish \/ Detach \/ DetachRaises \/ StopDone
  BY <1>2 DEF StartDone, CollectionDone, Attach, NoSession, Finish, Detach,
              DetachRaises, StopDone
<1>3. CASE PhaseEnds \/ NothingToDump \/ DumpsDone \/ Judge
  BY <1>3 DEF PhaseEnds, NothingToDump, DumpsDone, Judge
<1>4. CASE \/ RebootSucceeds \/ RebootRaises \/ RecoveryFails
           \/ Reattach \/ ReattachRaises
  BY <1>4 DEF RebootSucceeds, RebootRaises, RecoveryFails, Reattach,
              ReattachRaises
<1>5. CASE NextPhase \/ NextTest \/ LastTest
  BY <1>5 DEF NextPhase, NextTest, LastTest
<1>6. CASE BodyReboots \/ Environment \/ UNCHANGED vars
  BY <1>6 DEF BodyReboots, Environment, DeviceFault, DeviceExits,
              StragglerEnds, vars
<1> QED BY <1>1, <1>2, <1>3, <1>4, <1>5, <1>6 DEF Next, SessionStep

(* A manager that writes a file adds one to its files: the path is new.    *)
LEMMA DumpAddsOne ==
    ASSUME TypeOK, DumpInv, NEW p \in Products, Dump(p)
    PROVE  DumpInv'
<1> DEFINE new == <<p, Item, prefixes[Item]>>
           Of(q) == {f \in files : f[1] = q}
<1>1. Item \in ItemSet /\ prefixes[Item] \in Nat
  BY ItemOK DEF TypeOK
<1>2. /\ stage = "dump" /\ stage' = stage /\ p \in pending
      /\ pending' = pending \ {p} /\ UNCHANGED <<turn, prefixes>>
      /\ Item' = Item
  BY DEF Dump, Item
<1>3. new \notin files
  BY <1>2 DEF DumpInv
<1>4. CASE UNCHANGED <<dumps, files>>
  BY <1>2, <1>4 DEF DumpInv, DumpsKept
<1>5. CASE /\ dumps' = [dumps EXCEPT ![p] = @ + 1]
           /\ files' = files \cup {new}
  <2>1. IsFiniteSet(files')
    BY <1>5, FS_AddElement DEF DumpInv
  <2>2. \A f \in files' : f[3] <= prefixes'[f[2]]
    BY <1>1, <1>2, <1>5 DEF DumpInv
  <2>3. \A q \in pending' : <<q, Item, prefixes[Item]>> \notin files'
    BY <1>2, <1>5 DEF DumpInv
  <2>4. ASSUME NEW q \in Products
        PROVE  dumps'[q] = Cardinality({f \in files' : f[1] = q})
    <3>1. IsFiniteSet(Of(q)) /\ dumps[q] = Cardinality(Of(q))
      BY FS_Subset DEF DumpInv, DumpsKept
    <3>2. CASE q = p
      <4>1. {f \in files' : f[1] = q} = Of(q) \cup {new}
        BY <1>5, <3>2
      <4>2. new \notin Of(q)
        BY <1>3
      <4>3. Cardinality(Of(q) \cup {new}) = Cardinality(Of(q)) + 1
        BY <3>1, <4>2, FS_AddElement
      <4>4. dumps'[q] = dumps[q] + 1
        BY <1>5, <3>2 DEF TypeOK
      <4> QED BY <3>1, <4>1, <4>3, <4>4
    <3>3. CASE q # p
      <4>1. {f \in files' : f[1] = q} = Of(q)
        BY <1>5, <3>3
      <4>2. dumps'[q] = dumps[q]
        BY <1>5, <3>3 DEF TypeOK
      <4> QED BY <3>1, <4>1, <4>2
    <3> QED BY <3>2, <3>3
  <2> QED BY <1>2, <2>1, <2>2, <2>3, <2>4 DEF DumpInv, DumpsKept
<1> QED BY <1>4, <1>5 DEF Dump

(* Every step keeps the coredumps and their count in agreement.            *)
LEMMA DumpStep ==
    ASSUME TypeOK, DumpInv, [Next]_vars
    PROVE  DumpInv'
<1>1. CASE ~TestFailed /\ \A p \in Products : ~Dump(p)
  BY <1>1, DumpFrame DEF DumpInv, DumpsKept, dumpVars, Item
<1>2. ASSUME NEW p \in Products, Dump(p) PROVE DumpInv'
  BY <1>2, DumpAddsOne
<1>3. CASE TestFailed
  <2>1. Item \in ItemSet /\ Item' = Item
    BY <1>3, ItemOK DEF TestFailed, TypeOK, Item
  <2>2. /\ prefixes' = [prefixes EXCEPT ![Item] = @ + 1]
        /\ UNCHANGED <<dumps, files>>
    BY <1>3 DEF TestFailed
  <2>3. ASSUME NEW f \in files
        PROVE  /\ f[2] \in ItemSet /\ f[3] \in Nat
               /\ f[3] <= prefixes[f[2]] /\ prefixes[f[2]] \in Nat
    BY DEF TypeOK, DumpInv
  <2>4. ASSUME NEW f \in files PROVE f[3] <= prefixes'[f[2]]
    BY <2>1, <2>2, <2>3 DEF TypeOK
  <2>5. ASSUME NEW p \in pending'
        PROVE  <<p, Item, prefixes'[Item]>> \notin files
    <3>1. prefixes'[Item] = prefixes[Item] + 1
      BY <2>1, <2>2 DEF TypeOK
    <3> QED BY <2>3, <3>1
  <2> QED BY <2>1, <2>2, <2>4, <2>5 DEF DumpInv, DumpsKept
<1> QED BY <1>1, <1>2, <1>3

(* No coredump overwrites another: for any number of failures of any test   *)
(* in any number of loops each product has as many files as its manager     *)
(* counts (_unique_prefix, CoredumpManager.collect).                       *)
THEOREM DumpsAreKept == Spec => []DumpsKept
<1>1. Init => DumpInv
  <2> SUFFICES ASSUME Init PROVE DumpInv
    OBVIOUS
  <2>1. IsFiniteSet({}) /\ Cardinality({}) = 0
    BY FS_EmptySet
  <2>2. \A p \in Products : {f \in files : f[1] = p} = {}
    BY DEF Init
  <2> QED BY <2>1, <2>2 DEF Init, DumpInv, DumpsKept
<1>2. TypeOK /\ DumpInv /\ [Next]_vars => DumpInv'
  BY DumpStep
<1>3. DumpInv => DumpsKept
  BY DEF DumpInv
<1> QED BY <1>1, <1>2, <1>3, SessionTypeCorrect, PTL DEF Spec
=============================================================================
